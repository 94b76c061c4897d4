----------------------- MODULE ProtocolDefinition_proofs -----------------------
(***************************************************************************)
(* That every legal text is accepted, and that what is accepted is what    *)
(* was written, for every set of texts: the lemmas about the parser's      *)
(* nodes, its stack of types and the validation, and the invariant of      *)
(* parseProtocolDefinition.                                                *)
(***************************************************************************)
EXTENDS ProtocolDefinition, QueueLemmas

-----------------------------------------------------------------------------
(* Sequences.                                                              *)

\* A sequence is the concatenation of s up to each of its positions.
Flattens(f, s, m) ==
  /\ f[1] = s[1]
  /\ \A i \in 2 .. m : f[i] = f[i - 1] \o s[i]

\* The recursive function that flattens a sequence of sequences exists.
LEMMA FlattenExists ==
  ASSUME NEW S, NEW s \in Seq(Seq(S))
  PROVE  \A m \in 1 .. Len(s) : \E f \in [1 .. m -> Seq(S)] : Flattens(f, s, m)
<1> DEFINE n == Len(s)
           Has(m) == \E f \in [1 .. m -> Seq(S)] : Flattens(f, s, m)
           Wrong == {m \in 1 .. n : ~ Has(m)}
<1>1. n \in Nat /\ \A i \in 1 .. n : s[i] \in Seq(S)
  BY LenProperties, ElementOfSeq
<1> HIDE DEF n
<1>2. ASSUME 1 \in 1 .. n PROVE Has(1)
  <2> DEFINE g == [i \in 1 .. 1 |-> s[1]]
  <2>1. g \in [1 .. 1 -> Seq(S)]
    BY <1>1, <1>2
  <2>2. Flattens(g, s, 1)
    BY DEF Flattens
  <2> QED BY <2>1, <2>2
<1>3. ASSUME NEW m \in 2 .. n, Has(m - 1) PROVE Has(m)
  <2>1. PICK f \in [1 .. m - 1 -> Seq(S)] : Flattens(f, s, m - 1)
    BY <1>3
  <2> DEFINE g == [i \in 1 .. m |-> IF i = m THEN f[m - 1] \o s[m] ELSE f[i]]
  <2>2. m - 1 \in 1 .. m - 1 /\ m \in 1 .. n
    BY <1>1
  <2>3. f[m - 1] \o s[m] \in Seq(S)
    BY <1>1, <2>2, ConcatProperties
  <2>4. g \in [1 .. m -> Seq(S)]
    BY <2>2, <2>3, <1>1
  <2>5. /\ g[m] = f[m - 1] \o s[m]
        /\ \A i \in 1 .. m - 1 : g[i] = f[i]
    <3>1. m \in 1 .. m /\ \A i \in 1 .. m - 1 : i \in 1 .. m /\ i # m
      BY <1>1
    <3> QED BY <3>1
  <2> HIDE DEF g
  <2>6. \A i \in 2 .. m : g[i] = g[i - 1] \o s[i]
    <3> TAKE i \in 2 .. m
    <3>1. CASE i = m
      BY <2>2, <2>5, <3>1
    <3>2. CASE i # m
      <4>1. i \in 2 .. m - 1 /\ i \in 1 .. m - 1 /\ i - 1 \in 1 .. m - 1
        BY <3>2, <1>1
      <4>2. f[i] = f[i - 1] \o s[i]
        BY <2>1, <4>1 DEF Flattens
      <4> QED BY <4>1, <4>2, <2>5
    <3> QED BY <3>1, <3>2
  <2>7. g[1] = s[1]
    <3>1. 1 \in 1 .. m - 1
      BY <1>1
    <3> QED BY <3>1, <2>5, <2>1 DEF Flattens
  <2>8. Flattens(g, s, m)
    BY <2>6, <2>7 DEF Flattens
  <2> QED BY <2>4, <2>8
<1> HIDE DEF Has
<1>4. Wrong = {}
  <2> SUFFICES ASSUME Wrong # {} PROVE FALSE
    OBVIOUS
  <2>1. Wrong \in SUBSET (1 .. n)
    OBVIOUS
  <2>2. PICK m \in Wrong : \A k \in Wrong : m <= k
    BY <1>1, <2>1, SmallestElement
  <2>3. m \in 1 .. n /\ ~ Has(m)
    OBVIOUS
  <2>4. CASE m = 1
    BY <1>2, <2>3, <2>4
  <2>5. CASE m # 1
    <3>1. m \in 2 .. n /\ m - 1 \in 1 .. n /\ ~ (m <= m - 1)
      BY <2>3, <2>5, <1>1
    <3>2. Has(m - 1)
      BY <2>2, <3>1
    <3> QED BY <1>3, <2>3, <3>1, <3>2
  <2> QED BY <2>4, <2>5
<1> QED BY <1>4 DEF Has, n

\* And it is what FlattenSeq takes the last value of.
LEMMA FlattenDef ==
  ASSUME NEW S, NEW s \in Seq(Seq(S)), Len(s) # 0
  PROVE  \E f \in [1 .. Len(s) -> Seq(S)] : Flattens(f, s, Len(s)) /\ FlattenSeq(s) = f[Len(s)]
<1>1. Len(s) \in Nat \ {0} /\ Len(s) \in 1 .. Len(s)
  BY LenProperties
<1>2. PICK f \in [1 .. Len(s) -> Seq(S)] : Flattens(f, s, Len(s))
  BY <1>1, FlattenExists
<1> DEFINE E(g) == [i \in 1 .. Len(s) |-> IF i = 1 THEN s[i] ELSE g[i - 1] \o s[i]]
           F == CHOOSE g : g = E(g)
<1>3. f = E(f)
  <2>1. \A i \in 1 .. Len(s) : f[i] = E(f)[i]
    <3> TAKE i \in 1 .. Len(s)
    <3>1. CASE i = 1
      BY <1>2, <3>1 DEF Flattens
    <3>2. CASE i # 1
      <4>1. i \in 2 .. Len(s)
        BY <1>1, <3>2
      <4> QED BY <1>2, <3>2, <4>1 DEF Flattens
    <3> QED BY <3>1, <3>2
  <2> QED BY <2>1
<1>4. F = E(F)
  BY <1>3
<1>5. FlattenSeq(s) = F[Len(s)]
  BY <1>1 DEF FlattenSeq
<1> HIDE DEF F
<1>6. F \in [1 .. Len(s) -> Seq(S)] /\ Flattens(F, s, Len(s))
  <2>1. DOMAIN F = 1 .. Len(s)
    BY <1>4
  <2>2. F = [i \in 1 .. Len(s) |-> F[i]]
    BY <1>4
  <2>3. \A i \in 1 .. Len(s) : F[i] = IF i = 1 THEN s[i] ELSE F[i - 1] \o s[i]
    BY <1>4
  <2>4. Flattens(F, s, Len(s))
    <3>1. F[1] = s[1]
      BY <2>3, <1>1
    <3>2. \A i \in 2 .. Len(s) : i \in 1 .. Len(s) /\ i # 1
      BY <1>1
    <3> QED BY <3>1, <3>2, <2>3 DEF Flattens
  <2> DEFINE Wrong == {i \in 1 .. Len(s) : F[i] \notin Seq(S)}
  <2>5. Wrong = {}
    <3> SUFFICES ASSUME Wrong # {} PROVE FALSE
      OBVIOUS
    <3>1. Wrong \in SUBSET (1 .. Len(s))
      OBVIOUS
    <3>2. PICK i \in Wrong : \A k \in Wrong : i <= k
      BY <1>1, <3>1, SmallestElement
    <3>3. i \in 1 .. Len(s) /\ F[i] \notin Seq(S) /\ s[i] \in Seq(S)
      BY ElementOfSeq
    <3>4. i # 1
      BY <2>3, <3>3
    <3>5. i - 1 \in 1 .. Len(s) /\ ~ (i <= i - 1)
      BY <3>3, <3>4, <1>1
    <3>6. F[i - 1] \in Seq(S)
      BY <3>2, <3>5
    <3>7. F[i] = F[i - 1] \o s[i]
      BY <2>3, <3>3, <3>4
    <3> QED BY <3>3, <3>6, <3>7, ConcatProperties
  <2> QED BY <2>2, <2>4, <2>5
<1> QED BY <1>5, <1>6

\* Three sequences in a row.
LEMMA ThreeSequences ==
  ASSUME NEW S, NEW a \in Seq(S), NEW b \in Seq(S), NEW c \in Seq(S)
  PROVE  /\ a \o b \in Seq(S)
         /\ (a \o b) \o c = a \o (b \o c)
BY ConcatAssociative, ConcatProperties

\* Flattening starts with the first of the sequences.
LEMMA FlattenCons ==
  ASSUME NEW S, NEW s \in Seq(Seq(S)), s # <<>>
  PROVE  FlattenSeq(s) = Head(s) \o FlattenSeq(Tail(s))
<1> DEFINE n == Len(s)
           r == Tail(s)
<1>1. n \in Nat \ {0}
  BY EmptySeq
<1>2. /\ Head(s) = s[1] /\ s[1] \in Seq(S)
      /\ r \in Seq(Seq(S))
      /\ Len(r) = n - 1
      /\ \A i \in 1 .. n - 1 : r[i] = s[i + 1]
  BY <1>1, HeadTailProperties, ElementOfSeq
<1>3. \A i \in 1 .. n : s[i] \in Seq(S)
  BY ElementOfSeq
<1>4. PICK f \in [1 .. n -> Seq(S)] : Flattens(f, s, n) /\ FlattenSeq(s) = f[n]
  BY <1>1, FlattenDef
<1> HIDE DEF n, r
<1>5. CASE n = 1
  <2>1. FlattenSeq(s) = s[1]
    BY <1>4, <1>5 DEF Flattens
  <2>2. r = <<>>
    BY <1>2, <1>5, EmptySeq
  <2>3. FlattenSeq(r) = <<>>
    BY <2>2 DEF FlattenSeq
  <2> QED BY <1>2, <2>1, <2>3, ConcatEmptySeq DEF r
<1>6. CASE n # 1
  <2>1. PICK h \in [1 .. n - 1 -> Seq(S)] : Flattens(h, r, n - 1) /\ FlattenSeq(r) = h[n - 1]
    <3>1. Len(r) # 0
      BY <1>1, <1>2, <1>6
    <3>2. \E h \in [1 .. Len(r) -> Seq(S)] : Flattens(h, r, Len(r)) /\ FlattenSeq(r) = h[Len(r)]
      BY <1>2, <3>1, FlattenDef
    <3> QED BY <1>2, <3>2
  <2> DEFINE Wrong == {i \in 1 .. n - 1 : f[i + 1] # s[1] \o h[i]}
  <2>2. Wrong = {}
    <3> SUFFICES ASSUME Wrong # {} PROVE FALSE
      OBVIOUS
    <3>1. n - 1 \in Nat /\ Wrong \in SUBSET (1 .. n - 1)
      BY <1>1
    <3>2. PICK i \in Wrong : \A k \in Wrong : i <= k
      BY <3>1, SmallestElement
    <3>3. i \in 1 .. n - 1 /\ f[i + 1] # s[1] \o h[i]
      OBVIOUS
    <3>4. i + 1 \in 2 .. n /\ i + 1 - 1 = i
      BY <3>3, <1>1
    <3>5. f[i + 1] = f[i] \o s[i + 1]
      <4>1. \A j \in 2 .. n : f[j] = f[j - 1] \o s[j]
        BY <1>4 DEF Flattens
      <4>2. PICK j \in 2 .. n : j = i + 1 /\ j - 1 = i
        BY <3>4
      <4>3. f[j] = f[j - 1] \o s[j]
        BY <4>1
      <4> QED BY <4>2, <4>3
    <3>6. CASE i = 1
      <4>1. h[1] = r[1] /\ f[1] = s[1]
        BY <2>1, <1>4 DEF Flattens
      <4>2. r[i] = s[i + 1]
        BY <1>2, <3>3
      <4>3. f[i] = s[1] /\ h[i] = s[i + 1]
        BY <4>1, <4>2, <3>6
      <4> QED BY <4>3, <3>3, <3>5
    <3>7. CASE i # 1
      <4>1. i - 1 \in 1 .. n - 1 /\ ~ (i <= i - 1) /\ i \in 2 .. n - 1 /\ (i - 1) + 1 = i /\ i + 1 \in 1 .. n
        BY <3>3, <3>7, <1>1
      <4>2. f[i] = s[1] \o h[i - 1]
        BY <3>2, <4>1
      <4>3. h[i] = h[i - 1] \o s[i + 1]
        <5>1. h[i] = h[i - 1] \o r[i]
          BY <2>1, <4>1 DEF Flattens
        <5> QED BY <5>1, <1>2, <3>3
      <4>4. (s[1] \o h[i - 1]) \o s[i + 1] = s[1] \o (h[i - 1] \o s[i + 1])
        <5>1. s[1] \in Seq(S) /\ h[i - 1] \in Seq(S) /\ s[i + 1] \in Seq(S)
          BY <1>2, <1>3, <4>1
        <5> DEFINE a == s[1]
                   b == h[i - 1]
                   c == s[i + 1]
        <5> HIDE DEF a, b, c, Wrong
        <5>2. a \in Seq(S) /\ b \in Seq(S) /\ c \in Seq(S)
          BY <5>1 DEF a, b, c
        <5>3. (a \o b) \o c = a \o (b \o c)
          BY ONLY <5>2, ThreeSequences
        <5> QED BY <5>3 DEF a, b, c
      <4> QED BY <3>3, <3>5, <4>2, <4>3, <4>4
    <3> QED BY <3>6, <3>7
  <2>3. n - 1 \in 1 .. n - 1 /\ (n - 1) + 1 = n
    BY <1>1, <1>6
  <2>4. f[n] = s[1] \o h[n - 1]
    <3>1. n - 1 \notin Wrong
      BY <2>2
    <3> QED BY <2>3, <3>1
  <2> QED BY <1>2, <1>4, <2>1, <2>4 DEF r
<1> QED BY <1>5, <1>6

\* What is flattened is a sequence.
LEMMA FlattenType ==
  ASSUME NEW S, NEW s \in Seq(Seq(S))
  PROVE  FlattenSeq(s) \in Seq(S) /\ (s = <<>> => FlattenSeq(s) = <<>>)
<1>1. CASE Len(s) = 0
  <2>1. s = <<>>
    BY <1>1, EmptySeq
  <2> QED BY <2>1, EmptySeq DEF FlattenSeq
<1>2. CASE Len(s) # 0
  <2>1. Len(s) \in 1 .. Len(s)
    BY <1>2, LenProperties
  <2> QED BY <1>2, <2>1, FlattenDef, EmptySeq
<1> QED BY <1>1, <1>2

\* What is flattened from the n-th sequence on.
LEMMA FlattenSuffix ==
  ASSUME NEW S, NEW s \in Seq(Seq(S)), NEW n \in 1 .. Len(s)
  PROVE  FlattenSeq(SubSeq(s, n, Len(s))) = s[n] \o FlattenSeq(SubSeq(s, n + 1, Len(s)))
<1> DEFINE r == SubSeq(s, n, Len(s))
<1>1. Len(s) \in Nat /\ n \in Int /\ Len(s) \in n .. Len(s)
  BY LenProperties
<1>2. \A i \in n .. Len(s) : s[i] \in Seq(S)
  BY <1>1, ElementOfSeq
<1>3. r \in Seq(Seq(S)) /\ Len(r) = Len(s) - n + 1
  BY <1>1, <1>2, SubSeqProperties
<1>4. r # <<>>
  <2>1. Len(r) # 0
    BY <1>1, <1>3
  <2> QED BY <2>1, EmptySeq
<1>5. Head(r) = s[n] /\ Tail(r) = SubSeq(s, n + 1, Len(s))
  BY <1>1, HeadTailOfSubSeq
<1> HIDE DEF r
<1>6. FlattenSeq(r) = Head(r) \o FlattenSeq(Tail(r))
  BY <1>3, <1>4, FlattenCons
<1> QED BY <1>5, <1>6 DEF r

\* And it is a sequence; from behind the last one it is empty.
LEMMA FlattenSuffixType ==
  ASSUME NEW S, NEW s \in Seq(Seq(S)), NEW n \in 1 .. Len(s) + 1
  PROVE  /\ FlattenSeq(SubSeq(s, n, Len(s))) \in Seq(S)
         /\ n = Len(s) + 1 => FlattenSeq(SubSeq(s, n, Len(s))) = <<>>
         /\ n = 1 => FlattenSeq(SubSeq(s, n, Len(s))) = FlattenSeq(s)
<1> DEFINE r == SubSeq(s, n, Len(s))
<1>1. Len(s) \in Nat /\ n \in Int /\ Len(s) \in Int
  BY LenProperties
<1>2. \A i \in n .. Len(s) : s[i] \in Seq(S)
  BY <1>1, ElementOfSeq
<1>3. r \in Seq(Seq(S))
  BY <1>1, <1>2, SubSeqProperties
<1>4. n = Len(s) + 1 => r = <<>>
  BY <1>1, SubSeqEmpty
<1>5. n = 1 => r = s
  BY SubSeqFull
<1> HIDE DEF r
<1>6. FlattenSeq(r) \in Seq(S) /\ (r = <<>> => FlattenSeq(r) = <<>>)
  BY <1>3, FlattenType
<1> QED BY <1>4, <1>5, <1>6 DEF r

\* A sequence of two elements.
LEMMA TwoElements ==
  ASSUME NEW S, NEW a \in S, NEW b \in S
  PROVE  Append(<<a>>, b) = <<a, b>>
<1> DEFINE x == Append(<<a>>, b)
           y == <<a, b>>
<1>1. y \in Seq(S) /\ <<a>> \in Seq(S) /\ Len(y) = 2
  OBVIOUS
<1>2. /\ x \in Seq(S) /\ Len(x) = 2
      /\ \A i \in 1 .. 2 : x[i] = y[i]
  BY <1>1, AppendProperties
<1> HIDE DEF x, y
<1> QED BY <1>1, <1>2, SeqEqual DEF x, y

\* A sequence with one element, or two, in front of it.
LEMMA InFront ==
  ASSUME NEW S, NEW s \in Seq(S), NEW a \in S, NEW b \in S
  PROVE  /\ <<a>> \o s \in Seq(S)
         /\ <<a>> \o s # <<>>
         /\ Head(<<a>> \o s) = a
         /\ Tail(<<a>> \o s) = s
         /\ <<a, b>> \o s = <<a>> \o (<<b>> \o s)
<1>1. <<a>> \in Seq(S) /\ <<b>> \in Seq(S) /\ <<a>> # <<>> /\ Tail(<<a>>) = <<>> /\ Head(<<a>>) = a
  OBVIOUS
<1>2. /\ <<a>> \o s \in Seq(S)
      /\ <<a>> \o s # <<>>
      /\ Head(<<a>> \o s) = a
      /\ Tail(<<a>> \o s) = <<>> \o s
  BY <1>1, TailOfConcat
<1>3. <<>> \o s = s
  BY ConcatEmptySeq
<1>4. <<a>> \o <<b>> = <<a, b>>
  <2>1. Append(<<a>>, b) = <<a, b>>
    BY TwoElements
  <2> QED BY <1>1, <2>1, AppendIsConcat
<1>5. (<<a>> \o <<b>>) \o s = <<a>> \o (<<b>> \o s)
  BY <1>1, ThreeSequences
<1> QED BY <1>2, <1>3, <1>4, <1>5

\* The parser never has more than two names on its stack of tokens.
LEMMA Tokens ==
  ASSUME NEW a, NEW b
  PROVE  /\ Append(<<>>, a) = <<a>> /\ Append(<<a>>, b) = <<a, b>>
         /\ Last(<<a>>) = a /\ Front(<<a>>) = <<>>
         /\ Last(<<a, b>>) = b /\ Front(<<a, b>>) = <<a>>
<1> DEFINE S == {a, b}
<1>1. /\ Append(<<>>, a) = <<a>>
      /\ Len(<<a>>) = 1 /\ <<a>>[1] = a /\ <<a>> \in Seq(S)
      /\ Len(<<a, b>>) = 2 /\ <<a, b>>[1] = a /\ <<a, b>>[2] = b
  OBVIOUS
<1>2. a \in S /\ b \in S /\ <<a, b>> \in Seq(S)
  OBVIOUS
<1> HIDE DEF S
<1>3. Append(<<a>>, b) = <<a, b>>
  BY <1>2, TwoElements
<1>4. SubSeq(<<a>>, 1, 0) = <<>>
  BY SubSeqEmpty
<1>5. SubSeq(<<a, b>>, 1, 1) = <<a>>
  <2>1. 1 \in 1 .. Len(<<a, b>>) /\ 1 \in 1 .. Len(<<a, b>>)
    BY <1>1
  <2>2. SubSeq(<<a, b>>, 1, 1) = SubSeq(<<a, b>>, 1, 0) \o <<<<a, b>>[1]>>
    BY <1>1, <1>2, <2>1, SubSeqRecursiveSecond
  <2>3. SubSeq(<<a, b>>, 1, 0) = <<>>
    BY SubSeqEmpty
  <2>4. <<>> \o <<a>> = <<a>>
    BY <1>1, ConcatEmptySeq
  <2> QED BY <1>1, <2>2, <2>3, <2>4
<1> QED BY <1>1, <1>3, <1>4, <1>5 DEF Last, Front

ASeq(s) == s \in Seq({s[i] : i \in DOMAIN s})

\* Every sequence is one of its own elements.
LEMMA ASeqOf ==
  ASSUME NEW S, NEW s \in Seq(S)
  PROVE  ASeq(s)
<1>1. Len(s) \in Nat /\ DOMAIN s = 1 .. Len(s) /\ s \in [1 .. Len(s) -> S]
  BY LenProperties
<1> DEFINE T == {s[i] : i \in DOMAIN s}
<1>2. \A i \in 1 .. Len(s) : s[i] \in T
  BY <1>1
<1>3. s = [i \in 1 .. Len(s) |-> s[i]]
  BY <1>1
<1>4. s \in [1 .. Len(s) -> T]
  BY <1>2, <1>3
<1>5. Seq(T) = UNION {[1 .. n -> T] : n \in Nat}
  BY SeqDef
<1> QED BY <1>1, <1>4, <1>5 DEF ASeq

\* Pushing.
LEMMA Push ==
  ASSUME NEW s, ASeq(s), NEW e
  PROVE  /\ ASeq(Append(s, e))
         /\ Len(s) \in Nat /\ Len(Append(s, e)) = Len(s) + 1
         /\ \A i \in 1 .. Len(s) : Append(s, e)[i] = s[i]
         /\ Append(s, e)[Len(s) + 1] = e
<1> DEFINE S == {s[i] : i \in DOMAIN s} \cup {e}
<1>1. s \in Seq({s[i] : i \in DOMAIN s})
  BY DEF ASeq
<1>2. s \in Seq(S) /\ e \in S
  BY <1>1, SeqMonotonic
<1> HIDE DEF S
<1>3. /\ Append(s, e) \in Seq(S)
      /\ Len(Append(s, e)) = Len(s) + 1
      /\ \A i \in 1 .. Len(s) : Append(s, e)[i] = s[i]
      /\ Append(s, e)[Len(s) + 1] = e
  BY <1>2, AppendProperties
<1>4. Len(s) \in Nat
  BY <1>2, LenProperties
<1>5. ASeq(Append(s, e))
  BY <1>3, ASeqOf
<1> QED BY <1>3, <1>4, <1>5

\* Popping.
LEMMA Pop ==
  ASSUME NEW s, ASeq(s), s # <<>>
  PROVE  /\ ASeq(Front(s))
         /\ Len(s) \in Nat \ {0} /\ Len(Front(s)) = Len(s) - 1
         /\ \A i \in 1 .. Len(s) - 1 : Front(s)[i] = s[i]
         /\ Last(s) = s[Len(s)]
<1> DEFINE S == {s[i] : i \in DOMAIN s}
           n == Len(s) - 1
<1>1. s \in Seq(S)
  BY DEF ASeq
<1> HIDE DEF S
<1>2. Len(s) \in Nat \ {0}
  BY <1>1, EmptySeq
<1>3. 1 \in Int /\ n \in Int /\ \A i \in 1 .. n : s[i] \in S
  BY <1>1, <1>2, ElementOfSeq
<1> HIDE DEF n
<1>4. /\ SubSeq(s, 1, n) \in Seq(S)
      /\ Len(SubSeq(s, 1, n)) = IF 1 <= n THEN n - 1 + 1 ELSE 0
      /\ \A i \in 1 .. n - 1 + 1 : SubSeq(s, 1, n)[i] = s[1 + i - 1]
  BY <1>3, SubSeqProperties
<1>5. \A i \in 1 .. n : i \in 1 .. n - 1 + 1 /\ 1 + i - 1 = i
  BY <1>3
<1>6. \A i \in 1 .. n : SubSeq(s, 1, n)[i] = s[i]
  BY <1>4, <1>5
<1>7. n \in Nat
  BY <1>2 DEF n
<1>8. Len(SubSeq(s, 1, n)) = n
  BY <1>4, <1>7
<1>9. ASeq(SubSeq(s, 1, n))
  BY <1>4, ASeqOf
<1> QED BY <1>2, <1>6, <1>8, <1>9 DEF n, Front, Last

-----------------------------------------------------------------------------
(* The definitions of one kind in a text.                                  *)

Selects(f, w, m, kind) ==
  /\ f[0] = <<>>
  /\ \A i \in 1 .. m : f[i] = IF w[i].kind = kind THEN Append(f[i - 1], w[i]) ELSE f[i - 1]

\* The recursive function that selects exists.
LEMMA SelectExists ==
  ASSUME NEW S, NEW w \in Seq(S), NEW kind
  PROVE  \A m \in 0 .. Len(w) : \E f \in [0 .. m -> Seq(S)] : Selects(f, w, m, kind)
<1> DEFINE n == Len(w)
           Has(m) == \E f \in [0 .. m -> Seq(S)] : Selects(f, w, m, kind)
           Wrong == {m \in 1 .. n : ~ Has(m)}
<1>1. n \in Nat /\ \A i \in 1 .. n : w[i] \in S
  BY LenProperties, ElementOfSeq
<1> HIDE DEF n
<1>2. Has(0)
  <2> DEFINE g == [i \in 0 .. 0 |-> <<>>]
  <2>1. g \in [0 .. 0 -> Seq(S)]
    BY EmptySeq
  <2>2. Selects(g, w, 0, kind)
    BY DEF Selects
  <2> QED BY <2>1, <2>2
<1>3. ASSUME NEW m \in 1 .. n, Has(m - 1) PROVE Has(m)
  <2>1. PICK f \in [0 .. m - 1 -> Seq(S)] : Selects(f, w, m - 1, kind)
    BY <1>3
  <2> DEFINE last == IF w[m].kind = kind THEN Append(f[m - 1], w[m]) ELSE f[m - 1]
             g == [i \in 0 .. m |-> IF i = m THEN last ELSE f[i]]
  <2>2. m - 1 \in 0 .. m - 1 /\ m \in 0 .. m /\ \A i \in 0 .. m - 1 : i \in 0 .. m /\ i # m
    BY <1>1
  <2>3. last \in Seq(S)
    <3>1. f[m - 1] \in Seq(S) /\ w[m] \in S
      BY <1>1, <2>2
    <3> QED BY <3>1, AppendProperties
  <2> HIDE DEF last
  <2>4. g \in [0 .. m -> Seq(S)]
    BY <2>3, <1>1
  <2>5. g[m] = last /\ \A i \in 0 .. m - 1 : g[i] = f[i]
    BY <2>2
  <2> HIDE DEF g
  <2>6. \A i \in 1 .. m : g[i] = IF w[i].kind = kind THEN Append(g[i - 1], w[i]) ELSE g[i - 1]
    <3> TAKE i \in 1 .. m
    <3>1. CASE i = m
      BY <2>2, <2>5, <3>1 DEF last
    <3>2. CASE i # m
      <4>1. i \in 1 .. m - 1 /\ i \in 0 .. m - 1 /\ i - 1 \in 0 .. m - 1
        BY <3>2, <1>1
      <4>2. f[i] = IF w[i].kind = kind THEN Append(f[i - 1], w[i]) ELSE f[i - 1]
        BY <2>1, <4>1 DEF Selects
      <4> QED BY <4>1, <4>2, <2>5
    <3> QED BY <3>1, <3>2
  <2>7. g[0] = <<>>
    <3>1. 0 \in 0 .. m - 1
      BY <1>1
    <3> QED BY <3>1, <2>5, <2>1 DEF Selects
  <2>8. Selects(g, w, m, kind)
    BY <2>6, <2>7 DEF Selects
  <2> QED BY <2>4, <2>8
<1> HIDE DEF Has
<1>4. Wrong = {}
  <2> SUFFICES ASSUME Wrong # {} PROVE FALSE
    OBVIOUS
  <2>1. Wrong \in SUBSET (1 .. n)
    OBVIOUS
  <2>2. PICK m \in Wrong : \A k \in Wrong : m <= k
    BY <1>1, <2>1, SmallestElement
  <2>3. m \in 1 .. n /\ ~ Has(m)
    OBVIOUS
  <2>4. CASE m = 1
    BY <1>2, <1>3, <2>3, <2>4
  <2>5. CASE m # 1
    <3>1. m - 1 \in 1 .. n /\ ~ (m <= m - 1)
      BY <2>3, <2>5, <1>1
    <3>2. Has(m - 1)
      BY <2>2, <3>1
    <3> QED BY <1>3, <2>3, <3>2
  <2> QED BY <2>4, <2>5
<1>5. \A m \in 0 .. n : m = 0 \/ m \in 1 .. n
  BY <1>1
<1> QED BY <1>2, <1>4, <1>5 DEF Has, n

\* And it is what OfKind takes the last value of.
LEMMA SelectDef ==
  ASSUME NEW S, NEW w \in Seq(S), NEW kind
  PROVE  \E f \in [0 .. Len(w) -> Seq(S)] :
           Selects(f, w, Len(w), kind) /\ OfKind(w, kind) = f[Len(w)]
<1>1. Len(w) \in Nat /\ Len(w) \in 0 .. Len(w)
  BY LenProperties
<1>2. PICK f \in [0 .. Len(w) -> Seq(S)] : Selects(f, w, Len(w), kind)
  BY <1>1, SelectExists
<1> DEFINE E(g) == [i \in 0 .. Len(w) |->
                      IF i = 0 THEN <<>>
                      ELSE IF w[i].kind = kind THEN Append(g[i - 1], w[i]) ELSE g[i - 1]]
           F == CHOOSE g : g = E(g)
<1>3. f = E(f)
  <2>1. \A i \in 0 .. Len(w) : f[i] = E(f)[i]
    <3> TAKE i \in 0 .. Len(w)
    <3>1. CASE i = 0
      BY <1>2, <3>1 DEF Selects
    <3>2. CASE i # 0
      <4>1. i \in 1 .. Len(w)
        BY <1>1, <3>2
      <4> QED BY <1>2, <3>2, <4>1 DEF Selects
    <3> QED BY <3>1, <3>2
  <2> QED BY <2>1
<1>4. F = E(F)
  BY <1>3
<1>5. OfKind(w, kind) = F[Len(w)]
  BY DEF OfKind
<1> HIDE DEF F
<1>6. \A i \in 0 .. Len(w) : F[i] = f[i]
  <2> DEFINE Wrong == {i \in 1 .. Len(w) : F[i] # f[i]}
  <2>1. \A i \in 0 .. Len(w) :
          F[i] = IF i = 0 THEN <<>>
                 ELSE IF w[i].kind = kind THEN Append(F[i - 1], w[i]) ELSE F[i - 1]
    BY <1>4
  <2>2. F[0] = f[0]
    BY <2>1, <1>1, <1>2 DEF Selects
  <2>3. Wrong = {}
    <3> SUFFICES ASSUME Wrong # {} PROVE FALSE
      OBVIOUS
    <3>1. Wrong \in SUBSET (1 .. Len(w))
      OBVIOUS
    <3>2. PICK i \in Wrong : \A k \in Wrong : i <= k
      BY <1>1, <3>1, SmallestElement
    <3>3. i \in 1 .. Len(w) /\ F[i] # f[i]
      OBVIOUS
    <3>4. ~ (i <= i - 1) /\ (i - 1 = 0 \/ i - 1 \in 1 .. Len(w)) /\ i \in 0 .. Len(w) /\ i # 0
      BY <3>3, <1>1
    <3>5. F[i - 1] = f[i - 1]
      BY <3>2, <3>4, <2>2
    <3>6. f[i] = IF w[i].kind = kind THEN Append(f[i - 1], w[i]) ELSE f[i - 1]
      BY <1>2, <3>3 DEF Selects
    <3> QED BY <2>1, <3>3, <3>4, <3>5, <3>6
  <2>4. \A i \in 0 .. Len(w) : i = 0 \/ i \in 1 .. Len(w)
    BY <1>1
  <2> QED BY <2>2, <2>3, <2>4
<1> QED BY <1>1, <1>2, <1>5, <1>6

\* The definitions of a kind among the first n of a text.
Sel(w, n, kind) == OfKind(SubSeq(w, 1, n), kind)

\* One definition more is at the end of those of its kind.
LEMMA SelNext ==
  ASSUME NEW S, NEW w \in Seq(S), NEW kind
  PROVE  /\ Sel(w, 0, kind) = <<>>
         /\ \A n \in 0 .. Len(w) : Sel(w, n, kind) \in Seq(S)
         /\ \A n \in 1 .. Len(w) :
              Sel(w, n, kind) = IF w[n].kind = kind THEN Append(Sel(w, n - 1, kind), w[n])
                                ELSE Sel(w, n - 1, kind)
<1>1. Len(w) \in Nat /\ \A i \in 1 .. Len(w) : w[i] \in S
  BY LenProperties, ElementOfSeq
<1>2. ASSUME NEW n \in 0 .. Len(w)
      PROVE  /\ SubSeq(w, 1, n) \in Seq(S)
             /\ Len(SubSeq(w, 1, n)) = n
             /\ \A i \in 1 .. n : SubSeq(w, 1, n)[i] = w[i]
  <2>1. 1 \in Int /\ n \in Int /\ \A i \in 1 .. n : w[i] \in S
    BY <1>1
  <2>2. /\ SubSeq(w, 1, n) \in Seq(S)
        /\ Len(SubSeq(w, 1, n)) = IF 1 <= n THEN n - 1 + 1 ELSE 0
        /\ \A i \in 1 .. n - 1 + 1 : SubSeq(w, 1, n)[i] = w[1 + i - 1]
    BY <2>1, SubSeqProperties
  <2>3. \A i \in 1 .. n : i \in 1 .. n - 1 + 1 /\ 1 + i - 1 = i
    BY <2>1
  <2>4. \A i \in 1 .. n : SubSeq(w, 1, n)[i] = w[i]
    BY <2>2, <2>3
  <2> QED BY <1>1, <2>2, <2>4
<1>3. \A n \in 0 .. Len(w) : \E f \in [0 .. n -> Seq(S)] :
        Selects(f, w, n, kind) /\ Sel(w, n, kind) = f[n]
  <2> TAKE n \in 0 .. Len(w)
  <2> DEFINE s == SubSeq(w, 1, n)
  <2>1. s \in Seq(S) /\ Len(s) = n /\ \A i \in 1 .. n : s[i] = w[i]
    BY <1>2
  <2>2. Sel(w, n, kind) = OfKind(s, kind)
    BY DEF Sel
  <2> HIDE DEF s
  <2>3. \E f \in [0 .. Len(s) -> Seq(S)] :
          Selects(f, s, Len(s), kind) /\ OfKind(s, kind) = f[Len(s)]
    BY <2>1, SelectDef
  <2>4. \A f : Selects(f, s, n, kind) => Selects(f, w, n, kind)
    BY <2>1 DEF Selects
  <2> QED BY <2>1, <2>2, <2>3, <2>4
<1>4. Sel(w, 0, kind) = <<>>
  <2>1. 0 \in 0 .. Len(w)
    BY <1>1
  <2> QED BY <2>1, <1>3 DEF Selects
<1>5. \A n \in 0 .. Len(w) : Sel(w, n, kind) \in Seq(S)
  <2> TAKE n \in 0 .. Len(w)
  <2>1. PICK f \in [0 .. n -> Seq(S)] : Sel(w, n, kind) = f[n]
    BY <1>3
  <2>2. n \in 0 .. n
    BY <1>1
  <2> QED BY <2>1, <2>2
<1>6. ASSUME NEW n \in 1 .. Len(w)
      PROVE  Sel(w, n, kind) = IF w[n].kind = kind THEN Append(Sel(w, n - 1, kind), w[n])
                                ELSE Sel(w, n - 1, kind)
  <2>1. n \in 0 .. Len(w) /\ n - 1 \in 0 .. Len(w) /\ n \in 1 .. n
    BY <1>1
  <2>2. PICK f \in [0 .. n -> Seq(S)] : Selects(f, w, n, kind) /\ Sel(w, n, kind) = f[n]
    BY <1>3, <2>1
  <2>3. PICK g \in [0 .. n - 1 -> Seq(S)] :
          Selects(g, w, n - 1, kind) /\ Sel(w, n - 1, kind) = g[n - 1]
    BY <1>3, <2>1
  <2> DEFINE Wrong == {i \in 1 .. n - 1 : f[i] # g[i]}
  <2>4. f[0] = g[0]
    BY <2>2, <2>3 DEF Selects
  <2>5. Wrong = {}
    <3> SUFFICES ASSUME Wrong # {} PROVE FALSE
      OBVIOUS
    <3>1. Wrong \in SUBSET (1 .. n - 1) /\ n - 1 \in Nat
      BY <2>1
    <3>2. PICK i \in Wrong : \A k \in Wrong : i <= k
      BY <3>1, SmallestElement
    <3>3. i \in 1 .. n - 1 /\ i \in 1 .. n /\ f[i] # g[i]
      BY <2>1
    <3>4. ~ (i <= i - 1) /\ (i - 1 = 0 \/ i - 1 \in 1 .. n - 1)
      BY <3>3, <1>1
    <3>5. f[i - 1] = g[i - 1]
      BY <3>2, <3>4, <2>4
    <3>6. f[i] = IF w[i].kind = kind THEN Append(f[i - 1], w[i]) ELSE f[i - 1]
      BY <2>2, <3>3 DEF Selects
    <3>7. g[i] = IF w[i].kind = kind THEN Append(g[i - 1], w[i]) ELSE g[i - 1]
      BY <2>3, <3>3 DEF Selects
    <3> QED BY <3>3, <3>5, <3>6, <3>7
  <2>6. f[n - 1] = g[n - 1]
    <3>1. n - 1 = 0 \/ n - 1 \in 1 .. n - 1
      BY <1>1
    <3> QED BY <3>1, <2>4, <2>5
  <2>7. f[n] = IF w[n].kind = kind THEN Append(f[n - 1], w[n]) ELSE f[n - 1]
    BY <2>2, <2>1 DEF Selects
  <2> QED BY <2>2, <2>3, <2>6, <2>7
<1> QED BY <1>4, <1>5, <1>6

-----------------------------------------------------------------------------
(* The nodes of a text, from each of the positions of the parser on: w is  *)
(* the text, d a definition of it, b one of its two blocks of fields, f a  *)
(* field of the block and n a node of the type of the field.               *)

AllNodes ==
  [rule : {"module", "name", "namespace", "message", "list", "map", "field", "messageDefinition",
           "requestFields", "requestDefinition"} \cup SimpleTypes,
   text : STRING \cup {""}]

DefinitionSeq(w) == [i \in DOMAIN w |-> DefinitionNodes(w[i])]

FieldSeq(list) ==
  [i \in DOMAIN list |-> list[i].type \o <<Name(list[i].name), Rule("field")>>]

Block(w, d, b) == IF b = 1 THEN w[d].fields ELSE w[d].response

DefinitionsLeft(w, d) == FlattenSeq(SubSeq(DefinitionSeq(w), d + 1, Len(w)))

BlockLeft(list, f) == FlattenSeq(SubSeq(FieldSeq(list), f + 1, Len(list)))

\* What follows the fields of a block.
After(w, d, b) ==
  IF w[d].kind = "message" THEN <<Rule("messageDefinition")>> \o DefinitionsLeft(w, d)
  ELSE IF b = 1
  THEN <<Rule("requestFields")>>
         \o (BlockLeft(w[d].response, 0) \o (<<Rule("requestDefinition")>> \o DefinitionsLeft(w, d)))
  ELSE <<Rule("requestDefinition")>> \o DefinitionsLeft(w, d)

FieldsLeft(w, d, b, f) == BlockLeft(Block(w, d, b), f) \o After(w, d, b)

\* What follows the type of a field.
FieldEnd(w, d, b, f) ==
  <<Name(Block(w, d, b)[f].name)>> \o (<<Rule("field")>> \o FieldsLeft(w, d, b, f))

TypeLeft(w, d, b, f, n) ==
  LET t == Block(w, d, b)[f].type IN SubSeq(t, n + 1, Len(t)) \o FieldEnd(w, d, b, f)

\* Nodes are nodes.
LEMMA NodeTypes ==
  /\ \A x \in STRING : Name(x) \in AllNodes
  /\ Node("module", Namespace) \in AllNodes
  /\ \A r \in {"namespace", "field", "messageDefinition", "requestFields", "requestDefinition"} :
       Rule(r) \in AllNodes
  /\ TypeNodes \subseteq AllNodes
<1>1. Namespace \in STRING
  BY TextsAssumption
<1>3. Node("module", Namespace) \in AllNodes
  BY <1>1 DEF Node, AllNodes
<1>4. \A x \in STRING : Name(x) \in AllNodes
  BY DEF Name, Node, AllNodes
<1>5. \A r \in {"namespace", "field", "messageDefinition", "requestFields", "requestDefinition"} :
        Rule(r) \in AllNodes
  BY DEF Rule, Node, AllNodes
<1>6. TypeNodes \subseteq AllNodes
  BY DEF TypeNodes, AllNodes, SimpleTypes, NumberTypes
<1> QED BY <1>3, <1>4, <1>5, <1>6

\* A type is a sequence of nodes.
LEMMA TypeIsNodes ==
  ASSUME NEW t \in Types
  PROVE  /\ t \in Seq(TypeNodes) /\ t \in Seq(AllNodes)
         /\ Len(t) \in Nat \ {0} /\ DOMAIN t = 1 .. Len(t)
         /\ \A i \in 1 .. Len(t) : t[i] \in TypeNodes
<1>1. t \in Seq(TypeNodes) /\ t # <<>>
  BY DEF Types
<1>2. t \in Seq(AllNodes)
  BY <1>1, NodeTypes, SeqMonotonic
<1> QED BY <1>1, <1>2, LenProperties, EmptySeq, ElementOfSeq

\* What is written of a field and of a definition.
LEMMA FieldWritten ==
  ASSUME NEW list \in FieldLists
  PROVE  /\ Len(list) \in Nat /\ DOMAIN list = 1 .. Len(list)
         /\ \A f \in 1 .. Len(list) : list[f].type \in Types /\ list[f].name \in STRING
<1>1. list \in Seq([type : Types, name : STRING])
  BY DEF FieldLists
<1>2. \A f \in 1 .. Len(list) : list[f] \in [type : Types, name : STRING]
  BY <1>1, ElementOfSeq
<1> QED BY <1>1, <1>2, LenProperties

\* What a definition of a text is made of.
LEMMA DefinitionWritten ==
  ASSUME NEW w \in Seq(Definitions)
  PROVE  /\ Len(w) \in Nat /\ DOMAIN w = 1 .. Len(w)
         /\ \A d \in 1 .. Len(w) :
              /\ w[d].name \in STRING
              /\ w[d].kind \in {"message", "request"}
              /\ w[d].kind = "message" => w[d].response = <<>>
              /\ w[d].fields \in FieldLists /\ w[d].response \in FieldLists
              /\ \A b \in {1, 2} : Block(w, d, b) \in FieldLists
<1>1. \A d \in 1 .. Len(w) : w[d] \in Definitions
  BY ElementOfSeq
<1>2. <<>> \in FieldLists
  BY DEF FieldLists
<1>3. ASSUME NEW d \in 1 .. Len(w)
      PROVE  /\ w[d].name \in STRING
             /\ w[d].kind \in {"message", "request"}
             /\ w[d].kind = "message" => w[d].response = <<>>
             /\ w[d].fields \in FieldLists /\ w[d].response \in FieldLists
  BY <1>1, <1>2 DEF Definitions
<1>4. ASSUME NEW d \in 1 .. Len(w), NEW b \in {1, 2} PROVE Block(w, d, b) \in FieldLists
  BY <1>3 DEF Block
<1> QED BY <1>3, <1>4, LenProperties

\* The fields of a block, from each field on.
LEMMA BlockLeftNodes ==
  ASSUME NEW list \in FieldLists
  PROVE  /\ \A f \in 0 .. Len(list) : BlockLeft(list, f) \in Seq(AllNodes)
         /\ BlockLeft(list, Len(list)) = <<>>
         /\ BlockLeft(list, 0) = FieldNodes(list)
         /\ \A f \in 1 .. Len(list) :
              BlockLeft(list, f - 1)
                = (list[f].type \o <<Name(list[f].name), Rule("field")>>) \o BlockLeft(list, f)
<1> DEFINE s == FieldSeq(list)
<1>1. /\ Len(list) \in Nat /\ DOMAIN list = 1 .. Len(list)
      /\ \A f \in 1 .. Len(list) : list[f].type \in Types /\ list[f].name \in STRING
  BY FieldWritten
<1>2. ASSUME NEW f \in 1 .. Len(list)
      PROVE  list[f].type \o <<Name(list[f].name), Rule("field")>> \in Seq(AllNodes)
  <2>1. list[f].type \in Seq(AllNodes)
    BY <1>1, TypeIsNodes
  <2>2. Name(list[f].name) \in AllNodes /\ Rule("field") \in AllNodes
    BY <1>1, NodeTypes
  <2>3. <<Name(list[f].name), Rule("field")>> \in Seq(AllNodes)
    BY <2>2
  <2> QED BY <2>1, <2>3, ConcatProperties
<1>3. s = [f \in 1 .. Len(list) |-> list[f].type \o <<Name(list[f].name), Rule("field")>>]
  BY <1>1 DEF FieldSeq
<1>4. s \in Seq(Seq(AllNodes)) /\ Len(s) = Len(list)
  <2>1. s \in [1 .. Len(list) -> Seq(AllNodes)]
    BY <1>2, <1>3
  <2> HIDE DEF s
  <2>2. s \in Seq(Seq(AllNodes))
    BY <1>1, <2>1, SeqDef
  <2>3. DOMAIN s = 1 .. Len(list) /\ DOMAIN s = 1 .. Len(s) /\ Len(s) \in Nat
    BY <2>1, <2>2, LenProperties
  <2> QED BY <1>1, <2>2, <2>3
<1>5. \A f \in 1 .. Len(list) : s[f] = list[f].type \o <<Name(list[f].name), Rule("field")>>
  BY <1>3
<1>6. \A f : BlockLeft(list, f) = FlattenSeq(SubSeq(s, f + 1, Len(s)))
  BY <1>4 DEF BlockLeft
<1>7. FieldNodes(list) = FlattenSeq(s)
  BY DEF FieldNodes, FieldSeq
<1> HIDE DEF s
<1>8. ASSUME NEW f \in 0 .. Len(list) PROVE BlockLeft(list, f) \in Seq(AllNodes)
  <2>1. f + 1 \in 1 .. Len(s) + 1
    BY <1>1, <1>4
  <2> QED BY <1>4, <1>6, <2>1, FlattenSuffixType
<1>9. BlockLeft(list, Len(list)) = <<>>
  <2>1. Len(s) + 1 \in 1 .. Len(s) + 1
    BY <1>1, <1>4
  <2> QED BY <1>4, <1>6, <2>1, FlattenSuffixType
<1>10. BlockLeft(list, 0) = FieldNodes(list)
  <2>1. 1 \in 1 .. Len(s) + 1 /\ 0 + 1 = 1
    BY <1>1, <1>4
  <2>2. FlattenSeq(SubSeq(s, 1, Len(s))) = FlattenSeq(s)
    BY <1>4, <2>1, FlattenSuffixType
  <2> QED BY <1>6, <1>7, <2>1, <2>2
<1>11. ASSUME NEW f \in 1 .. Len(list)
       PROVE  BlockLeft(list, f - 1)
                = (list[f].type \o <<Name(list[f].name), Rule("field")>>) \o BlockLeft(list, f)
  <2>1. PICK g : g = f - 1
    OBVIOUS
  <2>2. g + 1 = f
    BY <2>1, <1>1
  <2>3. FlattenSeq(SubSeq(s, f, Len(s))) = s[f] \o FlattenSeq(SubSeq(s, f + 1, Len(s)))
    BY <1>4, FlattenSuffix
  <2>4. BlockLeft(list, g) = FlattenSeq(SubSeq(s, f, Len(s)))
    BY <1>6, <2>2
  <2> QED BY <1>5, <1>6, <2>1, <2>3, <2>4
<1> QED BY <1>8, <1>9, <1>10, <1>11

\* The nodes of a definition with more nodes behind them.
LEMMA DefinitionAndRest ==
  ASSUME NEW w \in Seq(Definitions), NEW d \in 1 .. Len(w), NEW rest \in Seq(AllNodes),
         rest = DefinitionsLeft(w, d)
  PROVE  /\ After(w, d, 1) \in Seq(AllNodes) /\ After(w, d, 2) \in Seq(AllNodes)
         /\ DefinitionNodes(w[d]) \o rest
              = <<Name(w[d].name)>> \o (BlockLeft(w[d].fields, 0) \o After(w, d, 1))
<1> DEFINE name == <<Name(w[d].name)>>
           list == BlockLeft(w[d].fields, 0)
           response == BlockLeft(w[d].response, 0)
           message == <<Rule("messageDefinition")>>
           first == <<Rule("requestFields")>>
           second == <<Rule("requestDefinition")>>
           end == IF w[d].kind = "message" THEN message ELSE (first \o response) \o second
<1>1. /\ w[d].name \in STRING
      /\ w[d].fields \in FieldLists /\ w[d].response \in FieldLists
  BY DefinitionWritten
<1>2. /\ name \in Seq(AllNodes) /\ message \in Seq(AllNodes)
      /\ first \in Seq(AllNodes) /\ second \in Seq(AllNodes)
  <2>1. /\ Name(w[d].name) \in AllNodes /\ Rule("messageDefinition") \in AllNodes
        /\ Rule("requestFields") \in AllNodes /\ Rule("requestDefinition") \in AllNodes
    BY <1>1, NodeTypes
  <2> QED BY <2>1
<1>3. /\ list \in Seq(AllNodes) /\ response \in Seq(AllNodes)
      /\ list = FieldNodes(w[d].fields) /\ response = FieldNodes(w[d].response)
  <2>1. ASSUME NEW l \in FieldLists
        PROVE  BlockLeft(l, 0) \in Seq(AllNodes) /\ BlockLeft(l, 0) = FieldNodes(l)
    <3>1. 0 \in 0 .. Len(l)
      BY FieldWritten
    <3> QED BY <3>1, BlockLeftNodes
  <2> QED BY <1>1, <2>1
<1>4. DefinitionNodes(w[d]) = (name \o list) \o end
  BY <1>3 DEF DefinitionNodes
<1>5. /\ After(w, d, 1) = IF w[d].kind = "message" THEN message \o rest
                          ELSE first \o (response \o (second \o rest))
      /\ After(w, d, 2) = IF w[d].kind = "message" THEN message \o rest ELSE second \o rest
  BY DEF After
<1> HIDE DEF name, list, response, message, first, second, end
<1>6. message \o rest \in Seq(AllNodes) /\ second \o rest \in Seq(AllNodes)
  BY <1>2, ThreeSequences
<1> DEFINE fr == first \o response
           sr == second \o rest
           nl == name \o list
<1>7. fr \in Seq(AllNodes) /\ sr \in Seq(AllNodes) /\ nl \in Seq(AllNodes)
  <2>1. first \in Seq(AllNodes) /\ response \in Seq(AllNodes)
    BY <1>2, <1>3
  <2>2. name \in Seq(AllNodes) /\ list \in Seq(AllNodes)
    BY <1>2, <1>3
  <2>3. fr \in Seq(AllNodes)
    BY <2>1, ConcatProperties
  <2>4. nl \in Seq(AllNodes)
    BY <2>2, ConcatProperties
  <2> QED BY <2>3, <2>4, <1>6
<1>8. fr \o sr = first \o (response \o sr)
  <2>1. first \in Seq(AllNodes) /\ response \in Seq(AllNodes) /\ sr \in Seq(AllNodes)
    BY <1>2, <1>3, <1>7
  <2> HIDE DEF fr, sr, nl
  <2>2. (first \o response) \o sr = first \o (response \o sr)
    BY <2>1, ConcatAssociative, Z3
  <2> QED BY <2>2 DEF fr
<1> HIDE DEF fr
<1>9. fr \o second \in Seq(AllNodes) /\ (fr \o second) \o rest = fr \o sr
  <2>1. fr \in Seq(AllNodes) /\ second \in Seq(AllNodes)
    BY <1>2, <1>7
  <2> QED BY <2>1, ThreeSequences
<1> HIDE DEF sr
<1>10. fr \o sr \in Seq(AllNodes)
  BY <1>7, ConcatProperties
<1>11. end \in Seq(AllNodes) /\ end \o rest = After(w, d, 1)
  <2>1. CASE w[d].kind = "message"
    BY <2>1, <1>2, <1>5 DEF end
  <2>2. CASE w[d].kind # "message"
    BY <2>2, <1>5, <1>8, <1>9 DEF end, fr, sr
  <2> QED BY <2>1, <2>2
<1>12. After(w, d, 1) \in Seq(AllNodes) /\ After(w, d, 2) \in Seq(AllNodes)
  <2>1. CASE w[d].kind = "message"
    BY <2>1, <1>5, <1>6
  <2>2. CASE w[d].kind # "message"
    BY <2>2, <1>5, <1>6, <1>8, <1>10 DEF sr
  <2> QED BY <2>1, <2>2
<1> DEFINE after == After(w, d, 1)
<1>13. nl \o after = name \o (list \o after)
  <2>1. name \in Seq(AllNodes) /\ list \in Seq(AllNodes) /\ after \in Seq(AllNodes)
    BY <1>2, <1>3, <1>12
  <2> HIDE DEF after
  <2> QED BY <2>1, ThreeSequences
<1> HIDE DEF nl
<1>14. nl \o end \in Seq(AllNodes) /\ (nl \o end) \o rest = nl \o (end \o rest)
  <2>1. nl \in Seq(AllNodes) /\ end \in Seq(AllNodes)
    BY <1>7, <1>11
  <2> QED BY <2>1, ThreeSequences
<1>15. DefinitionNodes(w[d]) = nl \o end
  BY <1>4 DEF nl
<1> QED BY <1>11, <1>12, <1>13, <1>14, <1>15 DEF name, list
\* The definitions that are left, from each of them on.
LEMMA DefinitionsLeftNodes ==
  ASSUME NEW w \in Seq(Definitions)
  PROVE  /\ \A d \in 0 .. Len(w) : DefinitionsLeft(w, d) \in Seq(AllNodes)
         /\ DefinitionsLeft(w, Len(w)) = <<>>
         /\ DefinitionsLeft(w, 0) = FlattenSeq(DefinitionSeq(w))
         /\ \A d \in 1 .. Len(w) :
              DefinitionsLeft(w, d - 1) = <<Name(w[d].name)>> \o FieldsLeft(w, d, 1, 0)
<1> DEFINE s == DefinitionSeq(w)
<1>1. Len(w) \in Nat /\ DOMAIN w = 1 .. Len(w)
  BY LenProperties
<1>2. ASSUME NEW d \in 1 .. Len(w) PROVE DefinitionNodes(w[d]) \in Seq(AllNodes)
  <2>1. w[d].name \in STRING /\ w[d].fields \in FieldLists /\ w[d].response \in FieldLists
    BY DefinitionWritten
  <2>2. FieldNodes(w[d].fields) \in Seq(AllNodes) /\ FieldNodes(w[d].response) \in Seq(AllNodes)
    <3>1. ASSUME NEW l \in FieldLists PROVE FieldNodes(l) \in Seq(AllNodes)
      <4>1. 0 \in 0 .. Len(l)
        BY FieldWritten
      <4>2. BlockLeft(l, 0) \in Seq(AllNodes)
        BY <4>1, BlockLeftNodes
      <4> QED BY <4>2, BlockLeftNodes
    <3> QED BY <2>1, <3>1
  <2> DEFINE name == <<Name(w[d].name)>>
             list == FieldNodes(w[d].fields)
             response == FieldNodes(w[d].response)
             message == <<Rule("messageDefinition")>>
             first == <<Rule("requestFields")>>
             second == <<Rule("requestDefinition")>>
             end == IF w[d].kind = "message" THEN message ELSE (first \o response) \o second
  <2>3. /\ name \in Seq(AllNodes) /\ message \in Seq(AllNodes)
        /\ first \in Seq(AllNodes) /\ second \in Seq(AllNodes)
    <3>1. /\ Name(w[d].name) \in AllNodes /\ Rule("messageDefinition") \in AllNodes
          /\ Rule("requestFields") \in AllNodes /\ Rule("requestDefinition") \in AllNodes
      BY <2>1, NodeTypes
    <3> QED BY <3>1
  <2>4. DefinitionNodes(w[d]) = (name \o list) \o end
    BY DEF DefinitionNodes
  <2> HIDE DEF name, list, message, first, second, end
  <2>5. first \o response \in Seq(AllNodes)
    BY <2>2, <2>3, ConcatProperties
  <2>6. (first \o response) \o second \in Seq(AllNodes)
    BY <2>3, <2>5, ConcatProperties
  <2>7. end \in Seq(AllNodes)
    BY <2>3, <2>6 DEF end
  <2>8. name \o list \in Seq(AllNodes)
    BY <2>2, <2>3, ConcatProperties DEF list
  <2> QED BY <2>4, <2>7, <2>8, ConcatProperties
<1>3. s = [d \in 1 .. Len(w) |-> DefinitionNodes(w[d])]
  BY <1>1 DEF DefinitionSeq
<1>4. s \in Seq(Seq(AllNodes)) /\ Len(s) = Len(w)
  <2>1. s \in [1 .. Len(w) -> Seq(AllNodes)]
    BY <1>2, <1>3
  <2> HIDE DEF s
  <2>2. s \in Seq(Seq(AllNodes))
    BY <1>1, <2>1, SeqDef
  <2>3. DOMAIN s = 1 .. Len(w) /\ DOMAIN s = 1 .. Len(s) /\ Len(s) \in Nat
    BY <2>1, <2>2, LenProperties
  <2> QED BY <1>1, <2>2, <2>3
<1>5. \A d \in 1 .. Len(w) : s[d] = DefinitionNodes(w[d])
  BY <1>3
<1>6. \A d : DefinitionsLeft(w, d) = FlattenSeq(SubSeq(s, d + 1, Len(s)))
  BY <1>4 DEF DefinitionsLeft
<1> HIDE DEF s
<1>7. ASSUME NEW d \in 0 .. Len(w) PROVE DefinitionsLeft(w, d) \in Seq(AllNodes)
  <2>1. d + 1 \in 1 .. Len(s) + 1
    BY <1>1, <1>4
  <2> QED BY <1>4, <1>6, <2>1, FlattenSuffixType
<1>8. DefinitionsLeft(w, Len(w)) = <<>>
  <2>1. Len(s) + 1 \in 1 .. Len(s) + 1
    BY <1>1, <1>4
  <2> QED BY <1>4, <1>6, <2>1, FlattenSuffixType
<1>9. DefinitionsLeft(w, 0) = FlattenSeq(s)
  <2>1. 1 \in 1 .. Len(s) + 1 /\ 0 + 1 = 1
    BY <1>1, <1>4
  <2>2. FlattenSeq(SubSeq(s, 1, Len(s))) = FlattenSeq(s)
    BY <1>4, <2>1, FlattenSuffixType
  <2> QED BY <1>6, <2>1, <2>2
<1>10. ASSUME NEW d \in 1 .. Len(w)
       PROVE  DefinitionsLeft(w, d - 1) = <<Name(w[d].name)>> \o FieldsLeft(w, d, 1, 0)
  <2>1. PICK c : c = d - 1
    OBVIOUS
  <2>2. c + 1 = d /\ d \in 1 .. Len(s) /\ d \in 0 .. Len(w)
    BY <2>1, <1>1, <1>4
  <2>3. FlattenSeq(SubSeq(s, d, Len(s))) = s[d] \o FlattenSeq(SubSeq(s, d + 1, Len(s)))
    BY <1>4, <2>2, FlattenSuffix
  <2>4. DefinitionsLeft(w, c) = DefinitionNodes(w[d]) \o DefinitionsLeft(w, d)
    BY <1>5, <1>6, <2>2, <2>3
  <2>5. PICK rest \in Seq(AllNodes) : rest = DefinitionsLeft(w, d)
    BY <1>7, <2>2
  <2>6. DefinitionNodes(w[d]) \o rest
          = <<Name(w[d].name)>> \o (BlockLeft(w[d].fields, 0) \o After(w, d, 1))
    BY <2>5, DefinitionAndRest
  <2> QED BY <2>1, <2>4, <2>5, <2>6 DEF FieldsLeft, Block
<1> QED BY <1>7, <1>8, <1>9, <1>10 DEF s

\* A block of fields that a text has.
IsBlock(w, d, b) == b \in {1, 2} /\ (b = 2 => w[d].kind = "request")

\* One node in front.
LEMMA NodeInFront ==
  ASSUME NEW s \in Seq(AllNodes), NEW a \in AllNodes
  PROVE  /\ <<a>> \o s \in Seq(AllNodes)
         /\ <<a>> \o s # <<>>
         /\ Head(<<a>> \o s) = a
         /\ Tail(<<a>> \o s) = s
<1>1. <<a>> \in Seq(AllNodes) /\ <<a>> # <<>> /\ Tail(<<a>>) = <<>> /\ Head(<<a>>) = a
  OBVIOUS
<1>2. <<>> \o s = s
  BY ConcatEmptySeq
<1> QED BY <1>1, <1>2, TailOfConcat

\* What is left in a block, after each of its fields.
LEMMA FieldPositions ==
  ASSUME NEW w \in Seq(Definitions), NEW d \in 1 .. Len(w), NEW b, IsBlock(w, d, b)
  PROVE  LET list == Block(w, d, b) IN
         /\ list \in FieldLists /\ Len(list) \in Nat /\ DOMAIN list = 1 .. Len(list)
         /\ After(w, d, b) \in Seq(AllNodes)
         /\ FieldsLeft(w, d, b, Len(list)) = After(w, d, b)
         /\ \A f \in 0 .. Len(list) : FieldsLeft(w, d, b, f) \in Seq(AllNodes)
         /\ \A f \in 1 .. Len(list) :
              /\ list[f].type \in Types /\ list[f].name \in STRING
              /\ FieldEnd(w, d, b, f) \in Seq(AllNodes)
              /\ FieldsLeft(w, d, b, f - 1) = list[f].type \o FieldEnd(w, d, b, f)
<1> DEFINE list == Block(w, d, b)
           after == After(w, d, b)
           rest(f) == BlockLeft(list, f)
<1>1. b \in {1, 2} /\ d \in 0 .. Len(w)
  BY DEF IsBlock
<1>2. /\ list \in FieldLists /\ Len(list) \in Nat /\ DOMAIN list = 1 .. Len(list)
      /\ \A f \in 1 .. Len(list) : list[f].type \in Types /\ list[f].name \in STRING
  <2>1. list \in FieldLists
    BY <1>1, DefinitionWritten
  <2> QED BY <2>1, FieldWritten
<1>3. after \in Seq(AllNodes)
  <2>1. PICK r \in Seq(AllNodes) : r = DefinitionsLeft(w, d)
    BY <1>1, DefinitionsLeftNodes
  <2>2. After(w, d, 1) \in Seq(AllNodes) /\ After(w, d, 2) \in Seq(AllNodes)
    BY <2>1, DefinitionAndRest
  <2> QED BY <1>1, <2>2
<1> HIDE DEF list, after
<1>4. /\ rest(Len(list)) = <<>>
      /\ \A f \in 0 .. Len(list) : rest(f) \in Seq(AllNodes)
      /\ \A f \in 1 .. Len(list) :
           rest(f - 1) = (list[f].type \o <<Name(list[f].name), Rule("field")>>) \o rest(f)
  BY <1>2, BlockLeftNodes
<1>5. \A f : FieldsLeft(w, d, b, f) = rest(f) \o after
  BY DEF FieldsLeft, list, after
<1> HIDE DEF rest
<1>6. FieldsLeft(w, d, b, Len(list)) = after
  <2>1. FieldsLeft(w, d, b, Len(list)) = <<>> \o after
    BY <1>4, <1>5
  <2> QED BY <2>1, <1>3, ConcatEmptySeq
<1>7. ASSUME NEW f \in 0 .. Len(list) PROVE FieldsLeft(w, d, b, f) \in Seq(AllNodes)
  <2>1. rest(f) \in Seq(AllNodes)
    BY <1>4
  <2> QED BY <2>1, <1>3, <1>5, ConcatProperties
<1>8. ASSUME NEW f \in 1 .. Len(list)
      PROVE  /\ FieldEnd(w, d, b, f) \in Seq(AllNodes)
             /\ FieldsLeft(w, d, b, f - 1) = list[f].type \o FieldEnd(w, d, b, f)
  <2> DEFINE t == list[f].type
             x == Name(list[f].name)
             y == Rule("field")
             s == <<x, y>>
             r == rest(f)
             left == FieldsLeft(w, d, b, f)
             end == FieldEnd(w, d, b, f)
  <2>1. f \in 0 .. Len(list)
    OBVIOUS
  <2>2. x \in AllNodes /\ y \in AllNodes /\ t \in Seq(AllNodes)
    BY <1>2, NodeTypes, TypeIsNodes
  <2>3. r \in Seq(AllNodes) /\ left \in Seq(AllNodes) /\ left = r \o after
    BY <2>1, <1>4, <1>5, <1>7
  <2>4. end = <<x>> \o (<<y>> \o left)
    BY DEF FieldEnd, list
  <2>5. FieldsLeft(w, d, b, f - 1) = ((t \o s) \o r) \o after
    BY <1>4, <1>5
  <2> HIDE DEF t, x, y, r, left, end
  <2>6. s \in Seq(AllNodes)
    BY <2>2
  <2>7. <<y>> \o left \in Seq(AllNodes) /\ s \o left = <<x>> \o (<<y>> \o left)
    <3>1. x \in AllNodes /\ y \in AllNodes /\ left \in Seq(AllNodes)
      BY <2>2, <2>3
    <3> QED BY ONLY <3>1, InFront
  <2>8. <<x>> \o (<<y>> \o left) \in Seq(AllNodes)
    <3> DEFINE l == <<y>> \o left
    <3>1. x \in AllNodes /\ l \in Seq(AllNodes)
      BY <2>2, <2>7
    <3> HIDE DEF l
    <3>2. <<x>> \o l \in Seq(AllNodes)
      BY ONLY <3>1, NodeInFront
    <3> QED BY <3>2 DEF l
  <2> HIDE DEF s
  <2>9. t \o s \in Seq(AllNodes)
    BY <2>2, <2>6, ConcatProperties
  <2>10. ((t \o s) \o r) \o after = (t \o s) \o left
    <3> DEFINE ts == t \o s
    <3>1. ts \in Seq(AllNodes) /\ r \in Seq(AllNodes)
      BY <2>3, <2>9
    <3> HIDE DEF ts
    <3>2. (ts \o r) \o after = ts \o (r \o after)
      BY <1>3, <3>1, ConcatAssociative
    <3> QED BY <2>3, <3>2 DEF ts
  <2>11. (t \o s) \o left = t \o (s \o left)
    <3>1. t \in Seq(AllNodes) /\ left \in Seq(AllNodes)
      BY <2>2, <2>3
    <3> QED BY <2>6, <3>1, ConcatAssociative
  <2> QED BY <2>4, <2>5, <2>7, <2>8, <2>10, <2>11 DEF t, end
<1> QED BY <1>2, <1>3, <1>6, <1>7, <1>8 DEF list, after

\* What is left of a type, after each of its nodes.
LEMMA TypePositions ==
  ASSUME NEW w \in Seq(Definitions), NEW d \in 1 .. Len(w), NEW b, IsBlock(w, d, b),
         NEW f \in 1 .. Len(Block(w, d, b)), NEW t \in Types, t = Block(w, d, b)[f].type
  PROVE  /\ FieldsLeft(w, d, b, f - 1) = TypeLeft(w, d, b, f, 0)
         /\ TypeLeft(w, d, b, f, Len(t)) = FieldEnd(w, d, b, f)
         /\ \A n \in 0 .. Len(t) - 1 :
              /\ TypeLeft(w, d, b, f, n) # <<>>
              /\ Head(TypeLeft(w, d, b, f, n)) = t[n + 1]
              /\ Tail(TypeLeft(w, d, b, f, n)) = TypeLeft(w, d, b, f, n + 1)
<1> DEFINE end == FieldEnd(w, d, b, f)
           left(n) == TypeLeft(w, d, b, f, n)
<1>1. end \in Seq(AllNodes) /\ FieldsLeft(w, d, b, f - 1) = t \o end
  BY FieldPositions
<1>2. t \in Seq(AllNodes) /\ Len(t) \in Nat \ {0}
  BY TypeIsNodes
<1>3. \A n : left(n) = SubSeq(t, n + 1, Len(t)) \o end
  BY DEF TypeLeft
<1> HIDE DEF end, left
<1>4. left(0) = t \o end
  <2>1. SubSeq(t, 1, Len(t)) = t
    BY <1>2, SubSeqFull
  <2>2. PICK z \in Nat : z = 0
    OBVIOUS
  <2>3. left(z) = SubSeq(t, z + 1, Len(t)) \o end
    BY <1>3
  <2>4. z + 1 = 1
    BY <2>2
  <2> QED BY <2>1, <2>2, <2>3, <2>4
<1>5. left(Len(t)) = end
  <2>1. SubSeq(t, Len(t) + 1, Len(t)) = <<>>
    <3>1. Len(t) \in Int /\ Len(t) + 1 \in Int /\ Len(t) < Len(t) + 1
      BY <1>2
    <3> QED BY <3>1, SubSeqEmpty
  <2>2. left(Len(t)) = <<>> \o end
    <3>1. left(Len(t)) = SubSeq(t, Len(t) + 1, Len(t)) \o end
      BY <1>3
    <3> QED BY <2>1, <3>1
  <2> QED BY <1>1, <2>2, ConcatEmptySeq
<1>6. ASSUME NEW n \in 0 .. Len(t) - 1
      PROVE  left(n) # <<>> /\ Head(left(n)) = t[n + 1] /\ Tail(left(n)) = left(n + 1)
  <2> DEFINE s == SubSeq(t, n + 1, Len(t))
  <2>1. n + 1 \in 1 .. Len(t) /\ Len(t) \in n + 1 .. Len(t) /\ n + 1 \in Int /\ Len(t) \in Int
    BY <1>2
  <2>2. Head(s) = t[n + 1] /\ Tail(s) = SubSeq(t, n + 1 + 1, Len(t))
    BY <1>2, <2>1, HeadTailOfSubSeq
  <2>3. s \in Seq(AllNodes) /\ s # <<>>
    <3>1. \A i \in n + 1 .. Len(t) : t[i] \in AllNodes
      BY <1>2, <2>1, ElementOfSeq
    <3>2. s \in Seq(AllNodes) /\ Len(s) = Len(t) - (n + 1) + 1
      BY <2>1, <3>1, SubSeqProperties
    <3>3. Len(s) # 0
      BY <2>1, <3>2
    <3> QED BY <3>2, <3>3, EmptySeq
  <2> HIDE DEF s
  <2>4. s \o end # <<>> /\ Head(s \o end) = Head(s) /\ Tail(s \o end) = Tail(s) \o end
    BY <1>1, <2>3, TailOfConcat
  <2>5. left(n) = s \o end
    BY <1>3 DEF s
  <2>6. left(n + 1) = SubSeq(t, n + 1 + 1, Len(t)) \o end
    BY <1>3
  <2> QED BY <2>2, <2>4, <2>5, <2>6
<1> QED BY <1>1, <1>4, <1>5, <1>6 DEF left, end

\* What is left behind the name of a field.
LEMMA FieldEndPositions ==
  ASSUME NEW w \in Seq(Definitions), NEW d \in 1 .. Len(w), NEW b, IsBlock(w, d, b),
         NEW f \in 1 .. Len(Block(w, d, b))
  PROVE  /\ FieldEnd(w, d, b, f) # <<>>
         /\ Head(FieldEnd(w, d, b, f)) = Name(Block(w, d, b)[f].name)
         /\ Tail(FieldEnd(w, d, b, f)) = <<Rule("field")>> \o FieldsLeft(w, d, b, f)
         /\ <<Rule("field")>> \o FieldsLeft(w, d, b, f) # <<>>
         /\ Head(<<Rule("field")>> \o FieldsLeft(w, d, b, f)) = Rule("field")
         /\ Tail(<<Rule("field")>> \o FieldsLeft(w, d, b, f)) = FieldsLeft(w, d, b, f)
<1> DEFINE left == FieldsLeft(w, d, b, f)
           x == Name(Block(w, d, b)[f].name)
           y == Rule("field")
           yl == <<y>> \o left
<1>1. left \in Seq(AllNodes) /\ Block(w, d, b)[f].name \in STRING
  <2>1. f \in 0 .. Len(Block(w, d, b))
    BY FieldPositions
  <2> QED BY <2>1, FieldPositions
<1>2. x \in AllNodes /\ y \in AllNodes
  BY <1>1, NodeTypes
<1>3. FieldEnd(w, d, b, f) = <<x>> \o yl
  BY DEF FieldEnd
<1> HIDE DEF left, x, y
<1>4. yl \in Seq(AllNodes) /\ yl # <<>> /\ Head(yl) = y /\ Tail(yl) = left
  BY <1>1, <1>2, NodeInFront
<1> HIDE DEF yl
<1>5. <<x>> \o yl # <<>> /\ Head(<<x>> \o yl) = x /\ Tail(<<x>> \o yl) = yl
  BY <1>2, <1>4, NodeInFront
<1> QED BY <1>3, <1>4, <1>5 DEF x, y, yl, left

\* What is left behind the last field of a block.
LEMMA BlockEndPositions ==
  ASSUME NEW w \in Seq(Definitions), NEW d \in 1 .. Len(w), NEW b, IsBlock(w, d, b)
  PROVE  LET left == FieldsLeft(w, d, b, Len(Block(w, d, b))) IN
         /\ left # <<>>
         /\ w[d].kind = "message" =>
              Head(left) = Rule("messageDefinition") /\ Tail(left) = DefinitionsLeft(w, d)
         /\ w[d].kind = "request" /\ b = 1 =>
              Head(left) = Rule("requestFields") /\ Tail(left) = FieldsLeft(w, d, 2, 0)
         /\ w[d].kind = "request" /\ b = 2 =>
              Head(left) = Rule("requestDefinition") /\ Tail(left) = DefinitionsLeft(w, d)
<1> DEFINE left == FieldsLeft(w, d, b, Len(Block(w, d, b)))
           rest == DefinitionsLeft(w, d)
           m == Rule("messageDefinition")
           x == Rule("requestFields")
           y == Rule("requestDefinition")
           second == FieldsLeft(w, d, 2, 0)
<1>1. left = After(w, d, b)
  BY FieldPositions
<1>2. rest \in Seq(AllNodes)
  <2>1. d \in 0 .. Len(w)
    OBVIOUS
  <2> QED BY <2>1, DefinitionsLeftNodes
<1>3. m \in AllNodes /\ x \in AllNodes /\ y \in AllNodes
  BY NodeTypes
<1>4. b \in {1, 2} /\ w[d].kind \in {"message", "request"}
  BY DefinitionWritten DEF IsBlock
<1>5. CASE w[d].kind = "message"
  <2>1. left = <<m>> \o rest
    BY <1>1, <1>5 DEF After
  <2> HIDE DEF left, rest, m
  <2>2. left # <<>> /\ Head(left) = m /\ Tail(left) = rest
    BY <1>2, <1>3, <2>1, NodeInFront
  <2> QED BY <1>5, <2>2 DEF left, rest, m
<1>6. CASE w[d].kind = "request" /\ b = 2
  <2>1. left = <<y>> \o rest
    BY <1>1, <1>6 DEF After
  <2> HIDE DEF left, rest, y
  <2>2. left # <<>> /\ Head(left) = y /\ Tail(left) = rest
    BY <1>2, <1>3, <2>1, NodeInFront
  <2> QED BY <1>6, <2>2 DEF left, rest, y
<1>7. CASE w[d].kind = "request" /\ b = 1
  <2>1. IsBlock(w, d, 2)
    BY <1>7 DEF IsBlock
  <2>2. second \in Seq(AllNodes)
    <3>1. Len(Block(w, d, 2)) \in Nat
      BY <2>1, FieldPositions
    <3>2. 0 \in 0 .. Len(Block(w, d, 2))
      BY <3>1
    <3> QED BY <2>1, <3>2, FieldPositions
  <2>3. After(w, d, 2) = <<y>> \o rest /\ Block(w, d, 2) = w[d].response
    BY <1>7 DEF After, Block
  <2>4. second = BlockLeft(w[d].response, 0) \o (<<y>> \o rest)
    BY <2>3 DEF FieldsLeft
  <2>5. left = <<x>> \o second
    BY <1>1, <1>7, <2>4 DEF After
  <2> HIDE DEF left, x, second
  <2>6. left # <<>> /\ Head(left) = x /\ Tail(left) = second
    BY <1>3, <2>2, <2>5, NodeInFront
  <2> QED BY <1>7, <2>6 DEF left, x, second
<1> QED BY <1>4, <1>5, <1>6, <1>7

\* What is left from the beginning and behind each definition.
LEMMA DefinitionPositions ==
  ASSUME NEW w \in Seq(Definitions)
  PROVE  /\ Nodes(w) # <<>>
         /\ Head(Nodes(w)) = Node("module", Namespace)
         /\ Tail(Nodes(w)) = <<Rule("namespace")>> \o DefinitionsLeft(w, 0)
         /\ <<Rule("namespace")>> \o DefinitionsLeft(w, 0) # <<>>
         /\ Head(<<Rule("namespace")>> \o DefinitionsLeft(w, 0)) = Rule("namespace")
         /\ Tail(<<Rule("namespace")>> \o DefinitionsLeft(w, 0)) = DefinitionsLeft(w, 0)
         /\ DefinitionsLeft(w, Len(w)) = <<>>
         /\ \A d \in 1 .. Len(w) :
              /\ DefinitionsLeft(w, d - 1) # <<>>
              /\ Head(DefinitionsLeft(w, d - 1)) = Name(w[d].name)
              /\ Tail(DefinitionsLeft(w, d - 1)) = FieldsLeft(w, d, 1, 0)
<1> DEFINE rest == DefinitionsLeft(w, 0)
           x == Node("module", Namespace)
           y == Rule("namespace")
           yr == <<y>> \o rest
<1>1. rest \in Seq(AllNodes) /\ rest = FlattenSeq(DefinitionSeq(w))
  <2>1. 0 \in 0 .. Len(w)
    BY DefinitionWritten
  <2> QED BY <2>1, DefinitionsLeftNodes
<1>2. x \in AllNodes /\ y \in AllNodes
  BY NodeTypes
<1>3. Nodes(w) = <<x, y>> \o rest
  BY <1>1 DEF Nodes, DefinitionSeq
<1>4. ASSUME NEW d \in 1 .. Len(w)
      PROVE  /\ DefinitionsLeft(w, d - 1) # <<>>
             /\ Head(DefinitionsLeft(w, d - 1)) = Name(w[d].name)
             /\ Tail(DefinitionsLeft(w, d - 1)) = FieldsLeft(w, d, 1, 0)
  <2> DEFINE n == Name(w[d].name)
             left == FieldsLeft(w, d, 1, 0)
  <2>1. IsBlock(w, d, 1)
    BY DEF IsBlock
  <2>2. left \in Seq(AllNodes)
    <3>1. Len(Block(w, d, 1)) \in Nat
      BY <2>1, FieldPositions
    <3>2. 0 \in 0 .. Len(Block(w, d, 1))
      BY <3>1
    <3> QED BY <2>1, <3>2, FieldPositions
  <2>3. n \in AllNodes
    BY DefinitionWritten, NodeTypes
  <2>4. DefinitionsLeft(w, d - 1) = <<n>> \o left
    BY DefinitionsLeftNodes
  <2> HIDE DEF n, left
  <2>5. <<n>> \o left # <<>> /\ Head(<<n>> \o left) = n /\ Tail(<<n>> \o left) = left
    BY <2>2, <2>3, NodeInFront
  <2> QED BY <2>4, <2>5 DEF n, left
<1> HIDE DEF rest, x, y
<1>5. yr \in Seq(AllNodes) /\ yr # <<>> /\ Head(yr) = y /\ Tail(yr) = rest
  BY <1>1, <1>2, NodeInFront
<1>6. <<x, y>> \o rest = <<x>> \o yr
  BY <1>1, <1>2, InFront
<1> HIDE DEF yr
<1>7. <<x>> \o yr # <<>> /\ Head(<<x>> \o yr) = x /\ Tail(<<x>> \o yr) = yr
  BY <1>2, <1>5, NodeInFront
<1> QED BY <1>3, <1>4, <1>5, <1>6, <1>7, DefinitionsLeftNodes DEF x, y, yr, rest

-----------------------------------------------------------------------------
(* The stack of types.                                                     *)

Upto(P, m) == {i \in 1 .. m : i \in P}

\* Counting the numbers of a set one further.
LEMMA CountStep ==
  ASSUME NEW P, NEW n \in Nat
  PROVE  /\ Cardinality(Upto(P, n)) \in Nat
         /\ Cardinality(Upto(P, n + 1)) = Cardinality(Upto(P, n)) + (IF n + 1 \in P THEN 1 ELSE 0)
<1>1. IsFiniteSet(Upto(P, n))
  <2>1. 1 \in Int /\ n \in Int
    OBVIOUS
  <2>2. IsFiniteSet(1 .. n)
    BY <2>1, FS_Interval
  <2>3. Upto(P, n) \subseteq 1 .. n
    BY DEF Upto
  <2> QED BY <2>2, <2>3, FS_Subset
<1>2. n + 1 \notin Upto(P, n)
  BY DEF Upto
<1>3. CASE n + 1 \in P
  <2>1. Upto(P, n + 1) = Upto(P, n) \cup {n + 1}
    BY <1>3 DEF Upto
  <2> QED BY <1>1, <1>2, <1>3, <2>1, FS_AddElement, FS_CardinalityType
<1>4. CASE n + 1 \notin P
  <2>1. Upto(P, n + 1) = Upto(P, n)
    BY <1>4 DEF Upto
  <2> QED BY <1>1, <1>4, <2>1, FS_CardinalityType
<1> QED BY <1>3, <1>4

Operand == SimpleTypes \cup {"name"}

\* How many types are whole changes by one at most.
LEMMA OperandsStep ==
  ASSUME NEW t \in Types
  PROVE  /\ Operands(t, 0) = 0
         /\ \A n \in 0 .. Len(t) : Operands(t, n) \in Int
         /\ \A n \in 0 .. Len(t) - 1 :
              Operands(t, n + 1) = IF t[n + 1].rule \in Operand THEN Operands(t, n) + 1
                                   ELSE IF t[n + 1].rule = "map" THEN Operands(t, n) - 1
                                   ELSE Operands(t, n)
<1> DEFINE A == {i \in 1 .. Len(t) : t[i].rule \in Operand}
           B == {i \in 1 .. Len(t) : t[i].rule = "map"}
<1>1. Len(t) \in Nat
  BY TypeIsNodes
<1>2. ASSUME NEW n \in 0 .. Len(t)
      PROVE  Operands(t, n) = Cardinality(Upto(A, n)) - Cardinality(Upto(B, n))
  <2>1. /\ Upto(A, n) = {i \in 1 .. n : t[i].rule \in SimpleTypes \cup {"name"}}
        /\ Upto(B, n) = {i \in 1 .. n : t[i].rule = "map"}
    BY <1>1 DEF Operand, Upto
  <2> QED BY <2>1 DEF Operands
<1>3. Operands(t, 0) = 0
  <2>1. Upto(A, 0) = {} /\ Upto(B, 0) = {} /\ 0 \in 0 .. Len(t)
    BY <1>1 DEF Upto
  <2>2. Operands(t, 0) = Cardinality(Upto(A, 0)) - Cardinality(Upto(B, 0))
    BY <1>2, <2>1
  <2> HIDE DEF A, B
  <2>3. Cardinality(Upto(A, 0)) = 0 /\ Cardinality(Upto(B, 0)) = 0
    BY <2>1, FS_EmptySet
  <2> QED BY <2>2, <2>3
<1>4. ASSUME NEW P, NEW n \in Nat
      PROVE  /\ Cardinality(Upto(P, n)) \in Nat
             /\ Cardinality(Upto(P, n + 1))
                  = Cardinality(Upto(P, n)) + (IF n + 1 \in P THEN 1 ELSE 0)
  BY <1>4, CountStep
<1>5. ASSUME NEW n \in 0 .. Len(t) - 1
      PROVE  (n + 1 \in A <=> t[n + 1].rule \in Operand) /\ (n + 1 \in B <=> t[n + 1].rule = "map")
  BY <1>1
<1> HIDE DEF A, B
<1>6. \A n \in 0 .. Len(t) : Operands(t, n) \in Int
  <2> TAKE n \in 0 .. Len(t)
  <2>1. n \in Nat
    OBVIOUS
  <2>2. Cardinality(Upto(A, n)) \in Nat /\ Cardinality(Upto(B, n)) \in Nat
    BY <1>4, <2>1
  <2> QED BY <1>2, <2>2
<1>7. ASSUME NEW n \in 0 .. Len(t) - 1
      PROVE  Operands(t, n + 1) = IF t[n + 1].rule \in Operand THEN Operands(t, n) + 1
                                  ELSE IF t[n + 1].rule = "map" THEN Operands(t, n) - 1
                                  ELSE Operands(t, n)
  <2>1. n \in Nat /\ n \in 0 .. Len(t) /\ n + 1 \in 0 .. Len(t)
    BY <1>1
  <2>2. PICK a \in Nat, b \in Nat : a = Cardinality(Upto(A, n)) /\ b = Cardinality(Upto(B, n))
    BY <1>4, <2>1
  <2>3. Operands(t, n) = a - b
    BY <1>2, <2>1, <2>2
  <2>4. Cardinality(Upto(A, n + 1)) = a + (IF t[n + 1].rule \in Operand THEN 1 ELSE 0)
    BY <1>4, <1>5, <2>1, <2>2
  <2>5. Cardinality(Upto(B, n + 1)) = b + (IF t[n + 1].rule = "map" THEN 1 ELSE 0)
    BY <1>4, <1>5, <2>1, <2>2
  <2>6. Operands(t, n + 1) = Cardinality(Upto(A, n + 1)) - Cardinality(Upto(B, n + 1))
    BY <1>2, <2>1
  <2>7. t[n + 1].rule = "map" => t[n + 1].rule \notin Operand
    BY DEF Operand, SimpleTypes, NumberTypes
  <2> QED BY <2>3, <2>4, <2>5, <2>6, <2>7
<1> QED BY <1>3, <1>6, <1>7

\* The nodes of t behind the a-th, up to the b-th.
Cut(t, a, b) == SubSeq(t, a + 1, b)

\* What a cut is.
LEMMA CutType ==
  ASSUME NEW S, NEW t \in Seq(S), NEW a \in 0 .. Len(t), NEW b \in a .. Len(t)
  PROVE  /\ Cut(t, a, b) \in Seq(S)
         /\ Len(Cut(t, a, b)) = b - a
         /\ \A i \in 1 .. b - a : Cut(t, a, b)[i] = t[a + i]
<1>1. Len(t) \in Nat /\ a \in Nat /\ b \in Nat /\ a <= b /\ b <= Len(t)
  BY LenProperties
<1>2. PICK a1 \in Nat : a1 = a + 1
  BY <1>1
<1>3. a1 \in Int /\ b \in Int
  BY <1>1, <1>2
<1>4. \A i \in a1 .. b : t[i] \in S
  BY <1>1, <1>2, ElementOfSeq
<1>5. /\ SubSeq(t, a1, b) \in Seq(S)
      /\ Len(SubSeq(t, a1, b)) = IF a1 <= b THEN b - a1 + 1 ELSE 0
      /\ \A i \in 1 .. b - a1 + 1 : SubSeq(t, a1, b)[i] = t[a1 + i - 1]
  BY <1>3, <1>4, SubSeqProperties
<1>6. (IF a1 <= b THEN b - a1 + 1 ELSE 0) = b - a
  BY <1>1, <1>2
<1>7. \A i \in 1 .. b - a : i \in 1 .. b - a1 + 1 /\ a1 + i - 1 = a + i
  BY <1>1, <1>2
<1> QED BY <1>2, <1>5, <1>6, <1>7 DEF Cut

\* Cuts that touch can be put together, and grow node by node.
LEMMA Cuts ==
  ASSUME NEW S, NEW t \in Seq(S), NEW a \in 0 .. Len(t), NEW b \in a .. Len(t)
  PROVE  /\ Cut(t, a, a) = <<>>
         /\ \A c \in b .. Len(t) : Cut(t, a, b) \o Cut(t, b, c) = Cut(t, a, c)
         /\ b # Len(t) => Cut(t, a, b + 1) = Cut(t, a, b) \o <<t[b + 1]>>
         /\ a # b => Last(Cut(t, a, b)) = t[b]
         /\ Cut(t, 0, Len(t)) = t
<1>1. Len(t) \in Nat /\ a \in Nat /\ b \in Nat /\ a <= b /\ b <= Len(t)
  BY LenProperties
<1>2. PICK a1 \in Nat : a1 = a + 1
  BY <1>1
<1>3. \A c : Cut(t, a, c) = SubSeq(t, a1, c)
  BY <1>2 DEF Cut
<1>4. /\ Len(Cut(t, a, b)) = b - a
      /\ \A i \in 1 .. b - a : Cut(t, a, b)[i] = t[a + i]
  BY CutType
<1>5. Cut(t, a, a) = <<>>
  <2>1. a1 \in Int /\ a \in Int /\ a < a1
    BY <1>1, <1>2
  <2> QED BY <1>3, <2>1, SubSeqEmpty
<1>6. ASSUME NEW c \in b .. Len(t) PROVE Cut(t, a, b) \o Cut(t, b, c) = Cut(t, a, c)
  <2>1. a1 \in 1 .. Len(t) + 1 /\ b \in a1 - 1 .. Len(t) /\ c \in b .. Len(t)
    BY <1>1, <1>2
  <2>2. SubSeq(t, a1, b) \o SubSeq(t, b + 1, c) = SubSeq(t, a1, c)
    BY <2>1, ConcatAdjacentSubSeq
  <2> QED BY <1>3, <2>2 DEF Cut
<1>7. ASSUME b # Len(t) PROVE Cut(t, a, b + 1) = Cut(t, a, b) \o <<t[b + 1]>>
  <2>1. PICK b1 \in Nat : b1 = b + 1
    BY <1>1
  <2>2. a1 \in 1 .. Len(t) /\ b1 \in a1 .. Len(t) /\ b1 - 1 = b
    BY <1>1, <1>2, <1>7, <2>1
  <2>3. SubSeq(t, a1, b1) = SubSeq(t, a1, b1 - 1) \o <<t[b1]>>
    BY <2>2, SubSeqRecursiveSecond
  <2> QED BY <1>3, <2>1, <2>2, <2>3
<1>8. ASSUME a # b PROVE Last(Cut(t, a, b)) = t[b]
  <2>1. b - a \in 1 .. b - a /\ a + (b - a) = b
    BY <1>1, <1>8
  <2>2. Cut(t, a, b)[b - a] = t[a + (b - a)]
    BY <1>4, <2>1
  <2> QED BY <1>4, <2>1, <2>2 DEF Last
<1>9. Cut(t, 0, Len(t)) = t
  <2>1. PICK z \in Nat : z = 0
    OBVIOUS
  <2>2. Cut(t, z, Len(t)) = SubSeq(t, z + 1, Len(t)) /\ z + 1 = 1
    BY <2>1 DEF Cut
  <2>3. SubSeq(t, 1, Len(t)) = t
    BY SubSeqFull
  <2> QED BY <2>1, <2>2, <2>3
<1> QED BY <1>5, <1>6, <1>7, <1>8, <1>9

\* A cut with one more node.
LEMMA CutGrows ==
  ASSUME NEW S, NEW t \in Seq(S), NEW b \in 0 .. Len(t) - 1, NEW a \in 0 .. b
  PROVE  Cut(t, a, b + 1) = Cut(t, a, b) \o <<t[b + 1]>>
<1>1. Len(t) \in Nat
  BY LenProperties
<1>2. a \in 0 .. Len(t) /\ b \in a .. Len(t) /\ b # Len(t)
  BY <1>1
<1> QED BY <1>2, Cuts

\* The i-th type of the stack ends with the node cut[i] of t: from there on
\* more than i types are whole.
StackCut(s, t, n, cut) ==
  /\ Operands(t, n) = Len(s)
  /\ cut[0] = 0 /\ cut[Len(s)] = n
  /\ \A i \in 0 .. Len(s) :
       /\ Operands(t, cut[i]) = i
       /\ \A j \in cut[i] + 1 .. n : Operands(t, j) > i
  /\ \A i \in 1 .. Len(s) :
       /\ cut[i - 1] < cut[i]
       /\ s[i].nodes = Cut(t, cut[i - 1], cut[i])

\* The stack after n nodes of t.
StackOf(s, t, n) ==
  /\ ASeq(s)
  /\ \E cut \in [0 .. Len(s) -> 0 .. n] : StackCut(s, t, n, cut)

\* r is s up to a type k that is new and on top.
OnTop(r, s, k) ==
  ASeq(r) /\ k \in 1 .. Len(s) + 1 /\ Len(r) = k /\ \A i \in 1 .. k - 1 : r[i] = s[i]

AtLeast(t, n, m, k) == \A j \in n + 1 .. m : Operands(t, j) >= k

\* The last types of the stack are reduced to one that ends with node m.
LEMMA Reduce ==
  ASSUME NEW t \in Types, NEW n \in 0 .. Len(t), NEW m \in n + 1 .. Len(t),
         NEW s, ASeq(s), NEW cut \in [0 .. Len(s) -> 0 .. n], StackCut(s, t, n, cut),
         NEW r, NEW k, OnTop(r, s, k), AtLeast(t, n, m, k), Operands(t, m) = k,
         r[k].nodes = Cut(t, cut[k - 1], m)
  PROVE  StackOf(r, t, m)
<1> USE DEF OnTop, AtLeast
<1> DEFINE new == [i \in 0 .. k |-> IF i = k THEN m ELSE cut[i]]
<1>1. Len(t) \in Nat /\ Len(s) \in Nat
  BY TypeIsNodes, LenProperties DEF ASeq
<1>2. /\ cut[0] = 0
      /\ \A i \in 0 .. Len(s) :
           cut[i] \in 0 .. n /\ Operands(t, cut[i]) = i
             /\ \A j \in cut[i] + 1 .. n : Operands(t, j) > i
      /\ \A i \in 1 .. Len(s) : cut[i - 1] < cut[i] /\ s[i].nodes = Cut(t, cut[i - 1], cut[i])
  BY DEF StackCut
<1>3. \A j \in 0 .. Len(t) : Operands(t, j) \in Int
  BY OperandsStep
<1>4. new[k] = m /\ \A i \in 0 .. k - 1 : new[i] = cut[i]
  <2>1. k \in 0 .. k /\ \A i \in 0 .. k - 1 : i \in 0 .. k /\ i # k
    BY <1>1
  <2> QED BY <2>1
<1>5. new \in [0 .. Len(r) -> 0 .. m]
  <2>1. \A i \in 0 .. k : (IF i = k THEN m ELSE cut[i]) \in 0 .. m
    <3> TAKE i \in 0 .. k
    <3>1. CASE i = k
      BY <3>1, <1>1
    <3>2. CASE i # k
      <4>1. i \in 0 .. Len(s)
        BY <1>1, <3>2
      <4>2. cut[i] \in 0 .. n
        BY <1>2, <4>1
      <4> QED BY <4>2, <3>2, <1>1
    <3> QED BY <3>1, <3>2
  <2> QED BY <2>1
<1> HIDE DEF new
<1>6. new[0] = 0
  <2>1. 0 \in 0 .. k - 1
    BY <1>1
  <2> QED BY <2>1, <1>2, <1>4
<1>7. ASSUME NEW i \in 0 .. k
      PROVE  Operands(t, new[i]) = i /\ \A j \in new[i] + 1 .. m : Operands(t, j) > i
  <2>1. CASE i = k
    BY <2>1, <1>1, <1>4
  <2>2. CASE i # k
    <3>1. i \in 0 .. k - 1 /\ i \in 0 .. Len(s)
      BY <2>2, <1>1
    <3>2. /\ new[i] = cut[i] /\ cut[i] \in 0 .. n /\ Operands(t, cut[i]) = i
          /\ \A j \in cut[i] + 1 .. n : Operands(t, j) > i
      BY <3>1, <1>2, <1>4
    <3>3. ASSUME NEW j \in new[i] + 1 .. m PROVE Operands(t, j) > i
      <4>1. j \in 0 .. Len(t) /\ (j \in cut[i] + 1 .. n \/ j \in n + 1 .. m)
        BY <3>2, <1>1
      <4>2. CASE j \in cut[i] + 1 .. n
        BY <3>2, <4>2
      <4>3. CASE j \in n + 1 .. m
        <5>1. Operands(t, j) >= k /\ Operands(t, j) \in Int
          BY <4>1, <4>3, <1>3
        <5> QED BY <5>1, <3>1
      <4> QED BY <4>1, <4>2, <4>3
    <3> QED BY <3>2, <3>3
  <2> QED BY <2>1, <2>2
<1>8. ASSUME NEW i \in 1 .. k
      PROVE  new[i - 1] < new[i] /\ r[i].nodes = Cut(t, new[i - 1], new[i])
  <2>1. i - 1 \in 0 .. k - 1 /\ i - 1 \in 0 .. Len(s)
    BY <1>1
  <2>2. new[i - 1] = cut[i - 1] /\ cut[i - 1] \in 0 .. n
    BY <2>1, <1>2, <1>4
  <2>3. CASE i = k
    <3>1. cut[i - 1] < m
      BY <2>2, <1>1
    <3> QED BY <2>2, <2>3, <3>1, <1>4
  <2>4. CASE i # k
    <3>1. i \in 1 .. k - 1 /\ i \in 0 .. k - 1 /\ i \in 1 .. Len(s)
      BY <2>4, <1>1
    <3> QED BY <2>2, <3>1, <1>2, <1>4
  <2> QED BY <2>3, <2>4
<1>9. StackCut(r, t, m, new)
  BY <1>4, <1>6, <1>7, <1>8 DEF StackCut
<1> QED BY <1>5, <1>9 DEF StackOf

\* Before the first node of a type the stack is empty.
LEMMA NoTypes ==
  ASSUME NEW t \in Types
  PROVE  StackOf(<<>>, t, 0)
<1> DEFINE cut == [i \in 0 .. 0 |-> 0]
           s == <<>>
<1>1. ASeq(s) /\ Len(s) = 0
  <2>1. s \in Seq({})
    BY EmptySeq
  <2> QED BY <2>1, ASeqOf, EmptySeq
<1>2. Operands(t, 0) = 0
  BY OperandsStep
<1>3. cut \in [0 .. 0 -> 0 .. 0] /\ cut[0] = 0
  OBVIOUS
<1> HIDE DEF cut, s
<1>4. StackCut(s, t, 0, cut)
  <2>1. \A i \in 0 .. 0 : Operands(t, cut[i]) = i /\ \A j \in cut[i] + 1 .. 0 : Operands(t, j) > i
    BY <1>2, <1>3
  <2> QED BY <1>1, <1>2, <1>3, <2>1 DEF StackCut
<1> QED BY <1>1, <1>3, <1>4 DEF StackOf, s

\* A type of one or two nodes is pushed.
LEMMA PushType ==
  ASSUME NEW t \in Types, NEW n \in 0 .. Len(t), NEW m \in n + 1 .. Len(t),
         NEW s, StackOf(s, t, n), NEW e, e.nodes = Cut(t, n, m),
         \A j \in n + 1 .. m : Operands(t, j) = Operands(t, n) + 1
  PROVE  StackOf(Append(s, e), t, m)
<1> DEFINE r == Append(s, e)
<1>1. PICK cut \in [0 .. Len(s) -> 0 .. n] : StackCut(s, t, n, cut)
  BY DEF StackOf
<1>2. ASeq(s)
  BY DEF StackOf
<1>3. /\ ASeq(r) /\ Len(s) \in Nat /\ Len(r) = Len(s) + 1
      /\ \A i \in 1 .. Len(s) : r[i] = s[i]
      /\ r[Len(s) + 1] = e
  BY <1>2, Push
<1>4. PICK k \in Nat : k = Len(s) + 1
  BY <1>3
<1>5. k \in 1 .. Len(s) + 1 /\ Len(r) = k /\ k - 1 = Len(s)
  BY <1>3, <1>4
<1>6. Operands(t, n) = Len(s) /\ cut[Len(s)] = n
  BY <1>1 DEF StackCut
<1>7. Operands(t, m) = k /\ \A j \in n + 1 .. m : Operands(t, j) >= k
  <2>1. \A j \in n + 1 .. m : Operands(t, j) = k
    BY <1>4, <1>6
  <2>2. m \in n + 1 .. m
    BY TypeIsNodes
  <2> QED BY <2>1, <2>2, <1>4
<1>8. /\ \A i \in 1 .. k - 1 : r[i] = s[i]
      /\ r[k].nodes = Cut(t, cut[k - 1], m)
  BY <1>3, <1>4, <1>5, <1>6
<1> HIDE DEF r
<1>9. StackOf(r, t, m)
  <2>1. OnTop(r, s, k) /\ AtLeast(t, n, m, k)
    BY <1>3, <1>5, <1>7, <1>8 DEF OnTop, AtLeast
  <2> QED BY <1>1, <1>2, <1>7, <1>8, <2>1, Reduce
<1> QED BY <1>9 DEF r

\* The last type is replaced by a list of it.
LEMMA ListOfType ==
  ASSUME NEW t \in Types, NEW n \in 0 .. Len(t) - 1, t[n + 1].rule = "list",
         NEW s, StackOf(s, t, n), NEW e, e.nodes = Append(Last(s).nodes, t[n + 1])
  PROVE  StackOf(Append(Front(s), e), t, n + 1)
<1> DEFINE h == Front(s)
           r == Append(h, e)
<1>1. PICK cut \in [0 .. Len(s) -> 0 .. n] : StackCut(s, t, n, cut)
  BY DEF StackOf
<1>2. ASeq(s)
  BY DEF StackOf
<1>3. PICK m \in 1 .. Len(t) : m = n + 1
  BY TypeIsNodes
<1>4. /\ Len(t) \in Nat /\ n \in 0 .. Len(t) /\ m \in n + 1 .. Len(t)
      /\ t[m].rule = "list" /\ n # Len(t)
      /\ m \in 0 .. Len(t) /\ \A j \in n + 1 .. m : j = m
  BY <1>3, TypeIsNodes
<1>5. Operands(t, m) = Operands(t, n) /\ Operands(t, m) >= 1
  <2>1. "list" \notin Operand
    BY DEF Operand, SimpleTypes, NumberTypes
  <2>2. Operands(t, m) = Operands(t, n)
    BY <1>3, <1>4, <2>1, OperandsStep
  <2>3. Operands(t, m) >= 1
    BY <1>3, TypeIsNodes DEF Types
  <2> QED BY <2>2, <2>3
<1>6. PICK k : k = Len(s)
  OBVIOUS
<1>7. Operands(t, n) = k /\ cut[k] = n
  BY <1>1, <1>6 DEF StackCut
<1>8. s # <<>>
  <2>1. k # 0
    BY <1>5, <1>7
  <2> QED BY <1>6, <2>1
<1>9. /\ ASeq(h) /\ k \in Nat \ {0} /\ Len(h) = k - 1
      /\ \A i \in 1 .. k - 1 : h[i] = s[i]
      /\ Last(s) = s[k]
  BY <1>2, <1>6, <1>8, Pop
<1>10. s[k].nodes = Cut(t, cut[k - 1], cut[k]) /\ cut[k - 1] < cut[k] /\ cut[k - 1] \in 0 .. n
  <2>1. k \in 1 .. Len(s) /\ k - 1 \in 0 .. Len(s)
    BY <1>6, <1>9
  <2> QED BY <1>1, <2>1 DEF StackCut
<1> HIDE DEF h
<1>11. /\ ASeq(r) /\ Len(r) = k
       /\ \A i \in 1 .. k - 1 : r[i] = s[i]
       /\ r[k] = e
  <2>1. /\ ASeq(r) /\ Len(r) = Len(h) + 1
        /\ \A i \in 1 .. Len(h) : r[i] = h[i]
        /\ r[Len(h) + 1] = e
    BY <1>9, Push
  <2>2. Len(h) + 1 = k
    BY <1>9
  <2> HIDE DEF r
  <2> QED BY <1>9, <2>1, <2>2
<1>12. e.nodes = Cut(t, cut[k - 1], m)
  <2> DEFINE a == cut[k - 1]
             c == Cut(t, a, n)
  <2>1. a \in 0 .. Len(t) /\ n \in a .. Len(t)
    BY <1>4, <1>10
  <2> HIDE DEF a
  <2>2. t \in Seq(AllNodes)
    BY TypeIsNodes
  <2>3. c \in Seq(AllNodes)
    BY <2>1, <2>2, CutType
  <2>4. Cut(t, a, n + 1) = c \o <<t[n + 1]>>
    <3>1. a \in 0 .. n
      BY <1>10 DEF a
    <3> HIDE DEF c
    <3>2. Cut(t, a, n + 1) = Cut(t, a, n) \o <<t[n + 1]>>
      BY <2>2, <3>1, CutGrows
    <3> QED BY <3>2 DEF c
  <2>5. e.nodes = Append(c, t[m])
    BY <1>3, <1>7, <1>9, <1>10 DEF a
  <2>6. t[m] \in AllNodes
    BY <1>3, <2>2, ElementOfSeq
  <2> HIDE DEF c
  <2>7. Append(c, t[m]) = c \o <<t[m]>>
    BY <2>3, <2>6, AppendIsConcat
  <2> QED BY <1>3, <2>4, <2>5, <2>7 DEF a
<1> HIDE DEF r
<1>13. OnTop(r, s, k)
  <2>1. k \in 1 .. Len(s) + 1
    BY <1>6, <1>9
  <2> QED BY <1>11, <2>1 DEF OnTop
<1>14. Operands(t, m) = k
  BY <1>5, <1>7
<1>15. AtLeast(t, n, m, k)
  <2>1. k >= k
    BY <1>9
  <2>2. \A j \in n + 1 .. m : Operands(t, j) = k
    BY <1>4, <1>14
  <2> QED BY <2>1, <2>2 DEF AtLeast
<1>16. r[k].nodes = Cut(t, cut[k - 1], m)
  BY <1>11, <1>12
<1>17. StackOf(r, t, m)
  <2>1. n \in 0 .. Len(t) /\ m \in n + 1 .. Len(t)
    BY <1>4
  <2> QED BY <1>1, <1>2, <1>13, <1>14, <1>15, <1>16, <2>1, Reduce
<1> QED BY <1>3, <1>17 DEF r, h

\* Cuts that touch.
LEMMA CutsTouch ==
  ASSUME NEW S, NEW t \in Seq(S), NEW a \in 0 .. Len(t), NEW b \in a .. Len(t), NEW c \in b .. Len(t)
  PROVE  Cut(t, a, b) \o Cut(t, b, c) = Cut(t, a, c)
BY Cuts

\* The last node of a cut.
LEMMA CutLast ==
  ASSUME NEW S, NEW t \in Seq(S), NEW a \in 0 .. Len(t), NEW b \in a .. Len(t), a # b
  PROVE  Last(Cut(t, a, b)) = t[b]
BY Cuts

\* The two last types when a map follows: the key ends where KeyEnd says,
\* and never with a name; both are replaced by a map of them.
LEMMA MapOfTypes ==
  ASSUME NEW t \in Types, NEW n \in 0 .. Len(t) - 1, t[n + 1].rule = "map",
         NEW s, StackOf(s, t, n)
  PROVE  /\ KeyEnd(t, n + 1) \in 1 .. n
         /\ Type(Last(Front(s))) = t[KeyEnd(t, n + 1)].rule
         /\ t[KeyEnd(t, n + 1)].rule # "name"
         /\ \A e : e.nodes = (Last(Front(s)).nodes \o Last(s).nodes) \o <<t[n + 1]>>
                     => StackOf(Append(Front(Front(s)), e), t, n + 1)
<1> DEFINE h == Front(s)
           g == Front(h)
<1>1. PICK cut \in [0 .. Len(s) -> 0 .. n] : StackCut(s, t, n, cut)
  BY DEF StackOf
<1>2. ASeq(s)
  BY DEF StackOf
<1>3. PICK m \in 1 .. Len(t) : m = n + 1
  BY TypeIsNodes
<1>4. /\ Len(t) \in Nat /\ n \in 0 .. Len(t) /\ m \in n + 1 .. Len(t)
      /\ t[m].rule = "map" /\ m - 1 = n
      /\ m \in 0 .. Len(t) /\ \A j \in n + 1 .. m : j = m
  BY <1>3, TypeIsNodes
<1>5. Operands(t, m) = Operands(t, n) - 1 /\ Operands(t, m) >= 1
  <2>1. "map" \notin Operand
    BY DEF Operand, SimpleTypes, NumberTypes
  <2>2. Operands(t, m) = Operands(t, n) - 1
    BY <1>3, <1>4, <2>1, OperandsStep
  <2>3. Operands(t, m) >= 1
    BY <1>3, TypeIsNodes DEF Types
  <2> QED BY <2>2, <2>3
<1>6. PICK k : k = Len(s)
  OBVIOUS
<1>7. Operands(t, n) = k /\ cut[k] = n
  BY <1>1, <1>6 DEF StackCut
<1>8. k \in Nat /\ k >= 2
  <2>1. k \in Nat
    BY <1>2, <1>6, LenProperties DEF ASeq
  <2> QED BY <2>1, <1>5, <1>7
<1>9. PICK p \in Nat \ {0} : p = k - 1
  BY <1>8
<1>10. /\ s # <<>>
       /\ ASeq(h) /\ Len(h) = p
       /\ \A i \in 1 .. p : h[i] = s[i]
       /\ Last(s) = s[k]
  <2>1. s # <<>>
    BY <1>6, <1>8, EmptySeq
  <2> QED BY <2>1, <1>2, <1>6, <1>9, Pop
<1>11. /\ ASeq(g) /\ Len(g) = p - 1
       /\ \A i \in 1 .. p - 1 : g[i] = s[i]
       /\ Last(h) = s[p]
  <2>1. h # <<>>
    BY <1>9, <1>10, EmptySeq
  <2> HIDE DEF h
  <2>2. /\ ASeq(g) /\ Len(g) = p - 1
        /\ \A i \in 1 .. p - 1 : g[i] = h[i]
        /\ Last(h) = h[p]
    BY <2>1, <1>10, Pop
  <2>3. p \in 1 .. p /\ \A i \in 1 .. p - 1 : i \in 1 .. p
    OBVIOUS
  <2> HIDE DEF g
  <2>4. \A i \in 1 .. p - 1 : g[i] = s[i]
    <3> TAKE i \in 1 .. p - 1
    <3>1. i \in 1 .. p /\ g[i] = h[i]
      BY <2>2, <2>3
    <3> QED BY <3>1, <1>10
  <2>5. Last(h) = s[p]
    BY <2>2, <2>3, <1>10
  <2> QED BY <2>2, <2>4, <2>5
<1>12. PICK a \in 0 .. n, b \in 0 .. n : a = cut[p - 1] /\ b = cut[p]
  <2>1. p - 1 \in 0 .. Len(s) /\ p \in 0 .. Len(s)
    BY <1>6, <1>8, <1>9
  <2>2. cut[p - 1] \in 0 .. n /\ cut[p] \in 0 .. n
    BY <2>1, <1>1
  <2> QED BY <2>2
<1>13. /\ a < b /\ b < n
       /\ s[p].nodes = Cut(t, a, b) /\ s[k].nodes = Cut(t, b, n)
       /\ Operands(t, b) = p /\ \A j \in b + 1 .. n : Operands(t, j) > p
  <2>1. p \in 1 .. Len(s) /\ k \in 1 .. Len(s) /\ p \in 0 .. Len(s) /\ k - 1 = p
    BY <1>6, <1>8, <1>9
  <2> QED BY <2>1, <1>1, <1>7, <1>12 DEF StackCut
<1>14. a \in 0 .. Len(t) /\ b \in a .. Len(t) /\ n \in b .. Len(t) /\ a # b /\ b \in 1 .. n
  BY <1>4, <1>13
<1>15. t \in Seq(AllNodes)
  BY TypeIsNodes
<1>16. \A j \in 0 .. Len(t) : Operands(t, j) \in Int
  BY OperandsStep
<1>17. Operands(t, m) = p
  BY <1>5, <1>7, <1>9
<1>18. KeyEnd(t, m) = b
  <2> DEFINE Is(i) == /\ Operands(t, i) = Operands(t, m)
                      /\ \A j \in i + 1 .. m - 1 : Operands(t, j) > Operands(t, m)
  <2>1. b \in 1 .. m - 1 /\ Is(b)
    BY <1>4, <1>13, <1>14, <1>17
  <2>2. ASSUME NEW i \in 1 .. m - 1, Is(i) PROVE i = b
    <3>1. CASE i < b
      <4>1. b \in i + 1 .. m - 1
        BY <2>1, <3>1
      <4>2. Operands(t, b) > p
        BY <2>2, <4>1, <1>17
      <4> QED BY <4>2, <1>13
    <3>2. CASE i > b
      <4>1. i \in b + 1 .. n
        BY <3>2, <1>4
      <4>2. Operands(t, i) > p /\ Operands(t, i) = p
        BY <2>2, <4>1, <1>13, <1>17
      <4> QED BY <4>2
    <3> QED BY <3>1, <3>2, <2>1
  <2>3. KeyEnd(t, m) = CHOOSE i \in 1 .. m - 1 : Is(i)
    BY DEF KeyEnd
  <2> HIDE DEF Is
  <2> QED BY <2>1, <2>2, <2>3
<1>19. Type(Last(h)) = t[b].rule
  <2>1. Last(Cut(t, a, b)) = t[b]
    BY <1>14, <1>15, CutLast
  <2> QED BY <2>1, <1>11, <1>13 DEF Type
<1>20. t[b].rule # "name"
  <2> SUFFICES ASSUME t[b].rule = "name" PROVE FALSE
    OBVIOUS
  <2>1. PICK c : c = b + 1
    OBVIOUS
  <2>2. c \in 1 .. Len(t) /\ c - 1 = b /\ c > 1 /\ c \in b + 1 .. n /\ b \in 0 .. Len(t) - 1 /\ b \in 0 .. Len(t)
    BY <2>1, <1>4, <1>13, <1>14
  <2>3. t[c].rule = "message"
    BY <2>2, TypeIsNodes DEF Types
  <2>4. "message" \notin Operand
    BY DEF Operand, SimpleTypes, NumberTypes
  <2>5. Operands(t, c) = Operands(t, b)
    BY <2>1, <2>2, <2>3, <2>4, OperandsStep
  <2>6. Operands(t, c) > p
    BY <2>2, <1>13
  <2> QED BY <2>5, <2>6, <1>13
<1>21. ASSUME NEW e, e.nodes = (Last(h).nodes \o Last(s).nodes) \o <<t[m]>>
       PROVE  StackOf(Append(g, e), t, m)
  <2> DEFINE r == Append(g, e)
  <2> HIDE DEF g, h
  <2>1. /\ ASeq(r) /\ Len(r) = Len(g) + 1
        /\ \A i \in 1 .. Len(g) : r[i] = g[i]
        /\ r[Len(g) + 1] = e
    BY <1>11, Push
  <2>2. Len(g) + 1 = p
    BY <1>9, <1>11
  <2> HIDE DEF r
  <2>3. Len(r) = p /\ r[p] = e /\ \A i \in 1 .. p - 1 : r[i] = s[i]
    BY <2>1, <2>2, <1>11
  <2>4. OnTop(r, s, p)
    <3>1. p \in 1 .. Len(s) + 1
      BY <1>6, <1>8, <1>9
    <3> QED BY <2>1, <2>3, <3>1 DEF OnTop
  <2>5. AtLeast(t, n, m, p)
    <3>1. p >= p
      BY <1>9
    <3>2. \A j \in n + 1 .. m : Operands(t, j) = p
      BY <1>4, <1>17
    <3> QED BY <3>1, <3>2 DEF AtLeast
  <2>6. r[p].nodes = Cut(t, cut[p - 1], m)
    <3>1. e.nodes = (Cut(t, a, b) \o Cut(t, b, n)) \o <<t[m]>>
      BY <1>10, <1>11, <1>13, <1>21
    <3>2. Cut(t, a, b) \o Cut(t, b, n) = Cut(t, a, n)
      BY <1>14, <1>15, CutsTouch
    <3>3. a \in 0 .. n
      OBVIOUS
    <3>4. Cut(t, a, n + 1) = Cut(t, a, n) \o <<t[n + 1]>>
      BY <3>3, <1>15, CutGrows
    <3> QED BY <3>1, <3>2, <3>4, <2>3, <1>3, <1>12
  <2>7. n \in 0 .. Len(t) /\ m \in n + 1 .. Len(t)
    BY <1>4
  <2>8. StackOf(r, t, m)
    BY <1>1, <1>2, <1>17, <2>4, <2>5, <2>6, <2>7, Reduce
  <2> QED BY <2>8 DEF r
<1> QED BY <1>3, <1>14, <1>18, <1>19, <1>20, <1>21 DEF g, h

\* Behind its last node the stack holds the type, and nothing else.
LEMMA WholeType ==
  ASSUME NEW t \in Types, NEW s, StackOf(s, t, Len(t))
  PROVE  s # <<>> /\ Last(s).nodes = t /\ Front(s) = <<>>
<1>1. PICK cut \in [0 .. Len(s) -> 0 .. Len(t)] : StackCut(s, t, Len(t), cut)
  BY DEF StackOf
<1>2. ASeq(s)
  BY DEF StackOf
<1>3. t \in Seq(AllNodes) /\ Len(t) \in Nat
  BY TypeIsNodes
<1>4. Operands(t, Len(t)) = 1
  BY DEF Types
<1>5. Len(s) = 1
  BY <1>1, <1>4 DEF StackCut
<1>6. s[1].nodes = Cut(t, 0, Len(t))
  <2>1. PICK i : i = 1
    OBVIOUS
  <2>2. i \in 1 .. Len(s) /\ i - 1 = 0
    BY <2>1, <1>5
  <2>3. s[i].nodes = Cut(t, cut[i - 1], cut[i])
    BY <2>2, <1>1 DEF StackCut
  <2>4. cut[0] = 0 /\ cut[1] = Len(t)
    BY <1>1, <1>5 DEF StackCut
  <2> QED BY <2>1, <2>2, <2>3, <2>4
<1>7. Cut(t, 0, Len(t)) = t
  <2>1. 0 \in 0 .. Len(t) /\ Len(t) \in 0 .. Len(t)
    BY <1>3
  <2> QED BY <2>1, <1>3, Cuts
<1>8. s # <<>>
  BY <1>5, EmptySeq
<1>9. Last(s) = s[1] /\ ASeq(Front(s)) /\ Len(Front(s)) = 0
  BY <1>2, <1>5, <1>8, Pop
<1>10. Front(s) = <<>>
  BY <1>9, EmptySeq DEF ASeq
<1> QED BY <1>6, <1>7, <1>8, <1>9, <1>10

-----------------------------------------------------------------------------
(* The invariant of parseProtocolDefinition.                               *)

\* The messages above the d-th definition.
Defined(w, d) == {w[j].name : j \in {k \in {i \in DOMAIN w : i < d} : w[k].kind = "message"}}

BadKeys == {"boolean", "list", "map", "message"}

\* What is found out about a field when it is parsed.
TypeChecked(w, d, t, n) ==
  \A i \in 1 .. n :
    /\ t[i].rule = "message" => t[i - 1].text \in Defined(w, d)
    /\ t[i].rule = "map" => t[KeyEnd(t, i)].rule \notin BadKeys

FieldChecked(w, d, field) ==
  /\ field.name \notin ReservedNames
  /\ References(field.type) \subseteq Defined(w, d)
  /\ KeysOf(field.type) \cap BadKeys = {}

FieldsChecked(w, d, list, f) == \A i \in 1 .. f : FieldChecked(w, d, list[i])

DefinitionChecked(w, d) ==
  /\ w[d].name \notin ReservedNames
  /\ FieldsChecked(w, d, w[d].fields, Len(w[d].fields))
  /\ FieldsChecked(w, d, w[d].response, Len(w[d].response))

\* The first f fields that were written.
SameFields(list, written, f) ==
  /\ ASeq(list) /\ Len(list) = f
  /\ \A i \in 1 .. f :
       list[i].type.nodes = written[i].type /\ list[i].name = written[i].name

SameMessages(messages, written) ==
  /\ ASeq(messages) /\ Len(messages) = Len(written)
  /\ \A i \in 1 .. Len(written) :
       /\ messages[i].name = written[i].name
       /\ SameFields(messages[i].fields, written[i].fields, Len(written[i].fields))

SameRequests(requests, written) ==
  /\ ASeq(requests) /\ Len(requests) = Len(written)
  /\ \A i \in 1 .. Len(written) :
       /\ requests[i].name = written[i].name
       /\ SameFields(requests[i].requestFields, written[i].fields, Len(written[i].fields))
       /\ SameFields(requests[i].responseFields, written[i].response, Len(written[i].response))

IsProtocol(p) ==
  p = [fileNamespace |-> p.fileNamespace, messages |-> p.messages, requests |-> p.requests]

\* The protocol after d definitions.
Done(p, w, d) ==
  /\ IsProtocol(p) /\ p.fileNamespace = Namespace
  /\ SameMessages(p.messages, Sel(w, d, "message"))
  /\ SameRequests(p.requests, Sel(w, d, "request"))
  /\ \A i \in 1 .. d : DefinitionChecked(w, i)

\* The stages of the parser.
Start ==
  /\ typeDefinitions = <<>> /\ fields = <<>> /\ requestFields = <<>>
  /\ protocol = [fileNamespace |-> "", messages |-> <<>>, requests |-> <<>>]
  /\ \/ nodes = Nodes(text) /\ tokens = <<>>
     \/ nodes = <<Rule("namespace")>> \o DefinitionsLeft(text, 0) /\ tokens = <<Namespace>>

Between(d) ==
  /\ nodes = DefinitionsLeft(text, d)
  /\ tokens = <<>> /\ typeDefinitions = <<>> /\ fields = <<>> /\ requestFields = <<>>
  /\ Done(protocol, text, d)

InBlock(d, b, f) ==
  /\ Done(protocol, text, d - 1)
  /\ text[d].name \notin ReservedNames
  /\ SameFields(fields, Block(text, d, b), f)
  /\ FieldsChecked(text, d, Block(text, d, b), f)
  /\ IF b = 1 THEN requestFields = <<>>
     ELSE /\ SameFields(requestFields, text[d].fields, Len(text[d].fields))
          /\ FieldsChecked(text, d, text[d].fields, Len(text[d].fields))

BlockEnd(d, b) ==
  /\ InBlock(d, b, Len(Block(text, d, b)))
  /\ nodes = FieldsLeft(text, d, b, Len(Block(text, d, b)))
  /\ tokens = <<text[d].name>> /\ typeDefinitions = <<>>

InType(d, b, f, n) ==
  LET t == Block(text, d, b)[f].type IN
  /\ InBlock(d, b, f - 1)
  /\ nodes = TypeLeft(text, d, b, f, n)
  /\ n # 0 => t[n].rule # "name"
  /\ tokens = <<text[d].name>>
  /\ StackOf(typeDefinitions, t, n)
  /\ TypeChecked(text, d, t, n)

InName(d, b, f, n) ==
  LET t == Block(text, d, b)[f].type IN
  /\ InBlock(d, b, f - 1)
  /\ nodes = TypeLeft(text, d, b, f, n)
  /\ t[n].rule = "name"
  /\ tokens = <<text[d].name, t[n].text>>
  /\ StackOf(typeDefinitions, t, n - 1)
  /\ TypeChecked(text, d, t, n)

InField(d, b, f) ==
  LET field == Block(text, d, b)[f] IN
  /\ InBlock(d, b, f - 1)
  /\ nodes = <<Rule("field")>> \o FieldsLeft(text, d, b, f)
  /\ tokens = <<text[d].name, field.name>>
  /\ StackOf(typeDefinitions, field.type, Len(field.type))
  /\ FieldChecked(text, d, field)

InBlockStage(d, b) ==
  \/ BlockEnd(d, b)
  \/ \E f \in 1 .. Len(Block(text, d, b)) :
       \/ InField(d, b, f)
       \/ \E n \in 0 .. Len(Block(text, d, b)[f].type) :
            InType(d, b, f, n) \/ (n # 0 /\ InName(d, b, f, n))

Parsing ==
  \/ Start
  \/ \E d \in 0 .. Len(text) : Between(d)
  \/ \E d \in 1 .. Len(text), b \in {1, 2} : IsBlock(text, d, b) /\ InBlockStage(d, b)

ParseInv ==
  /\ text \in Texts
  /\ status = "parsing" => Parsing
  /\ status = "rejected" => ~Legal(text)
  /\ status \notin {"parsing", "rejected"} =>
       Legal(text) /\ Between(Len(text)) /\ ValidateProtocolDefinition(protocol)

-----------------------------------------------------------------------------
(* What is legal, and what is validated.                                   *)

\* Where the i-th definition of w is among those of its kind.
LEMMA SelPositions ==
  ASSUME NEW S, NEW w \in Seq(S), NEW kind
  PROVE  \A n \in 0 .. Len(w) :
           /\ Len(Sel(w, n, kind)) \in Nat
           /\ \A i \in 1 .. n : w[i].kind = kind =>
                /\ Len(Sel(w, i, kind)) \in 1 .. Len(Sel(w, n, kind))
                /\ Sel(w, n, kind)[Len(Sel(w, i, kind))] = w[i]
           /\ \A m \in 1 .. Len(Sel(w, n, kind)) :
                \E i \in 1 .. n : w[i].kind = kind /\ Len(Sel(w, i, kind)) = m
           /\ \A i, j \in 1 .. n : w[i].kind = kind /\ w[j].kind = kind /\ i < j =>
                Len(Sel(w, i, kind)) < Len(Sel(w, j, kind))
<1> DEFINE s(n) == Sel(w, n, kind)
           is(i) == w[i].kind = kind
           A(n) == \A i \in 1 .. n : is(i) =>
                     Len(s(i)) \in 1 .. Len(s(n)) /\ s(n)[Len(s(i))] = w[i]
           B(n) == \A m \in 1 .. Len(s(n)) : \E i \in 1 .. n : is(i) /\ Len(s(i)) = m
           C(n) == \A i, j \in 1 .. n : is(i) /\ is(j) /\ i < j => Len(s(i)) < Len(s(j))
           Wrong == {n \in 0 .. Len(w) : ~ (A(n) /\ B(n) /\ C(n))}
<1>1. Len(w) \in Nat
  BY LenProperties
<1>2. /\ s(0) = <<>>
      /\ \A n \in 0 .. Len(w) : s(n) \in Seq(S)
      /\ \A n \in 1 .. Len(w) : s(n) = IF is(n) THEN Append(s(n - 1), w[n]) ELSE s(n - 1)
  BY SelNext
<1>3. \A i \in 1 .. Len(w) : w[i] \in S
  BY ElementOfSeq
<1> HIDE DEF s, is
<1>4. \A n \in 0 .. Len(w) : Len(s(n)) \in Nat
  BY <1>2, LenProperties
<1>5. A(0) /\ B(0) /\ C(0)
  BY <1>2, EmptySeq
<1>6. ASSUME NEW n \in 0 .. Len(w) - 1, A(n), B(n), C(n),
             NEW n1 \in 1 .. Len(w), n1 = n + 1
      PROVE  A(n1) /\ B(n1) /\ C(n1)
  <2> DEFINE k == Len(s(n))
  <2>1. n1 - 1 = n /\ n \in 0 .. Len(w) /\ k \in Nat
    BY <1>1, <1>4, <1>6
  <2>2. CASE is(n1)
    <3>1. s(n1) = Append(s(n), w[n1])
      BY <1>2, <2>1, <2>2
    <3>2. s(n) \in Seq(S) /\ w[n1] \in S
      BY <1>2, <1>3, <2>1
    <3>3. /\ Len(s(n1)) = k + 1
          /\ \A m \in 1 .. k : s(n1)[m] = s(n)[m]
          /\ s(n1)[k + 1] = w[n1]
      BY <3>1, <3>2, AppendProperties
    <3>4. PICK k1 \in Nat : k1 = k + 1
      BY <2>1
    <3>5. Len(s(n1)) = k1 /\ s(n1)[k1] = w[n1]
      BY <3>3, <3>4
    <3>6. ASSUME NEW i \in 1 .. n1, is(i)
          PROVE  Len(s(i)) \in 1 .. k1 /\ s(n1)[Len(s(i))] = w[i]
      <4>1. CASE i = n1
        BY <4>1, <3>4, <3>5, <2>1
      <4>2. CASE i # n1
        <5>1. i \in 1 .. n
          BY <4>2, <1>6
        <5>2. Len(s(i)) \in 1 .. k /\ s(n)[Len(s(i))] = w[i]
          BY <5>1, <3>6, <1>6
        <5>3. Len(s(i)) \in 1 .. k1
          BY <5>2, <3>4, <2>1
        <5> QED BY <5>2, <5>3, <3>3
      <4> QED BY <4>1, <4>2
    <3>7. A(n1)
      BY <3>5, <3>6
    <3>8. ASSUME NEW m \in 1 .. k1 PROVE \E i \in 1 .. n1 : is(i) /\ Len(s(i)) = m
      <4>1. CASE m = k1
        <5>1. n1 \in 1 .. n1
          BY <1>6
        <5> QED BY <5>1, <4>1, <3>5, <2>2
      <4>2. CASE m # k1
        <5>1. m \in 1 .. k
          BY <4>2, <3>4, <2>1
        <5>2. PICK i \in 1 .. n : is(i) /\ Len(s(i)) = m
          BY <5>1, <1>6
        <5>3. i \in 1 .. n1
          BY <1>6
        <5> QED BY <5>2, <5>3
      <4> QED BY <4>1, <4>2
    <3>9. B(n1)
      BY <3>5, <3>8
    <3>10. ASSUME NEW i \in 1 .. n1, NEW j \in 1 .. n1, is(i), is(j), i < j
           PROVE  Len(s(i)) < Len(s(j))
      <4>1. i \in 1 .. n
        BY <3>10, <1>6
      <4>2. CASE j = n1
        <5>1. Len(s(i)) \in 1 .. k
          BY <4>1, <3>10, <1>6
        <5> QED BY <5>1, <4>2, <3>4, <3>5, <2>1
      <4>3. CASE j # n1
        <5>1. j \in 1 .. n
          BY <4>3, <1>6
        <5> QED BY <4>1, <5>1, <3>10, <1>6
      <4> QED BY <4>2, <4>3
    <3>11. C(n1)
      BY <3>10
    <3> QED BY <3>7, <3>9, <3>11
  <2>3. CASE ~ is(n1)
    <3>1. s(n1) = s(n)
      BY <1>2, <2>1, <2>3
    <3>2. \A i \in 1 .. n1 : is(i) => i \in 1 .. n
      <4> SUFFICES ASSUME NEW i \in 1 .. n1, is(i) PROVE i \in 1 .. n
        OBVIOUS
      <4>1. i # n1
        BY <2>3
      <4> QED BY <4>1, <1>6
    <3>3. A(n1)
      BY <3>1, <3>2, <1>6
    <3>4. B(n1)
      <4>1. \A i \in 1 .. n : i \in 1 .. n1
        BY <1>6
      <4> QED BY <3>1, <4>1, <1>6
    <3>5. C(n1)
      BY <3>2, <1>6
    <3> QED BY <3>3, <3>4, <3>5
  <2> QED BY <2>2, <2>3
<1> HIDE DEF A, B, C
<1>7. Wrong = {}
  <2> SUFFICES ASSUME Wrong # {} PROVE FALSE
    OBVIOUS
  <2> DEFINE W == {n \in 1 .. Len(w) : ~ (A(n) /\ B(n) /\ C(n))}
  <2>1. W \in SUBSET (1 .. Len(w)) /\ W # {}
    <3>1. PICK n \in 0 .. Len(w) : ~ (A(n) /\ B(n) /\ C(n))
      OBVIOUS
    <3>2. n # 0
      BY <3>1, <1>5
    <3>3. n \in 1 .. Len(w)
      BY <3>2, <1>1
    <3> QED BY <3>1, <3>3
  <2>2. PICK n \in W : \A m \in W : n <= m
    BY <1>1, <2>1, SmallestElement
  <2>3. n \in 1 .. Len(w) /\ ~ (A(n) /\ B(n) /\ C(n))
    OBVIOUS
  <2>4. PICK p : p = n - 1
    OBVIOUS
  <2>5. p \in 0 .. Len(w) - 1 /\ n = p + 1 /\ ~ (n <= p) /\ (p = 0 \/ p \in 1 .. Len(w))
    BY <2>3, <2>4, <1>1
  <2>6. A(p) /\ B(p) /\ C(p)
    BY <2>2, <2>5, <1>5
  <2> QED BY <2>3, <2>5, <2>6, <1>6
<1>8. \A n \in 0 .. Len(w) : A(n) /\ B(n) /\ C(n)
  BY <1>7
<1> QED BY <1>4, <1>8 DEF A, B, C, s, is

\* The names of the definitions of a kind among the first n.
NamesUpto(w, n, kind) == {w[i].name : i \in {j \in 1 .. n : w[j].kind = kind}}

\* A list has the names of the definitions of a kind, in their order.
SameNames(list, w, n, kind) ==
  /\ ASeq(list) /\ Len(list) = Len(Sel(w, n, kind))
  /\ \A i \in 1 .. Len(list) : list[i].name = Sel(w, n, kind)[i].name

\* The names of a list up to an entry.
LEMMA NamesOfFirst ==
  ASSUME NEW list, ASeq(list)
  PROVE  /\ Len(list) \in Nat /\ DOMAIN list = 1 .. Len(list)
         /\ \A i \in 1 .. Len(list) :
              NamesOf(SubSeq(list, 1, i - 1)) = {list[j].name : j \in 1 .. i - 1}
<1> DEFINE S == {list[i] : i \in DOMAIN list}
<1>1. list \in Seq(S)
  BY DEF ASeq
<1> HIDE DEF S
<1>2. Len(list) \in Nat /\ DOMAIN list = 1 .. Len(list)
  BY <1>1, LenProperties
<1>3. ASSUME NEW i \in 1 .. Len(list)
      PROVE  NamesOf(SubSeq(list, 1, i - 1)) = {list[j].name : j \in 1 .. i - 1}
  <2>1. PICK m \in Nat : m = i - 1
    BY <1>2
  <2> DEFINE r == SubSeq(list, 1, m)
  <2>2. 1 \in Int /\ m \in Int /\ \A j \in 1 .. m : list[j] \in S
    BY <1>1, <1>2, <2>1, ElementOfSeq
  <2>3. /\ r \in Seq(S) /\ Len(r) = (IF 1 <= m THEN m - 1 + 1 ELSE 0)
        /\ \A j \in 1 .. m - 1 + 1 : r[j] = list[1 + j - 1]
    BY <2>2, SubSeqProperties
  <2>4. (IF 1 <= m THEN m - 1 + 1 ELSE 0) = m /\ \A j \in 1 .. m : j \in 1 .. m - 1 + 1 /\ 1 + j - 1 = j
    BY <2>1
  <2> HIDE DEF r
  <2>5. \A j \in 1 .. m : r[j] = list[j]
    BY <2>3, <2>4
  <2>6. DOMAIN r = 1 .. m
    BY <2>3, <2>4, LenProperties
  <2>7. NamesOf(r) = {list[j].name : j \in 1 .. m}
    BY <2>5, <2>6 DEF NamesOf
  <2> QED BY <2>1, <2>7 DEF r
<1> QED BY <1>2, <1>3

\* The names of such a list, all and above one of its definitions.
LEMMA NamesAbove ==
  ASSUME NEW S, NEW w \in Seq(S), NEW n \in 0 .. Len(w), NEW kind, NEW list,
         SameNames(list, w, n, kind)
  PROVE  /\ NamesOf(list) = NamesUpto(w, n, kind)
         /\ DOMAIN list = 1 .. Len(list) /\ Len(list) \in Nat
         /\ \A m \in DOMAIN list :
              \E i \in 1 .. n : w[i].kind = kind /\ Len(Sel(w, i, kind)) = m
         /\ \A i \in 1 .. n : w[i].kind = kind =>
              /\ Len(Sel(w, i, kind)) \in DOMAIN list
              /\ Sel(w, n, kind)[Len(Sel(w, i, kind))] = w[i]
              /\ list[Len(Sel(w, i, kind))].name = w[i].name
              /\ NamesOf(SubSeq(list, 1, Len(Sel(w, i, kind)) - 1)) = NamesUpto(w, i - 1, kind)
<1> DEFINE pos(i) == Len(Sel(w, i, kind))
           is(i) == w[i].kind = kind
<1>1. ASeq(list) /\ Len(list) = pos(n) /\ \A m \in 1 .. Len(list) : list[m].name = Sel(w, n, kind)[m].name
  BY DEF SameNames
<1>2. /\ Len(list) \in Nat /\ DOMAIN list = 1 .. Len(list)
      /\ \A m \in 1 .. Len(list) :
           NamesOf(SubSeq(list, 1, m - 1)) = {list[j].name : j \in 1 .. m - 1}
  BY <1>1, NamesOfFirst
<1>3. /\ \A i \in 1 .. n : is(i) => pos(i) \in 1 .. pos(n) /\ Sel(w, n, kind)[pos(i)] = w[i]
      /\ \A m \in 1 .. pos(n) : \E i \in 1 .. n : is(i) /\ pos(i) = m
      /\ \A i, j \in 1 .. n : is(i) /\ is(j) /\ i < j => pos(i) < pos(j)
  BY SelPositions
<1> HIDE DEF pos, is
<1>4. ASSUME NEW i \in 1 .. n, is(i)
      PROVE  pos(i) \in DOMAIN list /\ list[pos(i)].name = w[i].name
  BY <1>1, <1>2, <1>3, <1>4
<1>5. ASSUME NEW m \in DOMAIN list PROVE \E i \in 1 .. n : is(i) /\ pos(i) = m
  BY <1>1, <1>2, <1>3
<1>6. NamesOf(list) = NamesUpto(w, n, kind)
  <2>1. ASSUME NEW m \in DOMAIN list PROVE list[m].name \in NamesUpto(w, n, kind)
    <3>1. PICK i \in 1 .. n : is(i) /\ pos(i) = m
      BY <1>5
    <3>2. list[m].name = w[i].name
      BY <3>1, <1>4
    <3> QED BY <3>1, <3>2 DEF NamesUpto, is
  <2>2. ASSUME NEW i \in 1 .. n, is(i) PROVE w[i].name \in NamesOf(list)
    BY <2>2, <1>4 DEF NamesOf
  <2>3. NamesOf(list) \subseteq NamesUpto(w, n, kind)
    BY <2>1 DEF NamesOf
  <2>4. NamesUpto(w, n, kind) \subseteq NamesOf(list)
    BY <2>2 DEF NamesUpto, is
  <2> QED BY <2>3, <2>4
<1>7. ASSUME NEW i \in 1 .. n, is(i)
      PROVE  NamesOf(SubSeq(list, 1, pos(i) - 1)) = NamesUpto(w, i - 1, kind)
  <2>1. pos(i) \in 1 .. Len(list) /\ n \in Nat /\ pos(i) \in Nat
    BY <1>1, <1>2, <1>3, <1>7
  <2>2. NamesOf(SubSeq(list, 1, pos(i) - 1)) = {list[j].name : j \in 1 .. pos(i) - 1}
    BY <1>2, <2>1
  <2>3. ASSUME NEW m \in 1 .. pos(i) - 1 PROVE list[m].name \in NamesUpto(w, i - 1, kind)
    <3>1. m \in DOMAIN list /\ m < pos(i)
      BY <1>2, <2>1
    <3>2. PICK j \in 1 .. n : is(j) /\ pos(j) = m
      BY <1>5, <3>1
    <3>3. j < i
      <4>1. j # i
        BY <3>1, <3>2
      <4>2. ~ (i < j)
        <5>1. i < j => pos(i) < pos(j)
          BY <1>3, <1>7, <3>2
        <5>2. m \in Nat
          BY <2>1
        <5> QED BY <5>1, <5>2, <3>1, <3>2, <2>1
      <4> QED BY <4>1, <4>2, <2>1
    <3>4. j \in 1 .. i - 1
      BY <3>3, <2>1
    <3>5. list[m].name = w[j].name
      BY <3>2, <1>4
    <3> QED BY <3>2, <3>4, <3>5 DEF NamesUpto, is
  <2>4. ASSUME NEW j \in 1 .. i - 1, is(j)
        PROVE  w[j].name \in {list[m].name : m \in 1 .. pos(i) - 1}
    <3>1. j \in 1 .. n /\ j < i
      BY <2>1
    <3>2. pos(j) < pos(i) /\ pos(j) \in DOMAIN list /\ list[pos(j)].name = w[j].name
      BY <3>1, <2>4, <1>3, <1>4, <1>7
    <3>3. pos(j) \in 1 .. pos(i) - 1
      BY <3>2, <2>1, <1>2
    <3> QED BY <3>2, <3>3
  <2>5. NamesUpto(w, i - 1, kind) \subseteq {list[m].name : m \in 1 .. pos(i) - 1}
    BY <2>4 DEF NamesUpto, is
  <2>6. {list[m].name : m \in 1 .. pos(i) - 1} \subseteq NamesUpto(w, i - 1, kind)
    BY <2>3
  <2> QED BY <2>2, <2>5, <2>6
<1> QED BY <1>2, <1>3, <1>4, <1>5, <1>6, <1>7 DEF pos, is

UniqueNames(list) == \A i, j \in DOMAIN list : list[i].name = list[j].name => i = j

\* Legal, definition by definition.
LEMMA LegalParts ==
  ASSUME NEW w \in Seq(Definitions)
  PROVE  Legal(w) <=> \A d \in 1 .. Len(w) :
                        /\ DefinitionChecked(w, d)
                        /\ UniqueNames(w[d].fields) /\ UniqueNames(w[d].response)
                        /\ \A j \in 1 .. d - 1 : w[j].name # w[d].name
<1>1. Len(w) \in Nat /\ DOMAIN w = 1 .. Len(w)
  BY LenProperties
<1>2. ASSUME NEW list \in FieldLists, NEW d
      PROVE  FieldsLegal(list, Defined(w, d))
               <=> FieldsChecked(w, d, list, Len(list)) /\ UniqueNames(list)
  <2>1. DOMAIN list = 1 .. Len(list)
    BY FieldWritten
  <2> QED BY <2>1 DEF FieldsLegal, FieldsChecked, FieldChecked, UniqueNames, BadKeys
<1> DEFINE above(d) == {j \in DOMAIN w : j < d}
           legal(d) == /\ w[d].name \notin ReservedNames \cup {w[j].name : j \in above(d)}
                       /\ FieldsLegal(w[d].fields, Defined(w, d))
                       /\ FieldsLegal(w[d].response, Defined(w, d))
<1>3. Legal(w) <=> \A d \in DOMAIN w : legal(d)
  BY DEF Legal, Defined
<1>4. ASSUME NEW d \in 1 .. Len(w)
      PROVE  above(d) = 1 .. d - 1
  BY <1>1
<1>5. ASSUME NEW d \in 1 .. Len(w)
      PROVE  legal(d) <=> /\ DefinitionChecked(w, d)
                          /\ UniqueNames(w[d].fields) /\ UniqueNames(w[d].response)
                          /\ \A j \in 1 .. d - 1 : w[j].name # w[d].name
  <2>1. w[d].fields \in FieldLists /\ w[d].response \in FieldLists
    BY DefinitionWritten
  <2>2. /\ FieldsLegal(w[d].fields, Defined(w, d))
             <=> FieldsChecked(w, d, w[d].fields, Len(w[d].fields)) /\ UniqueNames(w[d].fields)
        /\ FieldsLegal(w[d].response, Defined(w, d))
             <=> FieldsChecked(w, d, w[d].response, Len(w[d].response)) /\ UniqueNames(w[d].response)
    BY <2>1, <1>2
  <2>3. w[d].name \notin {w[j].name : j \in above(d)}
          <=> \A j \in 1 .. d - 1 : w[j].name # w[d].name
    BY <1>4
  <2> HIDE DEF above
  <2> QED BY <2>2, <2>3 DEF DefinitionChecked
<1> HIDE DEF legal
<1> QED BY <1>1, <1>3, <1>5

\* The fields of a block that has been checked, as they are validated.
LEMMA FieldsValidated ==
  ASSUME NEW w, NEW d, NEW written \in FieldLists, NEW list, SameFields(list, written, Len(written)),
         FieldsChecked(w, d, written, Len(written)), NEW names, NEW name
  PROVE  /\ ValidateFieldDefinitions(list, names, name) => UniqueNames(written)
         /\ UniqueNames(written) /\ Defined(w, d) \subseteq names \ {name}
              => ValidateFieldDefinitions(list, names, name)
<1>1. /\ Len(list) \in Nat /\ DOMAIN list = 1 .. Len(list)
      /\ \A i \in 1 .. Len(list) :
           NamesOf(SubSeq(list, 1, i - 1)) = {list[j].name : j \in 1 .. i - 1}
  BY NamesOfFirst DEF SameFields
<1>2. DOMAIN written = 1 .. Len(written) /\ Len(list) = Len(written)
  BY FieldWritten DEF SameFields
<1>3. \A i \in 1 .. Len(written) :
        list[i].type.nodes = written[i].type /\ list[i].name = written[i].name
  BY DEF SameFields
<1>4. ASSUME ValidateFieldDefinitions(list, names, name) PROVE UniqueNames(written)
  <2>1. ASSUME NEW i \in 1 .. Len(list), NEW j \in 1 .. Len(list), i < j
        PROVE  written[i].name # written[j].name
    <3>1. list[j].name \notin {list[k].name : k \in 1 .. j - 1}
      BY <1>1, <1>4 DEF ValidateFieldDefinitions
    <3>2. i \in 1 .. j - 1
      BY <1>1, <2>1
    <3> QED BY <3>1, <3>2, <1>2, <1>3
  <2>2. \A i, j \in 1 .. Len(list) : i # j => i < j \/ j < i
    BY <1>1
  <2> QED BY <2>1, <2>2, <1>2 DEF UniqueNames
<1>5. ASSUME UniqueNames(written), Defined(w, d) \subseteq names \ {name}
      PROVE  ValidateFieldDefinitions(list, names, name)
  <2>1. ASSUME NEW i \in 1 .. Len(list)
        PROVE  /\ References(list[i].type.nodes) \subseteq names \ {name}
               /\ list[i].name \notin NamesOf(SubSeq(list, 1, i - 1))
    <3>1. References(written[i].type) \subseteq Defined(w, d)
      BY <1>2 DEF FieldsChecked, FieldChecked
    <3>2. list[i].type.nodes = written[i].type
      BY <1>2, <1>3
    <3>3. ASSUME NEW j \in 1 .. i - 1 PROVE list[j].name # list[i].name
      <4>1. j \in 1 .. Len(list) /\ j # i
        BY <1>1
      <4>2. written[i].name # written[j].name
        BY <4>1, <1>2, <1>5 DEF UniqueNames
      <4> QED BY <4>1, <4>2, <1>2, <1>3
    <3> QED BY <3>1, <3>2, <3>3, <1>1, <1>5
  <2> QED BY <2>1, <1>1 DEF ValidateFieldDefinitions
<1> QED BY <1>4, <1>5

\* The lists of a protocol that is done.
LEMMA DoneNames ==
  ASSUME NEW w \in Seq(Definitions), NEW n \in 0 .. Len(w), NEW p, Done(p, w, n)
  PROVE  /\ SameNames(p.messages, w, n, "message")
         /\ SameNames(p.requests, w, n, "request")
         /\ \A i \in 1 .. n : w[i].kind = "message" =>
              SameFields(p.messages[Len(Sel(w, i, "message"))].fields, w[i].fields,
                         Len(w[i].fields))
         /\ \A i \in 1 .. n : w[i].kind = "request" =>
              /\ SameFields(p.requests[Len(Sel(w, i, "request"))].requestFields, w[i].fields,
                            Len(w[i].fields))
              /\ SameFields(p.requests[Len(Sel(w, i, "request"))].responseFields, w[i].response,
                            Len(w[i].response))
<1> DEFINE m == Sel(w, n, "message")
           r == Sel(w, n, "request")
<1>1. SameMessages(p.messages, m) /\ SameRequests(p.requests, r)
  BY DEF Done
<1>2. SameNames(p.messages, w, n, "message") /\ SameNames(p.requests, w, n, "request")
  BY <1>1 DEF SameNames, SameMessages, SameRequests
<1>3. ASSUME NEW i \in 1 .. n, w[i].kind = "message"
      PROVE  SameFields(p.messages[Len(Sel(w, i, "message"))].fields, w[i].fields,
                        Len(w[i].fields))
  <2>1. /\ Len(Sel(w, i, "message")) \in 1 .. Len(m)
        /\ m[Len(Sel(w, i, "message"))] = w[i]
    BY <1>3, SelPositions
  <2>2. PICK k \in 1 .. Len(m) : k = Len(Sel(w, i, "message")) /\ m[k] = w[i]
    BY <2>1
  <2> HIDE DEF m
  <2>3. SameFields(p.messages[k].fields, m[k].fields, Len(m[k].fields))
    BY <1>1 DEF SameMessages
  <2> QED BY <2>2, <2>3
<1>4. ASSUME NEW i \in 1 .. n, w[i].kind = "request"
      PROVE  /\ SameFields(p.requests[Len(Sel(w, i, "request"))].requestFields, w[i].fields,
                           Len(w[i].fields))
             /\ SameFields(p.requests[Len(Sel(w, i, "request"))].responseFields, w[i].response,
                           Len(w[i].response))
  <2>1. /\ Len(Sel(w, i, "request")) \in 1 .. Len(r)
        /\ r[Len(Sel(w, i, "request"))] = w[i]
    BY <1>4, SelPositions
  <2>2. PICK k \in 1 .. Len(r) : k = Len(Sel(w, i, "request")) /\ r[k] = w[i]
    BY <2>1
  <2> HIDE DEF r
  <2>3. /\ SameFields(p.requests[k].requestFields, r[k].fields, Len(r[k].fields))
        /\ SameFields(p.requests[k].responseFields, r[k].response, Len(r[k].response))
    BY <1>1 DEF SameRequests
  <2> QED BY <2>2, <2>3
<1> QED BY <1>2, <1>3, <1>4

\* The names of the messages above a definition.
LEMMA DefinedIs ==
  ASSUME NEW w \in Seq(Definitions), NEW d \in 1 .. Len(w)
  PROVE  Defined(w, d) = NamesUpto(w, d - 1, "message")
<1>1. Len(w) \in Nat /\ DOMAIN w = 1 .. Len(w)
  BY LenProperties
<1>2. {i \in DOMAIN w : i < d} = 1 .. d - 1
  BY <1>1
<1> QED BY <1>2 DEF Defined, NamesUpto

\* When all definitions were parsed, the validation finds what is not legal.
LEMMA ValidatesIfLegal ==
  ASSUME NEW w \in Seq(Definitions), NEW p, Done(p, w, Len(w))
  PROVE  ValidateProtocolDefinition(p) <=> Legal(w)
<1> DEFINE n == Len(w)
           M == p.messages
           R == p.requests
           mpos(i) == Len(Sel(w, i, "message"))
           rpos(i) == Len(Sel(w, i, "request"))
           m(i) == w[i].kind = "message"
           r(i) == w[i].kind = "request"
           names == NamesOf(M)
           vm(k) == /\ M[k].name \notin NamesOf(SubSeq(M, 1, k - 1))
                    /\ ValidateFieldDefinitions(M[k].fields,
                         NamesOf(SubSeq(M, 1, k - 1)) \cup {M[k].name}, M[k].name)
           vr(k) == /\ R[k].name \notin names \cup NamesOf(SubSeq(R, 1, k - 1))
                    /\ ValidateFieldDefinitions(R[k].requestFields, names, R[k].name)
                    /\ ValidateFieldDefinitions(R[k].responseFields, names, R[k].name)
<1>1. n \in Nat /\ n \in 0 .. Len(w)
  BY DefinitionWritten
<1>2. /\ SameNames(M, w, n, "message") /\ SameNames(R, w, n, "request")
      /\ \A i \in 1 .. n : m(i) => SameFields(M[mpos(i)].fields, w[i].fields, Len(w[i].fields))
      /\ \A i \in 1 .. n : r(i) =>
           /\ SameFields(R[rpos(i)].requestFields, w[i].fields, Len(w[i].fields))
           /\ SameFields(R[rpos(i)].responseFields, w[i].response, Len(w[i].response))
  BY <1>1, DoneNames
<1>3. /\ names = NamesUpto(w, n, "message")
      /\ \A k \in DOMAIN M : \E i \in 1 .. n : m(i) /\ mpos(i) = k
      /\ \A i \in 1 .. n : m(i) =>
           /\ mpos(i) \in DOMAIN M /\ M[mpos(i)].name = w[i].name
           /\ NamesOf(SubSeq(M, 1, mpos(i) - 1)) = NamesUpto(w, i - 1, "message")
  BY <1>1, <1>2, NamesAbove
<1>4. /\ \A k \in DOMAIN R : \E i \in 1 .. n : r(i) /\ rpos(i) = k
      /\ \A i \in 1 .. n : r(i) =>
           /\ rpos(i) \in DOMAIN R /\ R[rpos(i)].name = w[i].name
           /\ NamesOf(SubSeq(R, 1, rpos(i) - 1)) = NamesUpto(w, i - 1, "request")
  BY <1>1, <1>2, NamesAbove
<1>5. \A i \in 1 .. n : DefinitionChecked(w, i)
  BY DEF Done
<1>6. \A i \in 1 .. n : (m(i) \/ r(i)) /\ ~ (m(i) /\ r(i)) /\ (m(i) => w[i].response = <<>>)
        /\ w[i].fields \in FieldLists /\ w[i].response \in FieldLists
  BY DefinitionWritten
<1>7. Legal(w) <=> \A d \in 1 .. n :
                     /\ UniqueNames(w[d].fields) /\ UniqueNames(w[d].response)
                     /\ \A j \in 1 .. d - 1 : w[j].name # w[d].name
  BY <1>5, LegalParts
<1>8. ValidateProtocolDefinition(p) <=> (\A k \in DOMAIN M : vm(k)) /\ (\A k \in DOMAIN R : vr(k))
  BY DEF ValidateProtocolDefinition, ValidateMessageDefinitions, ValidateRequestDefinitions
<1>9. \A i \in 1 .. n : Defined(w, i) = NamesUpto(w, i - 1, "message")
  BY DefinedIs
<1> HIDE DEF n, M, R, mpos, rpos, names
<1>10. ASSUME Legal(w), NEW i \in 1 .. n, m(i) PROVE vm(mpos(i))
  <2> DEFINE above == NamesUpto(w, i - 1, "message")
  <2>1. w[i].name \notin above
    BY <1>7, <1>10 DEF NamesUpto
  <2>2. Defined(w, i) \subseteq (above \cup {w[i].name}) \ {w[i].name}
    BY <2>1, <1>9
  <2>3. FieldsChecked(w, i, w[i].fields, Len(w[i].fields)) /\ UniqueNames(w[i].fields)
    BY <1>5, <1>7, <1>10 DEF DefinitionChecked
  <2> HIDE DEF above
  <2>4. ValidateFieldDefinitions(M[mpos(i)].fields, above \cup {w[i].name}, w[i].name)
    BY <1>2, <1>6, <1>10, <2>2, <2>3, FieldsValidated
  <2> QED BY <1>3, <1>10, <2>1, <2>4 DEF above
<1>11. ASSUME Legal(w), NEW i \in 1 .. n, r(i) PROVE vr(rpos(i))
  <2>1. ASSUME NEW j \in 1 .. n, j # i PROVE w[j].name # w[i].name
    <3>1. j \in 1 .. i - 1 \/ i \in 1 .. j - 1
      BY <2>1, <1>1
    <3> QED BY <3>1, <1>7, <1>11
  <2>2. w[i].name \notin names
    <3>1. \A j \in 1 .. n : m(j) => j # i
      BY <1>6, <1>11
    <3> QED BY <3>1, <2>1, <1>3 DEF NamesUpto
  <2>3. w[i].name \notin NamesUpto(w, i - 1, "request")
    BY <1>7, <1>11 DEF NamesUpto
  <2>4. Defined(w, i) \subseteq names \ {w[i].name}
    <3>1. \A j \in 1 .. i - 1 : j \in 1 .. n
      BY <1>1
    <3>2. Defined(w, i) \subseteq names
      BY <3>1, <1>3, <1>9 DEF NamesUpto
    <3> QED BY <2>2, <3>2
  <2>5. /\ FieldsChecked(w, i, w[i].fields, Len(w[i].fields)) /\ UniqueNames(w[i].fields)
        /\ FieldsChecked(w, i, w[i].response, Len(w[i].response)) /\ UniqueNames(w[i].response)
    BY <1>5, <1>7, <1>11 DEF DefinitionChecked
  <2>6. ValidateFieldDefinitions(R[rpos(i)].requestFields, names, w[i].name)
    BY <1>2, <1>6, <1>11, <2>4, <2>5, FieldsValidated
  <2>7. ValidateFieldDefinitions(R[rpos(i)].responseFields, names, w[i].name)
    BY <1>2, <1>6, <1>11, <2>4, <2>5, FieldsValidated
  <2> QED BY <1>4, <1>11, <2>2, <2>3, <2>6, <2>7
<1>12. ASSUME Legal(w) PROVE ValidateProtocolDefinition(p)
  <2>1. \A k \in DOMAIN M : vm(k)
    <3> TAKE k \in DOMAIN M
    <3>1. PICK i \in 1 .. n : m(i) /\ mpos(i) = k
      BY <1>3
    <3> HIDE DEF vm
    <3> QED BY <3>1, <1>10, <1>12
  <2>2. \A k \in DOMAIN R : vr(k)
    <3> TAKE k \in DOMAIN R
    <3>1. PICK i \in 1 .. n : r(i) /\ rpos(i) = k
      BY <1>4
    <3> HIDE DEF vr
    <3> QED BY <3>1, <1>11, <1>12
  <2> HIDE DEF vm, vr
  <2> QED BY <2>1, <2>2, <1>8
<1>13. ASSUME ValidateProtocolDefinition(p) PROVE Legal(w)
  <2>1. ASSUME NEW i \in 1 .. n, m(i)
        PROVE  /\ w[i].name \notin NamesUpto(w, i - 1, "message")
               /\ UniqueNames(w[i].fields) /\ UniqueNames(w[i].response)
    <3>1. vm(mpos(i))
      <4> HIDE DEF vm
      <4> QED BY <2>1, <1>3, <1>8, <1>13
    <3>2. w[i].name \notin NamesUpto(w, i - 1, "message")
      BY <3>1, <2>1, <1>3
    <3>3. FieldsChecked(w, i, w[i].fields, Len(w[i].fields))
      BY <1>5 DEF DefinitionChecked
    <3>4. UniqueNames(w[i].fields)
      BY <1>2, <1>6, <2>1, <3>1, <3>3, FieldsValidated
    <3>5. UniqueNames(w[i].response)
      BY <1>6, <2>1, EmptySeq DEF UniqueNames
    <3> QED BY <3>2, <3>4, <3>5
  <2>2. ASSUME NEW i \in 1 .. n, r(i)
        PROVE  /\ w[i].name \notin names \cup NamesUpto(w, i - 1, "request")
               /\ UniqueNames(w[i].fields) /\ UniqueNames(w[i].response)
    <3>1. vr(rpos(i))
      <4> HIDE DEF vr
      <4> QED BY <2>2, <1>4, <1>8, <1>13
    <3>2. w[i].name \notin names \cup NamesUpto(w, i - 1, "request")
      BY <3>1, <2>2, <1>4
    <3>3. /\ FieldsChecked(w, i, w[i].fields, Len(w[i].fields))
          /\ FieldsChecked(w, i, w[i].response, Len(w[i].response))
      BY <1>5 DEF DefinitionChecked
    <3>4. UniqueNames(w[i].fields)
      BY <1>2, <1>6, <2>2, <3>1, <3>3, FieldsValidated
    <3>5. UniqueNames(w[i].response)
      BY <1>2, <1>6, <2>2, <3>1, <3>3, FieldsValidated
    <3> QED BY <3>2, <3>4, <3>5
  <2>3. ASSUME NEW d \in 1 .. n, NEW j \in 1 .. d - 1 PROVE w[j].name # w[d].name
    <3>1. j \in 1 .. n /\ d - 1 \in Nat
      BY <1>1
    <3>2. CASE m(d) /\ m(j)
      BY <3>2, <2>1 DEF NamesUpto
    <3>3. CASE r(d) /\ r(j)
      BY <3>3, <2>2 DEF NamesUpto
    <3>4. CASE r(d) /\ m(j)
      BY <3>1, <3>4, <2>2, <1>3 DEF NamesUpto
    <3>5. CASE m(d) /\ r(j)
      <4>1. w[d].name \in names
        BY <3>5, <1>3 DEF NamesUpto
      <4>2. w[j].name \notin names
        BY <3>1, <3>5, <2>2
      <4> QED BY <4>1, <4>2
    <3> QED BY <3>1, <3>2, <3>3, <3>4, <3>5, <1>6
  <2> QED BY <2>1, <2>2, <2>3, <1>6, <1>7
<1> QED BY <1>12, <1>13

-----------------------------------------------------------------------------
(* The steps of the parser.                                                *)

\* The next node says which action is taken.
LEMMA NextByRule ==
  ASSUME DefinitionNext, nodes # <<>>
  PROVE  LET rule == Head(nodes).rule IN
         /\ status = "parsing" /\ text' = text
         /\ \/ rule \in {"module", "name"} /\ TakeToken(rule)
            \/ rule = "namespace" /\ ReduceNamespace
            \/ rule = "messageDefinition" /\ ReduceMessage
            \/ rule = "requestDefinition" /\ ReduceRequest
            \/ rule = "requestFields" /\ ReduceRequestFields
            \/ rule = "field" /\ ReduceField
            \/ rule = "list" /\ ReduceList
            \/ rule = "map" /\ ReduceMap
            \/ rule = "message" /\ ReduceName
            \/ rule \in SimpleTypes /\ ReduceSimple(rule)
<1>1. ASSUME NEW rule, Takes(rule)
      PROVE  Head(nodes).rule = rule /\ status = "parsing" /\ text' = text
  BY <1>1 DEF Takes
<1>2. CASE \E symbol \in {"module", "name"} : TakeToken(symbol)
  <2>1. PICK symbol \in {"module", "name"} : TakeToken(symbol)
    BY <1>2
  <2>2. Takes(symbol)
    BY <2>1 DEF TakeToken
  <2> QED BY <1>1, <2>1, <2>2
<1>3. CASE ReduceNamespace
  BY <1>1, <1>3 DEF ReduceNamespace
<1>4. CASE ReduceMessage
  BY <1>1, <1>4 DEF ReduceMessage
<1>5. CASE ReduceRequest
  BY <1>1, <1>5 DEF ReduceRequest
<1>6. CASE ReduceRequestFields
  BY <1>1, <1>6 DEF ReduceRequestFields
<1>7. CASE ReduceField
  BY <1>1, <1>7 DEF ReduceField
<1>8. CASE ReduceList
  BY <1>1, <1>8 DEF ReduceList
<1>9. CASE ReduceMap
  BY <1>1, <1>9 DEF ReduceMap
<1>10. CASE ReduceName
  BY <1>1, <1>10 DEF ReduceName
<1>11. CASE \E type \in SimpleTypes : ReduceSimple(type)
  <2>1. PICK type \in SimpleTypes : ReduceSimple(type)
    BY <1>11
  <2>2. Takes(type)
    BY <2>1 DEF ReduceSimple
  <2> QED BY <1>1, <2>1, <2>2
<1>12. CASE Validate
  BY <1>12 DEF Validate
<1> QED BY <1>2, <1>3, <1>4, <1>5, <1>6, <1>7, <1>8, <1>9, <1>10, <1>11, <1>12 DEF DefinitionNext

\* What a node holds.
LEMMA NodeHolds ==
  /\ Node("module", Namespace).rule = "module" /\ Node("module", Namespace).text = Namespace
  /\ \A r : Rule(r).rule = r
  /\ \A x : Name(x).rule = "name" /\ Name(x).text = x
BY DEF Rule, Name, Node

\* After what is before every definition.
LEMMA StartStep ==
  ASSUME text \in Seq(Definitions), Start, DefinitionNext
  PROVE  status' = "parsing" /\ text' = text /\ (Start' \/ Between(0)')
<1>1. /\ Nodes(text) # <<>>
      /\ Head(Nodes(text)) = Node("module", Namespace)
      /\ Tail(Nodes(text)) = <<Rule("namespace")>> \o DefinitionsLeft(text, 0)
      /\ <<Rule("namespace")>> \o DefinitionsLeft(text, 0) # <<>>
      /\ Head(<<Rule("namespace")>> \o DefinitionsLeft(text, 0)) = Rule("namespace")
      /\ Tail(<<Rule("namespace")>> \o DefinitionsLeft(text, 0)) = DefinitionsLeft(text, 0)
  BY DefinitionPositions
<1>2. CASE nodes = Nodes(text) /\ tokens = <<>>
  <2>1. nodes # <<>> /\ Head(nodes).rule = "module" /\ Head(nodes).text = Namespace
    BY <1>1, <1>2, NodeHolds
  <2>2. TakeToken("module") /\ status = "parsing"
    BY <2>1, NextByRule DEF SimpleTypes, NumberTypes
  <2>3. /\ tokens' = Append(tokens, Namespace) /\ nodes' = Tail(nodes)
        /\ UNCHANGED <<text, status, typeDefinitions, fields, requestFields, protocol>>
    BY <2>1, <2>2 DEF TakeToken, Takes
  <2>4. tokens' = <<Namespace>>
    BY <1>2, <2>3, Tokens
  <2>5. nodes' = <<Rule("namespace")>> \o DefinitionsLeft(text', 0)
    BY <1>1, <1>2, <2>3
  <2> QED BY <2>2, <2>3, <2>4, <2>5 DEF Start
<1>3. CASE nodes = <<Rule("namespace")>> \o DefinitionsLeft(text, 0) /\ tokens = <<Namespace>>
  <2>1. nodes # <<>> /\ Head(nodes).rule = "namespace"
    BY <1>1, <1>3, NodeHolds
  <2>2. ReduceNamespace /\ status = "parsing"
    BY <2>1, NextByRule DEF SimpleTypes, NumberTypes
  <2>3. /\ tokens' = Front(tokens) /\ nodes' = Tail(nodes)
        /\ protocol' = [protocol EXCEPT !.fileNamespace = Last(tokens)]
        /\ UNCHANGED <<text, status, typeDefinitions, fields, requestFields>>
    BY <2>2 DEF ReduceNamespace, Takes
  <2>4. tokens' = <<>> /\ Last(tokens) = Namespace
    BY <1>3, <2>3, Tokens
  <2>5. nodes' = DefinitionsLeft(text', 0)
    BY <1>1, <1>3, <2>3
  <2>6. protocol' = [fileNamespace |-> Namespace, messages |-> <<>>, requests |-> <<>>]
    BY <2>3, <2>4 DEF Start
  <2>7. ASSUME NEW p, p = [fileNamespace |-> Namespace, messages |-> <<>>, requests |-> <<>>]
        PROVE  Done(p, text, 0)
    <3>1. p.fileNamespace = Namespace /\ p.messages = <<>> /\ p.requests = <<>>
      BY <2>7
    <3>2. Sel(text, 0, "message") = <<>> /\ Sel(text, 0, "request") = <<>>
      BY SelNext
    <3>3. ASeq(<<>>) /\ Len(<<>>) = 0
      BY EmptySeq, ASeqOf
    <3>4. SameMessages(<<>>, <<>>) /\ SameRequests(<<>>, <<>>)
      BY <3>3 DEF SameMessages, SameRequests
    <3> QED BY <2>7, <3>1, <3>2, <3>4 DEF Done, IsProtocol
  <2>8. Done(protocol', text', 0)
    BY <2>3, <2>6, <2>7
  <2> QED BY <2>2, <2>3, <2>4, <2>5, <2>8 DEF Start, Between
<1> QED BY <1>2, <1>3 DEF Start

\* Behind f fields of a block.
AtField(d, b, f) ==
  /\ InBlock(d, b, f)
  /\ nodes = FieldsLeft(text, d, b, f)
  /\ tokens = <<text[d].name>> /\ typeDefinitions = <<>>

\* Then the block is over or the next type begins.
LEMMA AtFieldStage ==
  ASSUME text' \in Seq(Definitions), NEW d \in 1 .. Len(text'), NEW b, IsBlock(text', d, b),
         NEW f \in 0 .. Len(Block(text', d, b)), AtField(d, b, f)'
  PROVE  InBlockStage(d, b)'
<1> DEFINE list == Block(text', d, b)
<1>1. Len(list) \in Nat /\ \A i \in 1 .. Len(list) : list[i].type \in Types
  BY FieldPositions
<1>2. CASE f = Len(list)
  <2>1. BlockEnd(d, b)'
    BY <1>2 DEF AtField, BlockEnd
  <2> QED BY <2>1 DEF InBlockStage
<1>3. CASE f # Len(list)
  <2>1. PICK g \in 1 .. Len(list) : g - 1 = f
    <3>1. f + 1 \in 1 .. Len(list) /\ f + 1 - 1 = f
      BY <1>1, <1>3
    <3> QED BY <3>1
  <2>2. PICK t \in Types : t = list[g].type
    BY <1>1
  <2>3. FieldsLeft(text', d, b, g - 1) = TypeLeft(text', d, b, g, 0)
    BY <2>2, TypePositions
  <2>4. InBlock(d, b, g - 1)' /\ nodes' = TypeLeft(text', d, b, g, 0)
        /\ tokens' = <<text'[d].name>> /\ typeDefinitions' = <<>>
    BY <2>1, <2>3 DEF AtField
  <2>5. StackOf(typeDefinitions', t, 0)
    BY <2>4, NoTypes
  <2>6. TypeChecked(text', d, t, 0)
    BY DEF TypeChecked
  <2>7. InType(d, b, g, 0)'
    BY <2>2, <2>4, <2>5, <2>6 DEF InType
  <2>8. 0 \in 0 .. Len(list[g].type)
    BY <2>2, TypeIsNodes
  <2> QED BY <2>1, <2>7, <2>8 DEF InBlockStage
<1> QED BY <1>2, <1>3

\* No fields.
LEMMA NoFields ==
  ASSUME NEW w, NEW d, NEW list
  PROVE  SameFields(<<>>, list, 0) /\ FieldsChecked(w, d, list, 0)
<1>1. ASeq(<<>>) /\ Len(<<>>) = 0
  BY EmptySeq, ASeqOf
<1> QED BY <1>1 DEF SameFields, FieldsChecked

\* After the name of a definition its first block begins.
LEMMA BetweenStep ==
  ASSUME text \in Seq(Definitions), NEW d \in 1 .. Len(text), Between(d - 1), DefinitionNext
  PROVE  /\ text' = text
         /\ \/ status' = "rejected" /\ ~Legal(text)
            \/ status' = "parsing" /\ InBlockStage(d, 1)'
<1>1. /\ nodes # <<>> /\ Head(nodes) = Name(text[d].name)
      /\ Tail(nodes) = FieldsLeft(text, d, 1, 0)
  BY DefinitionPositions DEF Between
<1>2. Head(nodes).rule = "name" /\ Head(nodes).text = text[d].name
  BY <1>1, NodeHolds
<1>3. TakeToken("name") /\ status = "parsing" /\ text' = text
  BY <1>1, <1>2, NextByRule DEF SimpleTypes, NumberTypes
<1>4. CASE text[d].name \in ReservedNames
  <2>1. status' = "rejected"
    BY <1>2, <1>3, <1>4 DEF TakeToken
  <2>2. ~Legal(text)
    BY <1>4, LegalParts DEF DefinitionChecked
  <2> QED BY <1>3, <2>1, <2>2
<1>5. CASE text[d].name \notin ReservedNames
  <2>1. /\ tokens' = Append(tokens, text[d].name) /\ nodes' = Tail(nodes)
        /\ UNCHANGED <<text, status, typeDefinitions, fields, requestFields, protocol>>
    BY <1>2, <1>3, <1>5 DEF TakeToken, Takes
  <2>2. tokens' = <<text[d].name>>
    BY <2>1, Tokens DEF Between
  <2>3. fields' = <<>> /\ requestFields' = <<>> /\ typeDefinitions' = <<>>
        /\ Done(protocol, text, d - 1)
    BY <2>1 DEF Between
  <2>4. SameFields(fields', Block(text, d, 1), 0) /\ FieldsChecked(text, d, Block(text, d, 1), 0)
    BY <2>3, NoFields
  <2>5. InBlock(d, 1, 0)'
    BY <1>5, <2>1, <2>3, <2>4 DEF InBlock
  <2>6. AtField(d, 1, 0)'
    BY <1>1, <2>1, <2>2, <2>3, <2>5 DEF AtField
  <2>7. IsBlock(text', d, 1) /\ text' \in Seq(Definitions) /\ d \in 1 .. Len(text')
    BY <2>1 DEF IsBlock
  <2>8. 0 \in 0 .. Len(Block(text', d, 1))
    BY <2>7, FieldPositions
  <2>9. InBlockStage(d, 1)'
    BY <2>6, <2>7, <2>8, AtFieldStage
  <2> QED BY <1>3, <2>1, <2>9
<1> QED BY <1>4, <1>5

\* The nodes of a type that are checked.
LEMMA CheckedType ==
  ASSUME NEW w, NEW d, NEW t \in Types
  PROVE  /\ \A n \in 1 .. Len(t) : t[n].rule = "name" => n # Len(t) /\ t[n + 1].rule = "message"
         /\ \A n \in 1 .. Len(t) : t[n].rule = "message" => n # 1 /\ t[n - 1].rule = "name"
         /\ TypeChecked(w, d, t, Len(t)) =>
              References(t) \subseteq Defined(w, d) /\ KeysOf(t) \cap BadKeys = {}
         /\ References(t) \subseteq Defined(w, d) =>
              \A n \in 1 .. Len(t) : t[n].rule = "name" => t[n].text \in Defined(w, d)
         /\ KeysOf(t) \cap BadKeys = {} =>
              \A n \in 1 .. Len(t) : t[n].rule = "map" => t[KeyEnd(t, n)].rule \notin BadKeys
<1>1. Len(t) \in Nat \ {0} /\ DOMAIN t = 1 .. Len(t)
  BY TypeIsNodes
<1>0. Len(t) \in Nat
  BY <1>1
<1>2. /\ \A i \in 1 .. Len(t) : t[i].rule = "message" <=> (i > 1 /\ t[i - 1].rule = "name")
      /\ t[Len(t)].rule # "name"
  BY <1>1 DEF Types
<1>3. ASSUME NEW n \in 1 .. Len(t), t[n].rule = "name"
      PROVE  n # Len(t) /\ t[n + 1].rule = "message"
  <2>1. n # Len(t)
    BY <1>2, <1>3
  <2>2. PICK m \in 1 .. Len(t) : m = n + 1 /\ m > 1 /\ m - 1 = n
    <3>1. n + 1 \in 1 .. Len(t) /\ n + 1 > 1 /\ n + 1 - 1 = n
      BY <1>0, <2>1
    <3> QED BY <3>1
  <2>3. t[m].rule = "message"
    BY <1>2, <1>3, <2>2
  <2> QED BY <2>1, <2>2, <2>3
<1>4. ASSUME NEW n \in 1 .. Len(t), t[n].rule = "message"
      PROVE  n # 1 /\ t[n - 1].rule = "name"
  BY <1>1, <1>2, <1>4
<1>5. ASSUME TypeChecked(w, d, t, Len(t))
      PROVE  References(t) \subseteq Defined(w, d) /\ KeysOf(t) \cap BadKeys = {}
  <2>1. ASSUME NEW n \in 1 .. Len(t), t[n].rule = "name" PROVE t[n].text \in Defined(w, d)
    <3>1. PICK m \in 1 .. Len(t) : m - 1 = n /\ t[m].rule = "message"
      <4>1. n # Len(t) /\ t[n + 1].rule = "message"
        BY <2>1, <1>3
      <4>2. n # Len(t)
        BY <4>1
      <4>3. n + 1 \in 1 .. Len(t) /\ n + 1 - 1 = n
        BY <1>0, <4>2
      <4> QED BY <4>1, <4>3
    <3>2. t[m - 1].text \in Defined(w, d)
      BY <1>5, <3>1 DEF TypeChecked
    <3> QED BY <3>1, <3>2
  <2>2. ASSUME NEW n \in 1 .. Len(t), t[n].rule = "map" PROVE t[KeyEnd(t, n)].rule \notin BadKeys
    BY <1>5, <2>2 DEF TypeChecked
  <2> QED BY <1>1, <2>1, <2>2 DEF References, KeysOf
<1>6. References(t) \subseteq Defined(w, d) =>
        \A n \in 1 .. Len(t) : t[n].rule = "name" => t[n].text \in Defined(w, d)
  BY <1>1 DEF References
<1>7. KeysOf(t) \cap BadKeys = {} =>
        \A n \in 1 .. Len(t) : t[n].rule = "map" => t[KeyEnd(t, n)].rule \notin BadKeys
  BY <1>1 DEF KeysOf
<1> QED BY <1>3, <1>4, <1>5, <1>6, <1>7

\* What is checked about a definition that is legal.
LEMMA LegalField ==
  ASSUME NEW w \in Seq(Definitions), Legal(w), NEW d \in 1 .. Len(w), NEW b, IsBlock(w, d, b),
         NEW f \in 1 .. Len(Block(w, d, b))
  PROVE  /\ FieldChecked(w, d, Block(w, d, b)[f])
         /\ \A n \in 1 .. Len(Block(w, d, b)[f].type) :
              /\ Block(w, d, b)[f].type[n].rule = "name" =>
                   /\ Block(w, d, b)[f].type[n].text \notin ReservedNames
                   /\ Block(w, d, b)[f].type[n].text \in Defined(w, d)
              /\ Block(w, d, b)[f].type[n].rule = "map" =>
                   Block(w, d, b)[f].type[KeyEnd(Block(w, d, b)[f].type, n)].rule \notin BadKeys
<1>1. \A i \in 1 .. Len(w) : DefinitionChecked(w, i)
  BY LegalParts
<1>2. Len(w) \in Nat /\ DOMAIN w = 1 .. Len(w)
  BY DefinitionWritten
<1>3. \A x \in Defined(w, d) : x \notin ReservedNames
  BY <1>1, <1>2 DEF Defined, DefinitionChecked
<1>4. FieldChecked(w, d, Block(w, d, b)[f])
  BY <1>1 DEF DefinitionChecked, FieldsChecked, Block, IsBlock
<1>5. PICK t \in Types : t = Block(w, d, b)[f].type
  BY FieldPositions
<1>6. References(t) \subseteq Defined(w, d) /\ KeysOf(t) \cap BadKeys = {}
  BY <1>4, <1>5 DEF FieldChecked
<1>7. \A n \in 1 .. Len(t) :
        /\ t[n].rule = "name" => t[n].text \in Defined(w, d)
        /\ t[n].rule = "map" => t[KeyEnd(t, n)].rule \notin BadKeys
  BY <1>6, CheckedType
<1> QED BY <1>3, <1>4, <1>5, <1>7

\* One field more that is the same, and checked.
LEMMA OneMore ==
  /\ \A list, written, f, e :
       SameFields(list, written, f) /\ f \in Nat
         /\ e.type.nodes = written[f + 1].type /\ e.name = written[f + 1].name
         => SameFields(Append(list, e), written, f + 1)
  /\ \A w, d, list, f :
       f \in Nat /\ FieldsChecked(w, d, list, f) /\ FieldChecked(w, d, list[f + 1])
         => FieldsChecked(w, d, list, f + 1)
<1>1. ASSUME NEW list, NEW written, NEW f \in Nat, NEW e, SameFields(list, written, f),
             e.type.nodes = written[f + 1].type, e.name = written[f + 1].name
      PROVE  SameFields(Append(list, e), written, f + 1)
  <2> DEFINE longer == Append(list, e)
  <2>1. ASeq(list) /\ Len(list) = f
    BY <1>1 DEF SameFields
  <2>2. /\ ASeq(longer) /\ Len(longer) = f + 1
        /\ \A i \in 1 .. f : longer[i] = list[i]
        /\ longer[f + 1] = e
    BY <2>1, Push
  <2> HIDE DEF longer
  <2>3. \A i \in 1 .. f + 1 : i \in 1 .. f \/ i = f + 1
    OBVIOUS
  <2>4. ASSUME NEW i \in 1 .. f + 1
        PROVE  longer[i].type.nodes = written[i].type /\ longer[i].name = written[i].name
    <3>1. CASE i \in 1 .. f
      BY <1>1, <2>2, <3>1 DEF SameFields
    <3>2. CASE i = f + 1
      BY <1>1, <2>2, <3>2
    <3> QED BY <2>3, <3>1, <3>2
  <2>5. SameFields(longer, written, f + 1)
    BY <2>2, <2>4 DEF SameFields
  <2> QED BY <2>5 DEF longer
<1>2. ASSUME NEW w, NEW d, NEW list, NEW f \in Nat, FieldsChecked(w, d, list, f),
             FieldChecked(w, d, list[f + 1])
      PROVE  FieldsChecked(w, d, list, f + 1)
  <2>1. \A i \in 1 .. f + 1 : i \in 1 .. f \/ i = f + 1
    OBVIOUS
  <2> QED BY <1>2, <2>1 DEF FieldsChecked
<1> QED BY <1>1, <1>2

\* What a node of a type is.
LEMMA NodeIs ==
  ASSUME NEW x \in TypeNodes
  PROVE  /\ x.rule \in SimpleTypes \cup {"name", "message", "list", "map"}
         /\ x.rule = "name" => x = Name(x.text)
         /\ x.rule # "name" => x = Rule(x.rule)
BY DEF TypeNodes, Name, Rule, Node, SimpleTypes, NumberTypes

\* The nodes of a simple type, and of one that is a message.
LEMMA NodesOfTypes ==
  ASSUME NEW t \in Types, NEW n \in 0 .. Len(t) - 1
  PROVE  /\ t[n + 1].rule \in SimpleTypes \cup {"name", "message", "list", "map"}
         /\ t[n + 1].rule \in SimpleTypes =>
              /\ Cut(t, n, n + 1) = <<Rule(t[n + 1].rule)>>
              /\ Operands(t, n + 1) = Operands(t, n) + 1
         /\ n # 0 /\ t[n].rule = "name" =>
              /\ Cut(t, n - 1, n + 1) = <<Name(t[n].text), Rule("message")>>
              /\ \A j \in n .. n + 1 : Operands(t, j) = Operands(t, n - 1) + 1
         /\ t[n + 1].rule \in {"list", "map"} => t[n + 1] = Rule(t[n + 1].rule)
<1>1. /\ Len(t) \in Nat \ {0} /\ t \in Seq(TypeNodes)
      /\ \A i \in 1 .. Len(t) : t[i] \in TypeNodes
  BY TypeIsNodes
<1>2. Len(t) \in Nat /\ n \in Nat /\ n + 1 \in 1 .. Len(t)
  BY <1>1
<1>3. PICK m \in 1 .. Len(t) : m = n + 1
  BY <1>2
<1>4. t[m] \in TypeNodes
  BY <1>1
<1>5. /\ t[m].rule \in SimpleTypes \cup {"name", "message", "list", "map"}
      /\ t[m].rule # "name" => t[m] = Rule(t[m].rule)
  BY <1>4, NodeIs
<1>6. Operands(t, m) = IF t[m].rule \in Operand THEN Operands(t, n) + 1
                       ELSE IF t[m].rule = "map" THEN Operands(t, n) - 1
                       ELSE Operands(t, n)
  BY <1>3, OperandsStep
<1>7. ASSUME t[m].rule \in SimpleTypes
      PROVE  /\ Cut(t, n, m) = <<Rule(t[m].rule)>>
             /\ Operands(t, m) = Operands(t, n) + 1
  <2>1. t[m].rule # "name" /\ t[m].rule \in Operand
    BY <1>7 DEF SimpleTypes, NumberTypes, Operand
  <2>2. Cut(t, n, m) = Cut(t, n, n) \o <<t[m]>> /\ Cut(t, n, n) = <<>>
    <3>1. n \in 0 .. Len(t) /\ n \in n .. Len(t) /\ n # Len(t)
      BY <1>2
    <3> QED BY <1>1, <1>3, <3>1, Cuts
  <2>3. <<>> \o <<t[m]>> = <<t[m]>>
    BY <1>4, ConcatEmptySeq
  <2> QED BY <1>5, <1>6, <2>1, <2>2, <2>3
<1>8. ASSUME n # 0, t[n].rule = "name"
      PROVE  /\ Cut(t, n - 1, m) = <<Name(t[n].text), Rule("message")>>
             /\ \A j \in n .. m : Operands(t, j) = Operands(t, n - 1) + 1
  <2>1. n \in 1 .. Len(t) /\ n - 1 \in 0 .. Len(t) - 1 /\ n - 1 \in Nat
    BY <1>2, <1>8
  <2>2. PICK k \in 0 .. Len(t) - 1 : k = n - 1 /\ k + 1 = n
    BY <2>1
  <2>3. t[m].rule = "message"
    BY <1>3, <1>8, <2>1, CheckedType
  <2>4. t[m] = Rule("message")
    BY <1>5, <2>3
  <2>5. t[n] \in TypeNodes /\ t[n] = Name(t[n].text)
    BY <1>1, <1>8, <2>1, NodeIs
  <2>6. Operands(t, n) = Operands(t, k) + 1
    <3>1. t[n].rule \in Operand
      BY <1>8 DEF Operand
    <3>2. Operands(t, k + 1) = IF t[k + 1].rule \in Operand THEN Operands(t, k) + 1
                               ELSE IF t[k + 1].rule = "map" THEN Operands(t, k) - 1
                               ELSE Operands(t, k)
      BY OperandsStep
    <3> QED BY <2>2, <3>1, <3>2
  <2>7. Operands(t, m) = Operands(t, n)
    <3>1. t[m].rule \notin Operand /\ t[m].rule # "map"
      BY <2>3 DEF Operand, SimpleTypes, NumberTypes
    <3> QED BY <1>6, <3>1
  <2>8. \A j \in n .. m : Operands(t, j) = Operands(t, k) + 1
    <3>1. \A j \in n .. m : j = n \/ j = m
      BY <1>2, <1>3
    <3> QED BY <2>6, <2>7, <3>1
  <2>9. Cut(t, k, m) = <<t[n], t[m]>>
    <3>1. k \in 0 .. Len(t) /\ m \in k .. Len(t) /\ m - k = 2 /\ k + 1 = n /\ k + 2 = m
      BY <1>2, <1>3, <2>2
    <3> DEFINE c == Cut(t, k, m)
    <3>2. c \in Seq(TypeNodes) /\ Len(c) = m - k /\ \A i \in 1 .. m - k : c[i] = t[k + i]
      BY <1>1, <3>1, CutType
    <3>3. 1 \in 1 .. m - k /\ 2 \in 1 .. m - k
      BY <3>1
    <3>4. Len(c) = 2 /\ c[1] = t[n] /\ c[2] = t[m]
      <4>1. c[1] = t[k + 1] /\ c[2] = t[k + 2]
        BY <3>2, <3>3
      <4> QED BY <3>1, <3>2, <4>1
    <3> HIDE DEF c
    <3>5. c = <<t[n], t[m]>>
      BY <3>2, <3>4, <1>4, <2>5
    <3> QED BY <3>5 DEF c
  <2> QED BY <2>2, <2>4, <2>5, <2>8, <2>9
<1> QED BY <1>3, <1>5, <1>7, <1>8

\* A field is reduced: it is the next one of its block.
LEMMA InFieldStep ==
  ASSUME text \in Seq(Definitions), NEW d \in 1 .. Len(text), NEW b, IsBlock(text, d, b),
         NEW f \in 1 .. Len(Block(text, d, b)), InField(d, b, f), DefinitionNext
  PROVE  text' = text /\ status' = "parsing" /\ InBlockStage(d, b)'
<1> DEFINE list == Block(text, d, b)
<1>1. /\ nodes # <<>> /\ Head(nodes) = Rule("field") /\ Tail(nodes) = FieldsLeft(text, d, b, f)
  BY FieldEndPositions DEF InField
<1>2. Head(nodes).rule = "field"
  BY <1>1, NodeHolds
<1>3. ReduceField /\ status = "parsing" /\ text' = text
  BY <1>1, <1>2, NextByRule DEF SimpleTypes, NumberTypes
<1>4. /\ fields' = Append(fields, [type |-> Last(typeDefinitions), name |-> Last(tokens)])
      /\ typeDefinitions' = Front(typeDefinitions) /\ tokens' = Front(tokens)
      /\ nodes' = Tail(nodes)
      /\ UNCHANGED <<requestFields, protocol, status>>
  BY <1>3 DEF ReduceField, Takes
<1>5. PICK t \in Types : t = list[f].type
  BY FieldPositions
<1>6. StackOf(typeDefinitions, t, Len(t))
  BY <1>5 DEF InField
<1>7. Last(typeDefinitions).nodes = t /\ Front(typeDefinitions) = <<>>
  BY <1>6, WholeType
<1>8. Last(tokens) = list[f].name /\ Front(tokens) = <<text[d].name>>
  BY Tokens DEF InField
<1>9. PICK g \in Nat : g = f - 1 /\ g + 1 = f
  <2>1. Len(list) \in Nat
    BY FieldPositions
  <2>2. f - 1 \in Nat /\ f - 1 + 1 = f
    BY <2>1
  <2> QED BY <2>2
<1>10. /\ Done(protocol, text, d - 1) /\ text[d].name \notin ReservedNames
       /\ SameFields(fields, list, g) /\ FieldsChecked(text, d, list, g)
       /\ FieldChecked(text, d, list[f])
       /\ IF b = 1 THEN requestFields = <<>>
          ELSE /\ SameFields(requestFields, text[d].fields, Len(text[d].fields))
               /\ FieldsChecked(text, d, text[d].fields, Len(text[d].fields))
  BY <1>9 DEF InField, InBlock
<1>11. SameFields(fields', list, f)
  <2> DEFINE e == [type |-> Last(typeDefinitions), name |-> Last(tokens)]
  <2>1. e.type.nodes = list[g + 1].type /\ e.name = list[g + 1].name
    BY <1>5, <1>7, <1>8, <1>9
  <2>2. fields' = Append(fields, e)
    BY <1>4
  <2> HIDE DEF e
  <2> QED BY <2>1, <2>2, <1>9, <1>10, OneMore
<1>12. FieldsChecked(text, d, list, f)
  BY <1>9, <1>10, OneMore
<1>13. InBlock(d, b, f)'
  BY <1>3, <1>4, <1>10, <1>11, <1>12 DEF InBlock
<1>14. AtField(d, b, f)'
  BY <1>1, <1>3, <1>4, <1>7, <1>8, <1>13 DEF AtField
<1>15. /\ text' \in Seq(Definitions) /\ d \in 1 .. Len(text') /\ IsBlock(text', d, b)
       /\ f \in 0 .. Len(Block(text', d, b))
  BY <1>3
<1> QED BY <1>3, <1>4, <1>14, <1>15, AtFieldStage

\* The messages so far are those above.
LEMMA FoundIfDefined ==
  ASSUME NEW w \in Seq(Definitions), NEW d \in 1 .. Len(w), NEW p, Done(p, w, d - 1)
  PROVE  \A x : {i \in DOMAIN p.messages : p.messages[i].name = x} = {} <=> x \notin Defined(w, d)
<1>1. PICK n \in 0 .. Len(w) : n = d - 1
  BY LenProperties
<1>2. SameNames(p.messages, w, n, "message")
  BY <1>1, DoneNames
<1>3. NamesOf(p.messages) = Defined(w, d)
  BY <1>1, <1>2, NamesAbove, DefinedIs
<1> QED BY <1>3 DEF NamesOf

\* A name is reduced to the message that it names.
LEMMA InNameStep ==
  ASSUME text \in Seq(Definitions), NEW d \in 1 .. Len(text), NEW b, IsBlock(text, d, b),
         NEW f \in 1 .. Len(Block(text, d, b)), NEW n \in 1 .. Len(Block(text, d, b)[f].type),
         InName(d, b, f, n), DefinitionNext
  PROVE  /\ text' = text
         /\ \/ status' = "rejected" /\ ~Legal(text)
            \/ status' = "parsing" /\ InBlockStage(d, b)'
<1>1. PICK t \in Types : t = Block(text, d, b)[f].type
  BY FieldPositions
<1>2. Len(t) \in Nat /\ n \in 1 .. Len(t) /\ n \in Nat
  BY <1>1, TypeIsNodes
<1>3. /\ InBlock(d, b, f - 1) /\ nodes = TypeLeft(text, d, b, f, n)
      /\ t[n].rule = "name" /\ tokens = <<text[d].name, t[n].text>>
      /\ StackOf(typeDefinitions, t, n - 1) /\ TypeChecked(text, d, t, n)
  BY <1>1 DEF InName
<1>4. n # Len(t) /\ t[n + 1].rule = "message"
  BY <1>2, <1>3, CheckedType
<1>5. n \in 0 .. Len(t) - 1 /\ n - 1 \in 0 .. Len(t) /\ n + 1 \in 1 .. Len(t)
      /\ n + 1 \in (n - 1) + 1 .. Len(t) /\ n # 0 /\ n + 1 # 0
  <2>1. n # Len(t)
    BY <1>4
  <2> QED BY <1>2, <2>1
<1>6. /\ nodes # <<>> /\ Head(nodes) = t[n + 1] /\ Tail(nodes) = TypeLeft(text, d, b, f, n + 1)
  BY <1>1, <1>3, <1>5, TypePositions
<1>7. Head(nodes).rule = "message"
  BY <1>4, <1>6
<1>8. ReduceName /\ status = "parsing" /\ text' = text
  BY <1>6, <1>7, NextByRule DEF SimpleTypes, NumberTypes
<1>9. Last(tokens) = t[n].text /\ Front(tokens) = <<text[d].name>>
  BY <1>3, Tokens
<1> DEFINE found == {i \in DOMAIN protocol.messages : protocol.messages[i].name = Last(tokens)}
<1>10. found = {} <=> t[n].text \notin Defined(text, d)
  <2>1. Done(protocol, text, d - 1)
    BY <1>3 DEF InBlock
  <2>2. \A x : {i \in DOMAIN protocol.messages : protocol.messages[i].name = x} = {}
                <=> x \notin Defined(text, d)
    BY <2>1, FoundIfDefined
  <2> QED BY <2>2, <1>9
<1>11. CASE found = {}
  <2>1. status' = "rejected"
    BY <1>8, <1>11 DEF ReduceName
  <2>2. ~Legal(text)
    BY <1>1, <1>2, <1>3, <1>10, <1>11, LegalField
  <2> QED BY <1>8, <2>1, <2>2
<1>12. CASE found # {}
  <2> DEFINE first == CHOOSE i \in found : \A j \in found : i <= j
             e == FromMessage(Last(tokens), HasStaticSize(protocol.messages[first].fields),
                              NumberOfBits(protocol.messages[first].fields))
  <2>1. /\ tokens' = Front(tokens) /\ nodes' = Tail(nodes)
        /\ typeDefinitions' = Append(typeDefinitions, e)
        /\ UNCHANGED <<fields, requestFields, protocol, status>>
    BY <1>8, <1>12 DEF ReduceName, Takes
  <2>2. e.nodes = <<Name(t[n].text), Rule("message")>>
    BY <1>9 DEF FromMessage, TypeDefinition
  <2> HIDE DEF e
  <2>3. /\ Cut(t, n - 1, n + 1) = <<Name(t[n].text), Rule("message")>>
        /\ \A j \in n .. n + 1 : Operands(t, j) = Operands(t, n - 1) + 1
    BY <1>3, <1>5, NodesOfTypes
  <2>4. StackOf(Append(typeDefinitions, e), t, n + 1)
    <3>1. PICK k \in 0 .. Len(t) : k = n - 1 /\ k + 1 = n
      BY <1>2, <1>5
    <3>2. PICK m \in k + 1 .. Len(t) : m = n + 1
      BY <1>5, <3>1
    <3>3. /\ StackOf(typeDefinitions, t, k) /\ e.nodes = Cut(t, k, m)
          /\ \A j \in k + 1 .. m : Operands(t, j) = Operands(t, k) + 1
      BY <1>3, <2>2, <2>3, <3>1, <3>2
    <3>4. StackOf(Append(typeDefinitions, e), t, m)
      BY <3>3, PushType
    <3> QED BY <3>2, <3>4
  <2>5. TypeChecked(text, d, t, n + 1)
    <3>1. \A i \in 1 .. n + 1 : i \in 1 .. n \/ i = n + 1
      BY <1>2
    <3>2. t[(n + 1) - 1].text \in Defined(text, d)
      <4>1. (n + 1) - 1 = n
        BY <1>2
      <4> QED BY <4>1, <1>10, <1>12
    <3> QED BY <1>3, <1>4, <3>1, <3>2 DEF TypeChecked
  <2>6. t[n + 1].rule # "name"
    BY <1>4
  <2>7. InBlock(d, b, f - 1)'
    BY <1>3, <1>8, <2>1 DEF InBlock
  <2>8. nodes' = TypeLeft(text', d, b, f, n + 1) /\ tokens' = <<text'[d].name>>
    BY <1>6, <1>8, <1>9, <2>1
  <2>9. InType(d, b, f, n + 1)'
    BY <1>1, <1>8, <2>1, <2>4, <2>5, <2>6, <2>7, <2>8 DEF InType
  <2>10. n + 1 \in 0 .. Len(Block(text', d, b)[f].type) /\ f \in 1 .. Len(Block(text', d, b))
    BY <1>1, <1>5, <1>8
  <2>11. InBlockStage(d, b)'
    BY <2>9, <2>10 DEF InBlockStage
  <2> QED BY <1>8, <2>1, <2>11
<1> QED BY <1>11, <1>12

\* After its type comes the name of a field.
LEMMA TypeEndStep ==
  ASSUME text \in Seq(Definitions), NEW d \in 1 .. Len(text), NEW b, IsBlock(text, d, b),
         NEW f \in 1 .. Len(Block(text, d, b)),
         InType(d, b, f, Len(Block(text, d, b)[f].type)), DefinitionNext
  PROVE  /\ text' = text
         /\ \/ status' = "rejected" /\ ~Legal(text)
            \/ status' = "parsing" /\ InBlockStage(d, b)'
<1> DEFINE field == Block(text, d, b)[f]
<1>1. PICK t \in Types : t = field.type
  BY FieldPositions
<1>2. /\ InBlock(d, b, f - 1) /\ nodes = TypeLeft(text, d, b, f, Len(t))
      /\ tokens = <<text[d].name>> /\ StackOf(typeDefinitions, t, Len(t))
      /\ TypeChecked(text, d, t, Len(t))
  BY <1>1 DEF InType
<1>3. /\ nodes # <<>> /\ Head(nodes) = Name(field.name)
      /\ Tail(nodes) = <<Rule("field")>> \o FieldsLeft(text, d, b, f)
  <2>1. TypeLeft(text, d, b, f, Len(t)) = FieldEnd(text, d, b, f)
    BY <1>1, TypePositions
  <2> QED BY <1>2, <2>1, FieldEndPositions
<1>4. Head(nodes).rule = "name" /\ Head(nodes).text = field.name
  BY <1>3, NodeHolds
<1>5. TakeToken("name") /\ status = "parsing" /\ text' = text
  BY <1>3, <1>4, NextByRule DEF SimpleTypes, NumberTypes
<1>6. CASE field.name \in ReservedNames
  <2>1. status' = "rejected"
    BY <1>4, <1>5, <1>6 DEF TakeToken
  <2>2. ~Legal(text)
    BY <1>6, LegalField DEF FieldChecked
  <2> QED BY <1>5, <2>1, <2>2
<1>7. CASE field.name \notin ReservedNames
  <2>1. /\ tokens' = Append(tokens, field.name) /\ nodes' = Tail(nodes)
        /\ UNCHANGED <<text, status, typeDefinitions, fields, requestFields, protocol>>
    BY <1>4, <1>5, <1>7 DEF TakeToken, Takes
  <2>2. tokens' = <<text[d].name, field.name>>
    BY <1>2, <2>1, Tokens
  <2>3. FieldChecked(text, d, field)
    BY <1>1, <1>2, <1>7, CheckedType DEF FieldChecked
  <2>4. InBlock(d, b, f - 1)'
    BY <1>2, <2>1 DEF InBlock
  <2>5. InField(d, b, f)'
    BY <1>1, <1>2, <1>3, <2>1, <2>2, <2>3, <2>4 DEF InField
  <2>6. f \in 1 .. Len(Block(text', d, b))
    BY <2>1
  <2>7. InBlockStage(d, b)'
    BY <2>5, <2>6 DEF InBlockStage
  <2> QED BY <1>5, <2>1, <2>7
<1> QED BY <1>6, <1>7

\* A node of a type is parsed, and it is not one that ends a name.
LEMMA InTypeStep ==
  ASSUME text \in Seq(Definitions), NEW d \in 1 .. Len(text), NEW b, IsBlock(text, d, b),
         NEW f \in 1 .. Len(Block(text, d, b)), NEW n \in 0 .. Len(Block(text, d, b)[f].type),
         InType(d, b, f, n), DefinitionNext
  PROVE  /\ text' = text
         /\ \/ status' = "rejected" /\ ~Legal(text)
            \/ status' = "parsing" /\ InBlockStage(d, b)'
<1>1. PICK t \in Types : t = Block(text, d, b)[f].type
  BY FieldPositions
<1>2. CASE n = Len(t)
  BY <1>1, <1>2, TypeEndStep
<1>3. CASE n # Len(t)
  <2>1. Len(t) \in Nat /\ n \in 0 .. Len(t)
    BY <1>1, TypeIsNodes
  <2>2. n \in Nat /\ n \in 0 .. Len(t) - 1 /\ n + 1 \in 1 .. Len(t) /\ n + 1 \in n + 1 .. Len(t)
        /\ n + 1 # 0
    BY <1>3, <2>1
  <2>3. PICK m \in n + 1 .. Len(t) : m = n + 1 /\ m \in 1 .. Len(t) /\ m # 0 /\ m - 1 = n
    BY <2>2
  <2>4. /\ InBlock(d, b, f - 1) /\ nodes = TypeLeft(text, d, b, f, n)
        /\ n # 0 => t[n].rule # "name"
        /\ tokens = <<text[d].name>> /\ StackOf(typeDefinitions, t, n)
        /\ TypeChecked(text, d, t, n)
    BY <1>1 DEF InType
  <2>5. nodes # <<>> /\ Head(nodes) = t[m] /\ Tail(nodes) = TypeLeft(text, d, b, f, m)
    BY <1>1, <2>2, <2>3, <2>4, TypePositions
  <2>6. /\ t[m].rule \in SimpleTypes \cup {"name", "message", "list", "map"}
        /\ t[m].rule \in SimpleTypes =>
             Cut(t, n, m) = <<Rule(t[m].rule)>> /\ Operands(t, m) = Operands(t, n) + 1
        /\ t[m].rule \in {"list", "map"} => t[m] = Rule(t[m].rule)
    BY <2>2, <2>3, NodesOfTypes
  <2>7. t[m].rule # "message"
    <3>1. t[m].rule = "message" => m # 1 /\ t[m - 1].rule = "name"
      BY <2>3, CheckedType
    <3> QED BY <2>3, <2>4, <3>1
  <2>8. f \in 1 .. Len(Block(text, d, b)) /\ m \in 0 .. Len(Block(text, d, b)[f].type)
    BY <1>1, <2>3
  <2>9. ASSUME t[m].rule # "name", t[m].rule = "map" => t[KeyEnd(t, m)].rule \notin BadKeys,
               StackOf(typeDefinitions', t, m), tokens' = tokens, nodes' = Tail(nodes),
               UNCHANGED <<text, status, fields, requestFields, protocol>>
        PROVE  InBlockStage(d, b)'
    <3>1. TypeChecked(text, d, t, m)
      <4>1. \A i \in 1 .. m : i \in 1 .. n \/ i = m
        BY <2>2, <2>3
      <4> QED BY <2>4, <2>7, <2>9, <4>1 DEF TypeChecked
    <3>2. InBlock(d, b, f - 1)'
      BY <2>4, <2>9 DEF InBlock
    <3>3. InType(d, b, f, m)'
      BY <1>1, <2>4, <2>5, <2>9, <3>1, <3>2 DEF InType
    <3> QED BY <2>8, <2>9, <3>3 DEF InBlockStage
  <2>10. CASE t[m].rule = "name"
    <3>1. TakeToken("name") /\ status = "parsing" /\ text' = text
      BY <2>5, <2>10, NextByRule DEF SimpleTypes, NumberTypes
    <3>2. CASE t[m].text \in ReservedNames
      <4>1. status' = "rejected"
        BY <2>5, <3>1, <3>2 DEF TakeToken
      <4>2. ~Legal(text)
        BY <1>1, <2>3, <2>10, <3>2, LegalField
      <4> QED BY <3>1, <4>1, <4>2
    <3>3. CASE t[m].text \notin ReservedNames
      <4>1. /\ tokens' = Append(tokens, t[m].text) /\ nodes' = Tail(nodes)
            /\ UNCHANGED <<text, status, typeDefinitions, fields, requestFields, protocol>>
        BY <2>5, <3>1, <3>3 DEF TakeToken, Takes
      <4>2. tokens' = <<text[d].name, t[m].text>>
        BY <2>4, <4>1, Tokens
      <4>3. TypeChecked(text, d, t, m)
        <5>1. \A i \in 1 .. m : i \in 1 .. n \/ i = m
          BY <2>2, <2>3
        <5> QED BY <2>4, <2>10, <5>1 DEF TypeChecked
      <4>4. InBlock(d, b, f - 1)'
        BY <2>4, <4>1 DEF InBlock
      <4>5. StackOf(typeDefinitions, t, m - 1)
        BY <2>3, <2>4
      <4>6. InName(d, b, f, m)'
        BY <1>1, <2>5, <2>10, <4>1, <4>2, <4>3, <4>4, <4>5 DEF InName
      <4>7. InBlockStage(d, b)'
        BY <2>3, <2>8, <4>1, <4>6 DEF InBlockStage
      <4> QED BY <3>1, <4>1, <4>7
    <3> QED BY <3>2, <3>3
  <2>11. CASE t[m].rule \in SimpleTypes
    <3>1. ReduceSimple(t[m].rule) /\ status = "parsing" /\ text' = text
      BY <2>5, <2>11, NextByRule DEF SimpleTypes, NumberTypes
    <3>2. /\ typeDefinitions' = Append(typeDefinitions, FromSimple(t[m].rule))
          /\ nodes' = Tail(nodes)
          /\ UNCHANGED <<tokens, fields, requestFields, protocol, status>>
      BY <3>1 DEF ReduceSimple, Takes
    <3>3. FromSimple(t[m].rule).nodes = Cut(t, n, m)
      BY <2>6, <2>11 DEF FromSimple, TypeDefinition
    <3>4. \A j \in n + 1 .. m : Operands(t, j) = Operands(t, n) + 1
      <4>1. \A j \in n + 1 .. m : j = m
        BY <2>2, <2>3
      <4> QED BY <2>6, <2>11, <4>1
    <3>5. StackOf(typeDefinitions', t, m)
      BY <2>1, <2>4, <3>2, <3>3, <3>4, PushType
    <3>6. t[m].rule # "name" /\ t[m].rule # "map"
      BY <2>11 DEF SimpleTypes, NumberTypes
    <3> QED BY <2>9, <3>1, <3>2, <3>5, <3>6
  <2>12. CASE t[m].rule = "list"
    <3>1. ReduceList /\ status = "parsing" /\ text' = text
      BY <2>5, <2>12, NextByRule DEF SimpleTypes, NumberTypes
    <3>2. /\ typeDefinitions' = Append(Front(typeDefinitions), FromList(Last(typeDefinitions)))
          /\ nodes' = Tail(nodes)
          /\ UNCHANGED <<tokens, fields, requestFields, protocol, status>>
      BY <3>1 DEF ReduceList, Takes
    <3>3. FromList(Last(typeDefinitions)).nodes = Append(Last(typeDefinitions).nodes, t[n + 1])
      BY <2>3, <2>6, <2>12 DEF FromList, TypeDefinition
    <3>4. StackOf(typeDefinitions', t, n + 1)
      BY <2>2, <2>3, <2>4, <2>12, <3>2, <3>3, ListOfType
    <3> QED BY <2>3, <2>9, <2>12, <3>1, <3>2, <3>4
  <2>13. CASE t[m].rule = "map"
    <3> DEFINE key == Last(Front(typeDefinitions))
               value == Last(typeDefinitions)
    <3>1. ReduceMap /\ status = "parsing" /\ text' = text
      BY <2>5, <2>13, NextByRule DEF SimpleTypes, NumberTypes
    <3>2. /\ KeyEnd(t, n + 1) \in 1 .. n
          /\ Type(key) = t[KeyEnd(t, n + 1)].rule
          /\ t[KeyEnd(t, n + 1)].rule # "name"
          /\ \A e : e.nodes = (key.nodes \o value.nodes) \o <<t[n + 1]>>
                      => StackOf(Append(Front(Front(typeDefinitions)), e), t, n + 1)
      BY <2>2, <2>3, <2>4, <2>13, MapOfTypes
    <3>3. CanBeMapKey(key) <=> t[KeyEnd(t, m)].rule \notin BadKeys
      <4>1. KeyEnd(t, m) \in 1 .. Len(t) /\ Type(key) = t[KeyEnd(t, m)].rule
            /\ t[KeyEnd(t, m)].rule # "name"
        <5>1. KeyEnd(t, m) \in 1 .. n
          BY <2>3, <3>2
        <5>2. KeyEnd(t, m) \in 1 .. Len(t)
          BY <2>1, <2>2, <5>1
        <5> QED BY <2>3, <3>2, <5>2
      <4>2. t[KeyEnd(t, m)] \in TypeNodes
        BY <4>1, TypeIsNodes
      <4>3. Type(key) \in SimpleTypes \cup {"name", "message", "list", "map"}
        BY <4>1, <4>2, NodeIs
      <4>4. Type(key) # "name"
        BY <4>1
      <4>5. CanBeMapKey(key) <=> Type(key) \notin BadKeys
        BY <4>3, <4>4 DEF CanBeMapKey, BadKeys, SimpleTypes, NumberTypes
      <4> QED BY <4>1, <4>5
    <3>4. CASE CanBeMapKey(key)
      <4>1. /\ typeDefinitions' = Append(Front(Front(typeDefinitions)), FromMap(key, value))
            /\ nodes' = Tail(nodes)
            /\ UNCHANGED <<tokens, fields, requestFields, protocol, status>>
        BY <3>1, <3>4 DEF ReduceMap, Takes
      <4>2. FromMap(key, value).nodes = (key.nodes \o value.nodes) \o <<t[n + 1]>>
        BY <2>3, <2>6, <2>13 DEF FromMap, TypeDefinition
      <4>3. StackOf(typeDefinitions', t, m)
        BY <2>3, <3>2, <4>1, <4>2
      <4>4. t[m].rule # "name" /\ t[KeyEnd(t, m)].rule \notin BadKeys
        BY <2>13, <3>3, <3>4
      <4> QED BY <2>9, <3>1, <4>1, <4>3, <4>4
    <3>5. CASE ~CanBeMapKey(key)
      <4>1. status' = "rejected"
        BY <3>1, <3>5 DEF ReduceMap
      <4>2. ~Legal(text)
        BY <1>1, <2>3, <2>13, <3>3, <3>5, LegalField
      <4> QED BY <3>1, <4>1, <4>2
    <3> QED BY <3>4, <3>5
  <2> QED BY <2>6, <2>7, <2>10, <2>11, <2>12, <2>13
<1> QED BY <1>2, <1>3

\* One definition more that is the same.
LEMMA MoreDefinitions ==
  ASSUME NEW list, NEW written, ASeq(written), NEW e, NEW x
  PROVE  /\ SameMessages(list, written) /\ e.name = x.name
              /\ SameFields(e.fields, x.fields, Len(x.fields))
              => SameMessages(Append(list, e), Append(written, x))
         /\ SameRequests(list, written) /\ e.name = x.name
              /\ SameFields(e.requestFields, x.fields, Len(x.fields))
              /\ SameFields(e.responseFields, x.response, Len(x.response))
              => SameRequests(Append(list, e), Append(written, x))
<1> DEFINE longer == Append(list, e)
           more == Append(written, x)
           n == Len(written)
<1>1. /\ ASeq(more) /\ n \in Nat /\ Len(more) = n + 1
      /\ \A i \in 1 .. n : more[i] = written[i]
      /\ more[n + 1] = x
  BY Push
<1>2. ASSUME ASeq(list), Len(list) = n
      PROVE  /\ ASeq(longer) /\ Len(longer) = n + 1
             /\ \A i \in 1 .. n : longer[i] = list[i]
             /\ longer[n + 1] = e
  BY <1>2, Push
<1> HIDE DEF longer, more, n
<1>3. \A i \in 1 .. n + 1 : i \in 1 .. n \/ i = n + 1
  BY <1>1
<1>4. ASSUME SameMessages(list, written), e.name = x.name,
             SameFields(e.fields, x.fields, Len(x.fields))
      PROVE  SameMessages(longer, more)
  <2>1. ASeq(list) /\ Len(list) = n
    BY <1>4 DEF SameMessages, n
  <2>2. ASSUME NEW i \in 1 .. n
        PROVE  /\ longer[i].name = more[i].name
               /\ SameFields(longer[i].fields, more[i].fields, Len(more[i].fields))
    <3>1. longer[i] = list[i] /\ more[i] = written[i]
      BY <1>1, <1>2, <2>1
    <3>2. /\ list[i].name = written[i].name
          /\ SameFields(list[i].fields, written[i].fields, Len(written[i].fields))
      BY <1>4 DEF SameMessages, n
    <3> QED BY <3>1, <3>2
  <2>3. /\ longer[n + 1].name = more[n + 1].name
        /\ SameFields(longer[n + 1].fields, more[n + 1].fields, Len(more[n + 1].fields))
    BY <1>1, <1>2, <1>4, <2>1
  <2>4. \A i \in 1 .. n + 1 :
          /\ longer[i].name = more[i].name
          /\ SameFields(longer[i].fields, more[i].fields, Len(more[i].fields))
    BY <1>3, <2>2, <2>3
  <2> QED BY <1>1, <1>2, <2>1, <2>4 DEF SameMessages
<1>5. ASSUME SameRequests(list, written), e.name = x.name,
             SameFields(e.requestFields, x.fields, Len(x.fields)),
             SameFields(e.responseFields, x.response, Len(x.response))
      PROVE  SameRequests(longer, more)
  <2>1. ASeq(list) /\ Len(list) = n
    BY <1>5 DEF SameRequests, n
  <2>2. ASSUME NEW i \in 1 .. n
        PROVE  /\ longer[i].name = more[i].name
               /\ SameFields(longer[i].requestFields, more[i].fields, Len(more[i].fields))
               /\ SameFields(longer[i].responseFields, more[i].response, Len(more[i].response))
    <3>1. longer[i] = list[i] /\ more[i] = written[i]
      BY <1>1, <1>2, <2>1
    <3>2. /\ list[i].name = written[i].name
          /\ SameFields(list[i].requestFields, written[i].fields, Len(written[i].fields))
          /\ SameFields(list[i].responseFields, written[i].response, Len(written[i].response))
      BY <1>5 DEF SameRequests, n
    <3> QED BY <3>1, <3>2
  <2>3. /\ longer[n + 1].name = more[n + 1].name
        /\ SameFields(longer[n + 1].requestFields, more[n + 1].fields, Len(more[n + 1].fields))
        /\ SameFields(longer[n + 1].responseFields, more[n + 1].response, Len(more[n + 1].response))
    BY <1>1, <1>2, <1>5, <2>1
  <2>4. \A i \in 1 .. n + 1 :
          /\ longer[i].name = more[i].name
          /\ SameFields(longer[i].requestFields, more[i].fields, Len(more[i].fields))
          /\ SameFields(longer[i].responseFields, more[i].response, Len(more[i].response))
    BY <1>3, <2>2, <2>3
  <2> QED BY <1>1, <1>2, <2>1, <2>4 DEF SameRequests
<1> QED BY <1>4, <1>5 DEF longer, more

\* The protocol after the next definition.
LEMMA DoneNext ==
  ASSUME NEW w \in Seq(Definitions), NEW d \in 1 .. Len(w), NEW p, Done(p, w, d - 1),
         DefinitionChecked(w, d), NEW q, NEW e, e.name = w[d].name,
         \/ /\ w[d].kind = "message"
            /\ q = [p EXCEPT !.messages = Append(@, e)]
            /\ SameFields(e.fields, w[d].fields, Len(w[d].fields))
         \/ /\ w[d].kind = "request"
            /\ q = [p EXCEPT !.requests = Append(@, e)]
            /\ SameFields(e.requestFields, w[d].fields, Len(w[d].fields))
            /\ SameFields(e.responseFields, w[d].response, Len(w[d].response))
  PROVE  Done(q, w, d)
<1>1. PICK n \in 0 .. Len(w) : n = d - 1
  BY LenProperties
<1> DEFINE M == Sel(w, n, "message")
           R == Sel(w, n, "request")
<1>2. /\ ASeq(M) /\ ASeq(R)
      /\ Sel(w, d, "message") = IF w[d].kind = "message" THEN Append(M, w[d]) ELSE M
      /\ Sel(w, d, "request") = IF w[d].kind = "request" THEN Append(R, w[d]) ELSE R
  <2>1. M \in Seq(Definitions) /\ R \in Seq(Definitions)
    BY SelNext
  <2>2. ASeq(M) /\ ASeq(R)
    BY <2>1, ASeqOf
  <2>3. \A kind : Sel(w, d, kind) = IF w[d].kind = kind THEN Append(Sel(w, d - 1, kind), w[d])
                                   ELSE Sel(w, d - 1, kind)
    BY SelNext
  <2> QED BY <1>1, <2>2, <2>3
<1>3. /\ IsProtocol(p) /\ p.fileNamespace = Namespace
      /\ SameMessages(p.messages, M) /\ SameRequests(p.requests, R)
      /\ \A i \in 1 .. n : DefinitionChecked(w, i)
  BY <1>1 DEF Done
<1> HIDE DEF M, R
<1>4. \A i \in 1 .. d : DefinitionChecked(w, i)
  <2>1. \A i \in 1 .. d : i \in 1 .. n \/ i = d
    BY <1>1, LenProperties
  <2> QED BY <1>3, <2>1
<1>5. CASE w[d].kind = "message"
  <2>1. /\ q = [p EXCEPT !.messages = Append(@, e)]
        /\ SameFields(e.fields, w[d].fields, Len(w[d].fields))
    BY <1>5
  <2>2. /\ IsProtocol(q) /\ q.fileNamespace = Namespace
        /\ q.messages = Append(p.messages, e) /\ q.requests = p.requests
    BY <1>3, <2>1 DEF IsProtocol
  <2>3. SameMessages(Append(p.messages, e), Append(M, w[d]))
    BY <1>2, <1>3, <2>1, MoreDefinitions
  <2> QED BY <1>2, <1>3, <1>4, <1>5, <2>2, <2>3 DEF Done
<1>6. CASE w[d].kind = "request"
  <2>1. /\ q = [p EXCEPT !.requests = Append(@, e)]
        /\ SameFields(e.requestFields, w[d].fields, Len(w[d].fields))
        /\ SameFields(e.responseFields, w[d].response, Len(w[d].response))
    BY <1>6
  <2>2. /\ IsProtocol(q) /\ q.fileNamespace = Namespace
        /\ q.messages = p.messages /\ q.requests = Append(p.requests, e)
    BY <1>3, <2>1 DEF IsProtocol
  <2>3. SameRequests(Append(p.requests, e), Append(R, w[d]))
    BY <1>2, <1>3, <2>1, MoreDefinitions
  <2> QED BY <1>2, <1>3, <1>4, <1>6, <2>2, <2>3 DEF Done
<1> QED BY <1>5, <1>6

\* The end of a block is the end of the definition, or of a request's fields.
LEMMA BlockEndStep ==
  ASSUME text \in Seq(Definitions), NEW d \in 1 .. Len(text), NEW b, IsBlock(text, d, b),
         BlockEnd(d, b), DefinitionNext
  PROVE  /\ text' = text /\ status' = "parsing"
         /\ Between(d)' \/ (IsBlock(text, d, 2) /\ InBlockStage(d, 2)')
<1> DEFINE w == text
           list == Block(w, d, b)
           left == FieldsLeft(w, d, b, Len(list))
<1>1. /\ left # <<>>
      /\ w[d].kind = "message" =>
           Head(left) = Rule("messageDefinition") /\ Tail(left) = DefinitionsLeft(w, d)
      /\ w[d].kind = "request" /\ b = 1 =>
           Head(left) = Rule("requestFields") /\ Tail(left) = FieldsLeft(w, d, 2, 0)
      /\ w[d].kind = "request" /\ b = 2 =>
           Head(left) = Rule("requestDefinition") /\ Tail(left) = DefinitionsLeft(w, d)
  BY BlockEndPositions
<1>2. /\ nodes = left /\ tokens = <<w[d].name>> /\ typeDefinitions = <<>>
      /\ Done(protocol, w, d - 1) /\ w[d].name \notin ReservedNames
      /\ SameFields(fields, list, Len(list)) /\ FieldsChecked(w, d, list, Len(list))
      /\ IF b = 1 THEN requestFields = <<>>
         ELSE /\ SameFields(requestFields, w[d].fields, Len(w[d].fields))
              /\ FieldsChecked(w, d, w[d].fields, Len(w[d].fields))
  BY DEF BlockEnd, InBlock
<1>3. /\ w[d].kind \in {"message", "request"} /\ b \in {1, 2}
      /\ w[d].kind = "message" => w[d].response = <<>> /\ b = 1
      /\ b = 1 => list = w[d].fields
      /\ b = 2 => list = w[d].response
  BY DefinitionWritten DEF IsBlock, Block
<1>4. Last(tokens) = w[d].name /\ Front(tokens) = <<>>
  BY <1>2, Tokens
<1> HIDE DEF list, left
<1>5. CASE w[d].kind = "message"
  <2>1. nodes # <<>> /\ Head(nodes).rule = "messageDefinition" /\ Tail(nodes) = DefinitionsLeft(w, d)
    BY <1>1, <1>2, <1>5, NodeHolds
  <2>2. ReduceMessage /\ status = "parsing" /\ text' = text
    BY <2>1, NextByRule DEF SimpleTypes, NumberTypes
  <2> DEFINE e == [fileNamespace |-> protocol.fileNamespace, name |-> Last(tokens),
                   fields |-> fields]
  <2>3. /\ protocol' = [protocol EXCEPT !.messages = Append(@, e)]
        /\ tokens' = Front(tokens) /\ fields' = <<>> /\ nodes' = Tail(nodes)
        /\ UNCHANGED <<typeDefinitions, requestFields, status>>
    BY <2>2 DEF ReduceMessage, Takes
  <2>4. e.name = w[d].name /\ e.fields = fields
    BY <1>4
  <2> HIDE DEF e
  <2>5. DefinitionChecked(w, d)
    <3>1. Len(<<>>) = 0
      BY EmptySeq
    <3>2. FieldsChecked(w, d, w[d].response, Len(w[d].response))
      BY <1>3, <1>5, <3>1, NoFields
    <3> QED BY <1>2, <1>3, <1>5, <3>2 DEF DefinitionChecked
  <2>6. Done(protocol', w, d)
    BY <1>2, <1>3, <1>5, <2>3, <2>4, <2>5, DoneNext
  <2>7. requestFields = <<>>
    BY <1>2, <1>3, <1>5
  <2>8. Between(d)'
    BY <1>2, <1>4, <2>1, <2>2, <2>3, <2>6, <2>7 DEF Between
  <2> QED BY <2>2, <2>3, <2>8
<1>6. CASE w[d].kind = "request" /\ b = 1
  <2>1. nodes # <<>> /\ Head(nodes).rule = "requestFields" /\ Tail(nodes) = FieldsLeft(w, d, 2, 0)
    BY <1>1, <1>2, <1>6, NodeHolds
  <2>2. ReduceRequestFields /\ status = "parsing" /\ text' = text
    BY <2>1, NextByRule DEF SimpleTypes, NumberTypes
  <2>3. /\ requestFields' = fields /\ fields' = <<>> /\ nodes' = Tail(nodes)
        /\ UNCHANGED <<tokens, typeDefinitions, protocol, status>>
    BY <2>2 DEF ReduceRequestFields, Takes
  <2>4. SameFields(<<>>, Block(w, d, 2), 0) /\ FieldsChecked(w, d, Block(w, d, 2), 0)
    BY NoFields
  <2>5. InBlock(d, 2, 0)'
    BY <1>2, <1>3, <1>6, <2>2, <2>3, <2>4 DEF InBlock
  <2>6. AtField(d, 2, 0)'
    BY <1>2, <2>1, <2>2, <2>3, <2>5 DEF AtField
  <2>7. IsBlock(text', d, 2) /\ IsBlock(text, d, 2) /\ text' \in Seq(Definitions)
        /\ d \in 1 .. Len(text')
    BY <1>6, <2>2 DEF IsBlock
  <2>8. 0 \in 0 .. Len(Block(text', d, 2))
    BY <2>7, FieldPositions
  <2>9. InBlockStage(d, 2)'
    BY <2>6, <2>7, <2>8, AtFieldStage
  <2> QED BY <2>2, <2>3, <2>7, <2>9
<1>7. CASE w[d].kind = "request" /\ b = 2
  <2>1. nodes # <<>> /\ Head(nodes).rule = "requestDefinition" /\ Tail(nodes) = DefinitionsLeft(w, d)
    BY <1>1, <1>2, <1>7, NodeHolds
  <2>2. ReduceRequest /\ status = "parsing" /\ text' = text
    BY <2>1, NextByRule DEF SimpleTypes, NumberTypes
  <2> DEFINE e == [fileNamespace |-> protocol.fileNamespace, name |-> Last(tokens),
                   requestFields |-> requestFields, responseFields |-> fields]
  <2>3. /\ protocol' = [protocol EXCEPT !.requests = Append(@, e)]
        /\ tokens' = Front(tokens) /\ fields' = <<>> /\ requestFields' = <<>> /\ nodes' = Tail(nodes)
        /\ UNCHANGED <<typeDefinitions, status>>
    BY <2>2 DEF ReduceRequest, Takes
  <2>4. e.name = w[d].name /\ e.requestFields = requestFields /\ e.responseFields = fields
    BY <1>4
  <2> HIDE DEF e
  <2>5. DefinitionChecked(w, d)
    BY <1>2, <1>3, <1>7 DEF DefinitionChecked
  <2>6. Done(protocol', w, d)
    BY <1>2, <1>3, <1>7, <2>3, <2>4, <2>5, DoneNext
  <2>7. Between(d)'
    BY <1>2, <1>4, <2>1, <2>2, <2>3, <2>6 DEF Between
  <2> QED BY <2>2, <2>3, <2>7
<1> QED BY <1>3, <1>5, <1>6, <1>7

\* When no node is left, what was parsed is validated.
LEMMA NextAtEnd ==
  ASSUME DefinitionNext, nodes = <<>>
  PROVE  Validate
<1>1. \A rule : ~Takes(rule)
  BY DEF Takes
<1>2. \A symbol : ~TakeToken(symbol)
  BY <1>1 DEF TakeToken
<1>3. \A type : ~ReduceSimple(type)
  BY <1>1 DEF ReduceSimple
<1>4. /\ ~ReduceNamespace /\ ~ReduceMessage /\ ~ReduceRequest /\ ~ReduceRequestFields
      /\ ~ReduceField /\ ~ReduceList /\ ~ReduceMap /\ ~ReduceName
  BY <1>1 DEF ReduceNamespace, ReduceMessage, ReduceRequest, ReduceRequestFields, ReduceField,
              ReduceList, ReduceMap, ReduceName
<1> QED BY <1>2, <1>3, <1>4 DEF DefinitionNext

\* Only what is being parsed is parsed further.
LEMMA NextIsParsing ==
  ASSUME DefinitionNext
  PROVE  status = "parsing"
<1>1. CASE nodes = <<>>
  BY <1>1, NextAtEnd DEF Validate
<1>2. CASE nodes # <<>>
  BY <1>2, NextByRule
<1> QED BY <1>1, <1>2

\* The parser starts in its first stage.
LEMMA ParseInit ==
  DefinitionInit => ParseInv
BY DEF DefinitionInit, ParseInv, Parsing, Start

\* The stages of the parser follow one another.
LEMMA ParseStep ==
  ParseInv /\ DefinitionNext => ParseInv'
<1> SUFFICES ASSUME ParseInv, DefinitionNext
             PROVE  ParseInv'
  OBVIOUS
<1>1. text \in Texts /\ text \in Seq(Definitions) /\ Len(text) \in Nat
  BY TextsAssumption, LenProperties DEF ParseInv
<1>2. Parsing
  BY NextIsParsing DEF ParseInv
<1>3. ASSUME text' = text, status' = "rejected", ~Legal(text)
      PROVE  ParseInv'
  BY <1>1, <1>3 DEF ParseInv
<1>4. ASSUME text' = text, status' = "parsing", Parsing'
      PROVE  ParseInv'
  BY <1>1, <1>4 DEF ParseInv
<1>5. ASSUME text' = text, NEW d \in 0 .. Len(text), Between(d)'
      PROVE  Parsing'
  BY <1>5 DEF Parsing
<1>6. ASSUME text' = text, NEW d \in 1 .. Len(text), NEW b \in {1, 2}, IsBlock(text, d, b),
             InBlockStage(d, b)'
      PROVE  Parsing'
  BY <1>6 DEF Parsing
<1>7. CASE Start
  <2>1. status' = "parsing" /\ text' = text /\ (Start' \/ Between(0)')
    BY <1>1, <1>7, StartStep
  <2>2. 0 \in 0 .. Len(text)
    BY <1>1
  <2>3. Parsing'
    <3>1. CASE Start'
      BY <3>1 DEF Parsing
    <3>2. CASE Between(0)'
      BY <2>1, <2>2, <3>2, <1>5
    <3> QED BY <2>1, <3>1, <3>2
  <2> QED BY <2>1, <2>3, <1>4
<1>8. ASSUME NEW d \in 0 .. Len(text), Between(d)
      PROVE  ParseInv'
  <2>1. CASE d = Len(text)
    <3>1. nodes = <<>> /\ Done(protocol, text, Len(text))
      BY <1>1, <1>8, <2>1, DefinitionPositions DEF Between
    <3>2. /\ status' = IF ValidateProtocolDefinition(protocol) THEN "accepted" ELSE "rejected"
          /\ UNCHANGED <<text, nodes, tokens, typeDefinitions, fields, requestFields, protocol>>
      BY <3>1, NextAtEnd DEF Validate
    <3>3. ValidateProtocolDefinition(protocol) <=> Legal(text)
      BY <1>1, <3>1, ValidatesIfLegal
    <3>4. CASE Legal(text)
      <4>1. status' = "accepted" /\ ValidateProtocolDefinition(protocol)
        BY <3>2, <3>3, <3>4
      <4>2. Between(Len(text))'
        BY <1>8, <2>1, <3>2 DEF Between
      <4> QED BY <1>1, <3>2, <3>4, <4>1, <4>2 DEF ParseInv
    <3>5. CASE ~Legal(text)
      BY <1>3, <3>2, <3>3, <3>5
    <3> QED BY <3>4, <3>5
  <2>2. CASE d # Len(text)
    <3>1. PICK e \in 1 .. Len(text) : e - 1 = d
      <4>1. d + 1 \in 1 .. Len(text) /\ d + 1 - 1 = d
        BY <1>1, <2>2
      <4> QED BY <4>1
    <3>2. Between(e - 1)
      BY <1>8, <3>1
    <3>3. /\ text' = text
          /\ \/ status' = "rejected" /\ ~Legal(text)
             \/ status' = "parsing" /\ InBlockStage(e, 1)'
      BY <1>1, <3>2, BetweenStep
    <3>4. IsBlock(text, e, 1)
      BY DEF IsBlock
    <3> QED BY <1>3, <1>4, <1>6, <3>3, <3>4
  <2> QED BY <2>1, <2>2
<1>9. ASSUME NEW d \in 1 .. Len(text), NEW b \in {1, 2}, IsBlock(text, d, b), InBlockStage(d, b)
      PROVE  ParseInv'
  <2>1. CASE BlockEnd(d, b)
    <3>1. /\ text' = text /\ status' = "parsing"
          /\ Between(d)' \/ (IsBlock(text, d, 2) /\ InBlockStage(d, 2)')
      BY <1>1, <1>9, <2>1, BlockEndStep
    <3>2. d \in 0 .. Len(text)
      BY <1>1
    <3>3. Parsing'
      BY <1>5, <1>6, <3>1, <3>2
    <3> QED BY <1>4, <3>1, <3>3
  <2>2. ASSUME text' = text, \/ status' = "rejected" /\ ~Legal(text)
                             \/ status' = "parsing" /\ InBlockStage(d, b)'
        PROVE  ParseInv'
    BY <1>3, <1>4, <1>6, <1>9, <2>2
  <2>3. ASSUME NEW f \in 1 .. Len(Block(text, d, b)), InField(d, b, f)
        PROVE  ParseInv'
    <3>1. text' = text /\ status' = "parsing" /\ InBlockStage(d, b)'
      BY <1>1, <1>9, <2>3, InFieldStep
    <3> QED BY <2>2, <3>1
  <2>4. ASSUME NEW f \in 1 .. Len(Block(text, d, b)), NEW n \in 0 .. Len(Block(text, d, b)[f].type),
               InType(d, b, f, n)
        PROVE  ParseInv'
    <3>1. /\ text' = text
          /\ \/ status' = "rejected" /\ ~Legal(text)
             \/ status' = "parsing" /\ InBlockStage(d, b)'
      BY <1>1, <1>9, <2>4, InTypeStep
    <3> QED BY <2>2, <3>1
  <2>5. ASSUME NEW f \in 1 .. Len(Block(text, d, b)), NEW n \in 0 .. Len(Block(text, d, b)[f].type),
               n # 0, InName(d, b, f, n)
        PROVE  ParseInv'
    <3>1. Len(Block(text, d, b)[f].type) \in Nat
      <4>1. Block(text, d, b)[f].type \in Types
        BY <1>1, <1>9, FieldPositions
      <4> QED BY <4>1, TypeIsNodes
    <3>2. n \in 1 .. Len(Block(text, d, b)[f].type)
      BY <2>5, <3>1
    <3>3. /\ text' = text
          /\ \/ status' = "rejected" /\ ~Legal(text)
             \/ status' = "parsing" /\ InBlockStage(d, b)'
      BY <1>1, <1>9, <2>5, <3>2, InNameStep
    <3> QED BY <2>2, <3>3
  <2> QED BY <1>9, <2>1, <2>3, <2>4, <2>5 DEF InBlockStage
<1> QED BY <1>2, <1>7, <1>8, <1>9 DEF Parsing

\* After the parser the program goes on without it.
LEMMA ParseStutter ==
  ASSUME ParseInv, UNCHANGED <<text, nodes, tokens, typeDefinitions, fields, requestFields, protocol>>,
         \/ UNCHANGED status
         \/ status \notin {"parsing", "rejected"} /\ status' \notin {"parsing", "rejected"}
  PROVE  ParseInv'
<1>1. Between(Len(text)) => Between(Len(text))'
  BY DEF Between
<1>2. CASE status' \notin {"parsing", "rejected"}
  <2>1. status \notin {"parsing", "rejected"}
    BY <1>2
  <2>2. Legal(text) /\ Between(Len(text)) /\ ValidateProtocolDefinition(protocol)
    BY <2>1 DEF ParseInv
  <2> QED BY <1>1, <1>2, <2>2 DEF ParseInv
<1>3. CASE status' = "rejected"
  BY <1>3 DEF ParseInv
<1>4. CASE status' = "parsing"
  <2>1. status = "parsing" /\ Parsing
    BY <1>4 DEF ParseInv
  <2>2. Start => Start'
    BY DEF Start
  <2>3. \A d : Between(d) => Between(d)'
    BY DEF Between
  <2>4. \A d, b, f : InBlock(d, b, f) => InBlock(d, b, f)'
    BY DEF InBlock
  <2>5. \A d, b : BlockEnd(d, b) => BlockEnd(d, b)'
    BY <2>4 DEF BlockEnd
  <2>6. \A d, b, f, n : InType(d, b, f, n) => InType(d, b, f, n)'
    BY <2>4 DEF InType
  <2>7. \A d, b, f, n : InName(d, b, f, n) => InName(d, b, f, n)'
    BY <2>4 DEF InName
  <2>8. \A d, b, f : InField(d, b, f) => InField(d, b, f)'
    BY <2>4 DEF InField
  <2>9. \A d, b : InBlockStage(d, b) => InBlockStage(d, b)'
    BY <2>5, <2>6, <2>7, <2>8 DEF InBlockStage
  <2>10. Parsing'
    BY <2>1, <2>2, <2>3, <2>9 DEF Parsing
  <2> QED BY <1>4, <2>10 DEF ParseInv
<1> QED BY <1>2, <1>3, <1>4

\* Fields that are the same are those that were written.
LEMMA SamePlain ==
  ASSUME NEW written \in FieldLists, NEW list, SameFields(list, written, Len(written))
  PROVE  PlainFields(list) = written
<1>1. /\ Len(written) \in Nat /\ DOMAIN written = 1 .. Len(written)
      /\ written \in Seq([type : Types, name : STRING])
  BY FieldWritten DEF FieldLists
<1>2. DOMAIN list = 1 .. Len(written)
  BY NamesOfFirst DEF SameFields
<1>3. \A i \in 1 .. Len(written) : written[i] \in [type : Types, name : STRING]
  BY <1>1, ElementOfSeq
<1>4. ASSUME NEW i \in 1 .. Len(written)
      PROVE  [type |-> list[i].type.nodes, name |-> list[i].name] = written[i]
  <2>1. list[i].type.nodes = written[i].type /\ list[i].name = written[i].name
    BY DEF SameFields
  <2> QED BY <2>1, <1>3
<1>5. PlainFields(list) = [i \in 1 .. Len(written) |-> written[i]]
  BY <1>2, <1>4 DEF PlainFields
<1>6. written = [i \in 1 .. Len(written) |-> written[i]]
  BY <1>1
<1> QED BY <1>5, <1>6

\* A whole text.
LEMMA SelWhole ==
  ASSUME NEW w \in Seq(Definitions), NEW kind
  PROVE  LET all == OfKind(w, kind) IN
         /\ Sel(w, Len(w), kind) = all
         /\ Len(all) \in Nat /\ all = [i \in 1 .. Len(all) |-> all[i]]
         /\ \A i \in 1 .. Len(all) : all[i] \in Definitions /\ all[i].kind = kind
<1> DEFINE all == OfKind(w, kind)
<1>1. Len(w) \in Nat /\ Len(w) \in 0 .. Len(w)
  BY LenProperties
<1>2. SubSeq(w, 1, Len(w)) = w
  BY SubSeqFull
<1>3. Sel(w, Len(w), kind) = all
  BY <1>2 DEF Sel
<1>4. all \in Seq(Definitions)
  BY <1>1, <1>3, SelNext
<1>5. \A m \in 1 .. Len(all) : \E i \in 1 .. Len(w) : w[i].kind = kind /\ Len(Sel(w, i, kind)) = m
  BY <1>1, <1>3, SelPositions
<1>6. \A i \in 1 .. Len(w) : w[i].kind = kind => all[Len(Sel(w, i, kind))] = w[i]
  BY <1>1, <1>3, SelPositions
<1> HIDE DEF all
<1>7. Len(all) \in Nat /\ DOMAIN all = 1 .. Len(all) /\ \A i \in 1 .. Len(all) : all[i] \in Definitions
  BY <1>4, LenProperties, ElementOfSeq
<1>8. all = [i \in 1 .. Len(all) |-> all[i]]
  BY <1>4, <1>7
<1>9. \A i \in 1 .. Len(all) : all[i].kind = kind
  BY <1>5, <1>6
<1> QED BY <1>3, <1>7, <1>8, <1>9 DEF all

\* Messages and requests that are the same are those that were written.
LEMMA SameDefinitions ==
  ASSUME NEW w \in Seq(Definitions), NEW p, Done(p, w, Len(w))
  PROVE  /\ OfKind(w, "message") =
              [i \in DOMAIN p.messages |->
                 [kind |-> "message", name |-> p.messages[i].name,
                  fields |-> PlainFields(p.messages[i].fields), response |-> <<>>]]
         /\ OfKind(w, "request") =
              [i \in DOMAIN p.requests |->
                 [kind |-> "request", name |-> p.requests[i].name,
                  fields |-> PlainFields(p.requests[i].requestFields),
                  response |-> PlainFields(p.requests[i].responseFields)]]
<1> DEFINE M == OfKind(w, "message")
           R == OfKind(w, "request")
<1>1. /\ Len(M) \in Nat /\ M = [i \in 1 .. Len(M) |-> M[i]]
      /\ \A i \in 1 .. Len(M) : M[i] \in Definitions /\ M[i].kind = "message"
      /\ Len(R) \in Nat /\ R = [i \in 1 .. Len(R) |-> R[i]]
      /\ \A i \in 1 .. Len(R) : R[i] \in Definitions /\ R[i].kind = "request"
  BY SelWhole
<1>2. SameMessages(p.messages, M) /\ SameRequests(p.requests, R)
  BY SelWhole DEF Done
<1> HIDE DEF M, R
<1>3. DOMAIN p.messages = 1 .. Len(M) /\ DOMAIN p.requests = 1 .. Len(R)
  BY <1>2, NamesOfFirst DEF SameMessages, SameRequests
<1>4. ASSUME NEW i \in 1 .. Len(M)
      PROVE  M[i] = [kind |-> "message", name |-> p.messages[i].name,
                     fields |-> PlainFields(p.messages[i].fields), response |-> <<>>]
  <2>1. M[i] \in [kind : {"message"}, name : STRING, fields : FieldLists, response : {<<>>}]
    BY <1>1 DEF Definitions
  <2>2. /\ p.messages[i].name = M[i].name
        /\ SameFields(p.messages[i].fields, M[i].fields, Len(M[i].fields))
    BY <1>2 DEF SameMessages
  <2>3. M[i].fields \in FieldLists
    BY <2>1
  <2>4. PlainFields(p.messages[i].fields) = M[i].fields
    BY <2>2, <2>3, SamePlain
  <2> QED BY <2>1, <2>2, <2>4
<1>5. ASSUME NEW i \in 1 .. Len(R)
      PROVE  R[i] = [kind |-> "request", name |-> p.requests[i].name,
                     fields |-> PlainFields(p.requests[i].requestFields),
                     response |-> PlainFields(p.requests[i].responseFields)]
  <2>1. R[i] \in [kind : {"request"}, name : STRING, fields : FieldLists, response : FieldLists]
    BY <1>1 DEF Definitions
  <2>2. /\ p.requests[i].name = R[i].name
        /\ SameFields(p.requests[i].requestFields, R[i].fields, Len(R[i].fields))
        /\ SameFields(p.requests[i].responseFields, R[i].response, Len(R[i].response))
    BY <1>2 DEF SameRequests
  <2>3. R[i].fields \in FieldLists /\ R[i].response \in FieldLists
    BY <2>1
  <2>4. /\ PlainFields(p.requests[i].requestFields) = R[i].fields
        /\ PlainFields(p.requests[i].responseFields) = R[i].response
    BY <2>2, <2>3, SamePlain
  <2> QED BY <2>1, <2>2, <2>4
<1>6. M = [i \in DOMAIN p.messages |->
             [kind |-> "message", name |-> p.messages[i].name,
              fields |-> PlainFields(p.messages[i].fields), response |-> <<>>]]
  BY <1>1, <1>3, <1>4
<1>7. R = [i \in DOMAIN p.requests |->
             [kind |-> "request", name |-> p.requests[i].name,
              fields |-> PlainFields(p.requests[i].requestFields),
              response |-> PlainFields(p.requests[i].responseFields)]]
  BY <1>1, <1>3, <1>5
<1> QED BY <1>6, <1>7 DEF M, R

\* What is accepted is what was written, and whatever is legal.
LEMMA ParsedAsWritten ==
  ParseInv => AcceptedAsWritten
<1> SUFFICES ASSUME ParseInv
             PROVE  AcceptedAsWritten
  OBVIOUS
<1>1. status = "rejected" => ~Legal(text)
  BY DEF ParseInv
<1>2. ASSUME status \notin {"parsing", "rejected"}
      PROVE  /\ Legal(text)
             /\ protocol.fileNamespace = Namespace
             /\ tokens = <<>> /\ typeDefinitions = <<>>
             /\ text \in Seq(Definitions) /\ Done(protocol, text, Len(text))
  BY <1>2, TextsAssumption DEF ParseInv, Between, Done
<1> QED BY <1>1, <1>2, SameDefinitions DEF AcceptedAsWritten
=============================================================================
