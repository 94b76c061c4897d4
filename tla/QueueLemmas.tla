---------------------------- MODULE QueueLemmas ----------------------------
(* Facts about queues that hold a set of entries, each of them once, and   *)
(* about sets of numbers.                                                  *)
EXTENDS Queues, SequenceTheorems, FiniteSetTheorems, WellFoundedInduction, TLAPS

\* Appending an entry that the queue does not hold yet.
LEMMA HoldsOnceAppend ==
  ASSUME NEW T, NEW q \in Seq(T), NEW S, NEW x \in T, x \notin S, HoldsOnce(q, S)
  PROVE  HoldsOnce(Append(q, x), S \cup {x})
<1> DEFINE r == Append(q, x)
<1>1. /\ r \in Seq(T)
      /\ Len(r) = Len(q) + 1
      /\ \A i \in 1 .. Len(q) : r[i] = q[i]
      /\ r[Len(q) + 1] = x
  BY AppendProperties
<1>2. /\ Len(q) \in Nat
      /\ DOMAIN q = 1 .. Len(q)
      /\ DOMAIN r = 1 .. Len(q) + 1
  BY <1>1, LenProperties
<1>3. \A i \in DOMAIN q : q[i] \in S
  BY DEF HoldsOnce
<1> HIDE DEF r
<1>4. \A i, j \in DOMAIN r : r[i] = r[j] => i = j
  <2> SUFFICES ASSUME NEW i \in DOMAIN r, NEW j \in DOMAIN r, r[i] = r[j]
               PROVE  i = j
    OBVIOUS
  <2>1. CASE i \in 1 .. Len(q) /\ j \in 1 .. Len(q)
    BY <1>1, <1>2, <2>1 DEF HoldsOnce
  <2>2. CASE i = Len(q) + 1 /\ j \in 1 .. Len(q)
    BY <1>1, <1>2, <1>3, <2>2
  <2>3. CASE j = Len(q) + 1 /\ i \in 1 .. Len(q)
    BY <1>1, <1>2, <1>3, <2>3
  <2> QED BY <1>2, <2>1, <2>2, <2>3
<1>5. {r[i] : i \in DOMAIN r} = S \cup {x}
  <2>1. ASSUME NEW i \in DOMAIN r PROVE r[i] \in S \cup {x}
    BY <1>1, <1>2, <1>3
  <2>2. ASSUME NEW y \in S PROVE \E i \in DOMAIN r : r[i] = y
    <3>1. PICK i \in DOMAIN q : q[i] = y
      BY DEF HoldsOnce
    <3> QED BY <3>1, <1>1, <1>2
  <2>3. \E i \in DOMAIN r : r[i] = x
    BY <1>1, <1>2
  <2> QED BY <2>1, <2>2, <2>3
<1> QED BY <1>4, <1>5 DEF HoldsOnce, r

\* Taking the first entry.
LEMMA HoldsOnceTail ==
  ASSUME NEW T, NEW q \in Seq(T), NEW S, q # <<>>, HoldsOnce(q, S)
  PROVE  /\ Head(q) \in S
         /\ HoldsOnce(Tail(q), S \ {Head(q)})
<1> DEFINE r == Tail(q)
<1>1. /\ r \in Seq(T)
      /\ Len(r) = Len(q) - 1
      /\ \A i \in 1 .. Len(r) : r[i] = q[i + 1]
  BY HeadTailProperties
<1>2. /\ Len(q) \in Nat \ {0}
      /\ DOMAIN q = 1 .. Len(q)
      /\ DOMAIN r = 1 .. Len(q) - 1
      /\ Head(q) = q[1]
  BY <1>1, LenProperties, EmptySeq
<1> HIDE DEF r
<1>3. Head(q) \in S
  BY <1>2 DEF HoldsOnce
<1>4. \A i, j \in DOMAIN r : r[i] = r[j] => i = j
  <2> SUFFICES ASSUME NEW i \in DOMAIN r, NEW j \in DOMAIN r, r[i] = r[j]
               PROVE  i = j
    OBVIOUS
  <2>1. i + 1 \in DOMAIN q /\ j + 1 \in DOMAIN q /\ q[i + 1] = q[j + 1]
    BY <1>1, <1>2
  <2> QED BY <2>1, <1>2 DEF HoldsOnce
<1>5. {r[i] : i \in DOMAIN r} = S \ {Head(q)}
  <2>1. ASSUME NEW i \in DOMAIN r PROVE r[i] \in S \ {Head(q)}
    <3>1. i + 1 \in DOMAIN q /\ r[i] = q[i + 1] /\ i + 1 # 1 /\ 1 \in DOMAIN q
      BY <1>1, <1>2
    <3> QED BY <3>1, <1>2 DEF HoldsOnce
  <2>2. ASSUME NEW y \in S \ {Head(q)} PROVE \E i \in DOMAIN r : r[i] = y
    <3>1. PICK i \in DOMAIN q : q[i] = y
      BY DEF HoldsOnce
    <3>2. i - 1 \in DOMAIN r /\ r[i - 1] = y
      <4>1. i # 1
        BY <3>1, <1>2
      <4>2. i - 1 \in 1 .. Len(r) /\ (i - 1) + 1 = i
        BY <4>1, <1>1, <1>2
      <4> QED BY <4>2, <3>1, <1>1, <1>2
    <3> QED BY <3>2
  <2> QED BY <2>1, <2>2
<1> QED BY <1>3, <1>4, <1>5 DEF HoldsOnce, r

\* A non-empty queue followed by another one: its first entry comes first.
LEMMA TailOfConcat ==
  ASSUME NEW T, NEW e \in Seq(T), NEW p \in Seq(T), e # <<>>
  PROVE  /\ e \o p \in Seq(T)
         /\ e \o p # <<>>
         /\ Head(e \o p) = Head(e)
         /\ Tail(e \o p) = Tail(e) \o p
<1>1. /\ e \o p \in Seq(T)
      /\ Len(e \o p) = Len(e) + Len(p)
      /\ \A i \in 1 .. Len(e) + Len(p) :
           (e \o p)[i] = IF i <= Len(e) THEN e[i] ELSE p[i - Len(e)]
  BY ConcatProperties
<1>2. Len(e) \in Nat \ {0} /\ Len(p) \in Nat
  BY EmptySeq, LenProperties
<1>3. e \o p # <<>>
  BY ConcatEqualIffEmpty
<1>4. Head(e \o p) = Head(e)
  BY <1>1, <1>2
<1>5. /\ Tail(e) \in Seq(T)
      /\ Len(Tail(e)) = Len(e) - 1
      /\ \A i \in 1 .. Len(Tail(e)) : Tail(e)[i] = e[i + 1]
  BY HeadTailProperties
<1>6. /\ Tail(e \o p) \in Seq(T)
      /\ Len(Tail(e \o p)) = Len(e \o p) - 1
      /\ \A i \in 1 .. Len(Tail(e \o p)) : Tail(e \o p)[i] = (e \o p)[i + 1]
  BY <1>1, <1>3, HeadTailProperties
<1>7. /\ Tail(e) \o p \in Seq(T)
      /\ Len(Tail(e) \o p) = Len(Tail(e)) + Len(p)
      /\ \A i \in 1 .. Len(Tail(e)) + Len(p) :
           (Tail(e) \o p)[i] = IF i <= Len(Tail(e)) THEN Tail(e)[i] ELSE p[i - Len(Tail(e))]
  BY <1>5, ConcatProperties
<1>8. Len(Tail(e \o p)) = Len(Tail(e) \o p)
  BY <1>1, <1>2, <1>5, <1>6, <1>7
<1>9. \A i \in 1 .. Len(Tail(e \o p)) : Tail(e \o p)[i] = (Tail(e) \o p)[i]
  <2> SUFFICES ASSUME NEW i \in 1 .. Len(e) + Len(p) - 1
               PROVE  Tail(e \o p)[i] = (Tail(e) \o p)[i]
    BY <1>1, <1>6
  <2>1. Tail(e \o p)[i] = IF i + 1 <= Len(e) THEN e[i + 1] ELSE p[i + 1 - Len(e)]
    BY <1>1, <1>2, <1>6
  <2>2. (Tail(e) \o p)[i] = IF i <= Len(e) - 1 THEN e[i + 1] ELSE p[i - (Len(e) - 1)]
    BY <1>2, <1>5, <1>7
  <2>3. i + 1 - Len(e) = i - (Len(e) - 1)
    BY <1>2
  <2> QED BY <2>1, <2>2, <2>3, <1>2
<1>10. Tail(e \o p) = Tail(e) \o p
  BY <1>6, <1>7, <1>8, <1>9, SeqEqual
<1> QED BY <1>1, <1>3, <1>4, <1>10

\* Appending to the second of two queues appends to both together.
LEMMA AppendToConcat ==
  ASSUME NEW T, NEW e \in Seq(T), NEW p \in Seq(T), NEW x \in T
  PROVE  e \o Append(p, x) = Append(e \o p, x)
<1>1. Append(p, x) = p \o <<x>> /\ Append(e \o p, x) = (e \o p) \o <<x>>
  BY AppendIsConcat, ConcatProperties
<1>2. <<x>> \in Seq(T)
  OBVIOUS
<1> QED BY <1>1, <1>2, ConcatAssociative

\* Moving the front of one queue to an empty queue before it.
LEMMA SplitQueue ==
  ASSUME NEW T, NEW p \in Seq(T), NEW n \in 1 .. Len(p)
  PROVE  /\ SubSeq(p, 1, n) \in Seq(T)
         /\ SubSeq(p, n + 1, Len(p)) \in Seq(T)
         /\ SubSeq(p, 1, n) \o SubSeq(p, n + 1, Len(p)) = p
<1>1. Len(p) \in Nat /\ \A i \in 1 .. Len(p) : p[i] \in T
  BY LenProperties, ElementOfSeq
<1>2. SubSeq(p, 1, n) \in Seq(T)
  BY <1>1, SubSeqProperties
<1>3. SubSeq(p, n + 1, Len(p)) \in Seq(T)
  BY <1>1, SubSeqProperties
<1>4. SubSeq(p, 1, n) \o SubSeq(p, n + 1, Len(p)) = SubSeq(p, 1, Len(p))
  BY <1>1, ConcatAdjacentSubSeq
<1> QED BY <1>2, <1>3, <1>4, SubSeqFull

\* All but the last entry of a queue.
LEMMA FrontOfAppend ==
  ASSUME NEW T, NEW p \in Seq(T), NEW x \in T
  PROVE  SubSeq(Append(p, x), 1, Len(Append(p, x)) - 1) = p
<1> DEFINE r == Append(p, x)
           f == SubSeq(r, 1, Len(p))
<1>1. /\ r \in Seq(T)
      /\ Len(r) = Len(p) + 1
      /\ \A i \in 1 .. Len(p) : r[i] = p[i]
  BY AppendProperties
<1>2. Len(p) \in Nat
  BY LenProperties
<1>3. \A i \in 1 .. Len(p) : r[i] \in T
  BY <1>1, ElementOfSeq
<1> HIDE DEF r
<1>4. /\ f \in Seq(T)
      /\ Len(f) = IF 1 <= Len(p) THEN Len(p) - 1 + 1 ELSE 0
      /\ \A i \in 1 .. Len(p) - 1 + 1 : f[i] = r[1 + i - 1]
  BY <1>2, <1>3, SubSeqProperties
<1> HIDE DEF f
<1>5. Len(f) = Len(p) /\ \A i \in 1 .. Len(f) : f[i] = p[i]
  BY <1>1, <1>2, <1>4
<1>6. f = p
  BY <1>4, <1>5, SeqEqual
<1>7. Len(r) - 1 = Len(p)
  BY <1>1, <1>2
<1> QED BY <1>6, <1>7 DEF f, r

\* A queue that is not empty is its front and its last entry.
LEMMA FrontAndLast ==
  ASSUME NEW T, NEW p \in Seq(T), p # <<>>
  PROVE  /\ SubSeq(p, 1, Len(p) - 1) \in Seq(T)
         /\ Len(SubSeq(p, 1, Len(p) - 1)) = Len(p) - 1
         /\ p = Append(SubSeq(p, 1, Len(p) - 1), p[Len(p)])
<1>1. PICK s \in Seq(T), x \in T : p = Append(s, x)
  BY SequenceEmptyOrAppend
<1>2. SubSeq(p, 1, Len(p) - 1) = s
  BY <1>1, FrontOfAppend
<1>3. Len(p) = Len(s) + 1 /\ p[Len(p)] = x /\ Len(s) \in Nat
  BY <1>1, AppendProperties, LenProperties
<1> QED BY <1>1, <1>2, <1>3

\* Taking the last entry back.
LEMMA HoldsOnceFront ==
  ASSUME NEW T, NEW q \in Seq(T), NEW S, NEW x \in T, HoldsOnce(Append(q, x), S)
  PROVE  /\ x \in S
         /\ HoldsOnce(q, S \ {x})
<1> DEFINE r == Append(q, x)
<1>1. /\ r \in Seq(T)
      /\ Len(r) = Len(q) + 1
      /\ \A i \in 1 .. Len(q) : r[i] = q[i]
      /\ r[Len(q) + 1] = x
  BY AppendProperties
<1>2. /\ Len(q) \in Nat
      /\ DOMAIN q = 1 .. Len(q)
      /\ DOMAIN r = 1 .. Len(q) + 1
  BY <1>1, LenProperties
<1>3. HoldsOnce(r, S)
  OBVIOUS
<1> HIDE DEF r
<1>4. x \in S
  BY <1>1, <1>2, <1>3 DEF HoldsOnce
<1>5. \A i, j \in DOMAIN q : q[i] = q[j] => i = j
  <2> SUFFICES ASSUME NEW i \in DOMAIN q, NEW j \in DOMAIN q, q[i] = q[j]
               PROVE  i = j
    OBVIOUS
  <2>1. i \in DOMAIN r /\ j \in DOMAIN r /\ r[i] = r[j]
    BY <1>1, <1>2
  <2> QED BY <2>1, <1>3 DEF HoldsOnce
<1>6. {q[i] : i \in DOMAIN q} = S \ {x}
  <2>1. ASSUME NEW i \in DOMAIN q PROVE q[i] \in S \ {x}
    <3>1. /\ i \in DOMAIN r
          /\ Len(q) + 1 \in DOMAIN r
          /\ r[i] = q[i]
          /\ i # Len(q) + 1
      BY <1>1, <1>2
    <3> QED BY <3>1, <1>1, <1>3 DEF HoldsOnce
  <2>2. ASSUME NEW y \in S \ {x} PROVE \E i \in DOMAIN q : q[i] = y
    <3>1. PICK i \in DOMAIN r : r[i] = y
      BY <1>3 DEF HoldsOnce
    <3> QED BY <3>1, <1>1, <1>2
  <2> QED BY <2>1, <2>2
<1> QED BY <1>4, <1>5, <1>6 DEF HoldsOnce

\* A set of numbers that is not empty has a smallest element.
LEMMA SmallestElement ==
  ASSUME NEW N \in Nat, NEW D \in SUBSET (1 .. N), D # {}
  PROVE  \E n \in D : \A m \in D : n <= m
<1> DEFINE Below(n) == {m \in D : m <= n}
           T == {Below(n) : n \in D}
           R == StrictSubsetOrdering(1 .. N)
<1>1. IsFiniteSet(1 .. N)
  BY FS_Interval
<1>2. \A n \in D : Below(n) \in FiniteSubsetsOf(1 .. N)
  <2> SUFFICES ASSUME NEW n \in D PROVE Below(n) \in FiniteSubsetsOf(1 .. N)
    OBVIOUS
  <2>1. Below(n) \in SUBSET (1 .. N)
    OBVIOUS
  <2> QED BY <2>1, <1>1, FS_Subset DEF FiniteSubsetsOf
<1>3. IsWellFoundedOn(R, FiniteSubsetsOf(1 .. N))
  BY FS_StrictSubsetOrderingWellFounded
<1>4. T \subseteq FiniteSubsetsOf(1 .. N) /\ T # {}
  BY <1>2
<1>5. \E x \in T : \A y \in T : ~ (<<y, x>> \in R)
  <2> HIDE DEF T, R
  <2> QED BY <1>3, <1>4, WFMin
<1>6. PICK n \in D : \A m \in D : ~ (<<Below(m), Below(n)>> \in R)
  BY <1>5
<1>7. ASSUME NEW m \in D, ~ (n <= m) PROVE FALSE
  <2>1. m \in Nat /\ n \in Nat /\ m < n
    BY <1>7
  <2>2. Below(m) \subseteq Below(n)
    <3>1. ASSUME NEW x \in Below(m) PROVE x \in Below(n)
      <4>1. x \in D /\ x \in Nat /\ x <= m
        OBVIOUS
      <4>2. x <= n
        BY <2>1, <4>1
      <4> QED BY <4>1, <4>2
    <3> QED BY <3>1
  <2>3. n \in Below(n) /\ ~ (n \in Below(m))
    <3>1. n <= n /\ ~ (n <= m)
      BY <2>1
    <3> QED BY <3>1
  <2>4. Below(m) \in SUBSET (1 .. N) /\ Below(n) \in SUBSET (1 .. N)
    OBVIOUS
  <2>5. <<Below(m), Below(n)>> \in R
    BY <2>2, <2>3, <2>4 DEF StrictSubsetOrdering
  <2> QED BY <2>5, <1>6
<1> QED BY <1>7
=============================================================================
