--------------------- MODULE ProtocolRegistration_proofs ---------------------
(***************************************************************************)
(* Proofs about the registration of the protocols of a definition: what is *)
(* accepted is what was written, and the registry holds what was accepted. *)
(***************************************************************************)
EXTENDS ProtocolRegistration, ProtocolDefinition_proofs

-----------------------------------------------------------------------------
(* What the initializers enter, one entry for a message or a request.      *)

\* Lists are sequences.
Lists(p) ==
  /\ ASeq(p.messages) /\ ASeq(p.requests)
  /\ \A i \in DOMAIN p.messages : ASeq(p.messages[i].fields)
  /\ \A i \in DOMAIN p.requests : ASeq(p.requests[i].requestFields) /\ ASeq(p.requests[i].responseFields)

Entries(p) == Len(p.messages) + Len(p.requests)

Entry(p, i) ==
  IF i <= Len(p.messages) THEN [kind |-> "message", definition |-> p.messages[i]]
  ELSE [kind |-> "request", definition |-> p.requests[i - Len(p.messages)]]

Codes(e) ==
  IF e.kind = "message" THEN {MessageHashCode(e.definition)}
  ELSE {RequestHashCode(e.definition), ResponseHashCode(e.definition)}

DescriptorsOf(e) ==
  IF e.kind = "message" THEN {Descriptor("message", e.definition.name)}
  ELSE {Descriptor("request", e.definition.name), Descriptor("response", e.definition.name)}

\* After k entries: nothing else is in the registry, and what is in it is
\* there under an identifier of its own.
Filled(k) ==
  /\ Registered = UNION {DescriptorsOf(Entry(protocol, i)) : i \in 1 .. k}
  /\ \A x \in DOMAIN descriptors :
       \E i \in 1 .. k : \E c \in Codes(Entry(protocol, i)) : x = Identifier(c)

\* The entries behind the k-th are still to come.
Left(k) ==
  /\ ASeq(initializers) /\ Len(initializers) = Entries(protocol) - k
  /\ \A i \in 1 .. Entries(protocol) - k : initializers[i] = Entry(protocol, k + i)

RegistrationInv ==
  /\ status \in {"parsing", "accepted", "rejected"} => descriptors = <<>>
  /\ status \in {"started", "terminated"} =>
       \E k \in 0 .. Entries(protocol) : Filled(k) /\ (status = "started" => Left(k))
  /\ status \in {"parsing", "accepted", "rejected", "started", "terminated"}
  /\ status = "terminated" => twins # {}

Inv == ParseInv /\ RegistrationInv

\* What is accepted is made of sequences, and valid.
LEMMA AcceptedLists ==
  ASSUME ParseInv, status \notin {"parsing", "rejected"}
  PROVE  Lists(protocol) /\ ValidateProtocolDefinition(protocol)
<1>1. ValidateProtocolDefinition(protocol) /\ Done(protocol, text, Len(text))
  BY DEF ParseInv, Between
<1> DEFINE M == Sel(text, Len(text), "message")
           R == Sel(text, Len(text), "request")
<1>2. SameMessages(protocol.messages, M) /\ SameRequests(protocol.requests, R)
  BY <1>1 DEF Done
<1> HIDE DEF M, R
<1>3. /\ ASeq(protocol.messages) /\ Len(protocol.messages) = Len(M)
      /\ ASeq(protocol.requests) /\ Len(protocol.requests) = Len(R)
  BY <1>2 DEF SameMessages, SameRequests
<1>4. DOMAIN protocol.messages = 1 .. Len(M) /\ DOMAIN protocol.requests = 1 .. Len(R)
  BY <1>3, NamesOfFirst
<1>5. \A i \in 1 .. Len(M) : ASeq(protocol.messages[i].fields)
  BY <1>2 DEF SameMessages, SameFields
<1>6. \A i \in 1 .. Len(R) :
        ASeq(protocol.requests[i].requestFields) /\ ASeq(protocol.requests[i].responseFields)
  BY <1>2 DEF SameRequests, SameFields
<1> QED BY <1>1, <1>3, <1>4, <1>5, <1>6 DEF Lists

\* A hash code holds the name it was computed from.
LEMMA HashCode ==
  ASSUME NEW a, NEW b, NEW f, ASeq(f)
  PROVE  /\ ASeq(<<a, b>> \o f) /\ Len(<<a, b>> \o f) \in Nat
         /\ Len(<<a, b>> \o f) >= 2 /\ (<<a, b>> \o f)[2] = b
<1> DEFINE S == {f[i] : i \in DOMAIN f} \cup {a, b}
           c == <<a, b>> \o f
<1>1. <<a, b>> \in Seq(S) /\ f \in Seq(S)
  <2>1. f \in Seq({f[i] : i \in DOMAIN f})
    BY DEF ASeq
  <2>2. f \in Seq(S)
    BY <2>1, SeqMonotonic
  <2>3. a \in S /\ b \in S
    OBVIOUS
  <2> HIDE DEF S
  <2> QED BY <2>2, <2>3
<1>2. Len(<<a, b>>) = 2 /\ <<a, b>>[2] = b
  OBVIOUS
<1> HIDE DEF S
<1>3. /\ c \in Seq(S) /\ Len(c) = Len(<<a, b>>) + Len(f)
      /\ \A i \in 1 .. Len(c) : c[i] = IF i <= Len(<<a, b>>) THEN <<a, b>>[i] ELSE f[i - Len(<<a, b>>)]
  BY <1>1, ConcatProperties
<1>4. Len(f) \in Nat
  BY <1>1, LenProperties
<1> HIDE DEF c
<1>5. Len(c) \in Nat /\ Len(c) >= 2 /\ 2 \in 1 .. Len(c)
  BY <1>2, <1>3, <1>4
<1>6. c[2] = b
  BY <1>2, <1>3, <1>5
<1>7. ASeq(c)
  BY <1>3, ASeqOf
<1> QED BY <1>5, <1>6, <1>7 DEF c

\* The hash codes of the fields.
LEMMA FieldCodes ==
  ASSUME NEW list, ASeq(list)
  PROVE  ASeq(FieldHashCodes(list))
<1> DEFINE n == Len(list)
           S == {<<TypeHashCode(list[i].type), list[i].name>> : i \in 1 .. n}
<1>1. n \in Nat /\ DOMAIN list = 1 .. n
  BY NamesOfFirst
<1>2. FieldHashCodes(list) = [i \in 1 .. n |-> <<TypeHashCode(list[i].type), list[i].name>>]
  BY <1>1 DEF FieldHashCodes
<1>3. \A i \in 1 .. n : <<TypeHashCode(list[i].type), list[i].name>> \in S
  OBVIOUS
<1> HIDE DEF S, n
<1>4. FieldHashCodes(list) \in [1 .. n -> S]
  BY <1>2, <1>3
<1>5. FieldHashCodes(list) \in Seq(S)
  BY <1>1, <1>4, SeqDef
<1> QED BY <1>5, ASeqOf

\* Concatenations are sequences.
LEMMA Joined ==
  ASSUME NEW s, NEW t, ASeq(s), ASeq(t)
  PROVE  /\ ASeq(s \o t) /\ Len(s) \in Nat /\ Len(t) \in Nat /\ Len(s \o t) = Len(s) + Len(t)
         /\ \A i \in 1 .. Len(s) + Len(t) :
              (s \o t)[i] = IF i <= Len(s) THEN s[i] ELSE t[i - Len(s)]
<1> DEFINE S == {s[i] : i \in DOMAIN s} \cup {t[i] : i \in DOMAIN t}
           c == s \o t
<1>1. s \in Seq(S) /\ t \in Seq(S)
  <2>1. s \in Seq({s[i] : i \in DOMAIN s}) /\ t \in Seq({t[i] : i \in DOMAIN t})
    BY DEF ASeq
  <2> QED BY <2>1, SeqMonotonic
<1> HIDE DEF S
<1>2. /\ c \in Seq(S) /\ Len(c) = Len(s) + Len(t)
      /\ \A i \in 1 .. Len(s) + Len(t) : c[i] = IF i <= Len(s) THEN s[i] ELSE t[i - Len(s)]
  BY <1>1, ConcatProperties
<1>3. Len(s) \in Nat /\ Len(t) \in Nat
  BY <1>1, LenProperties
<1> HIDE DEF c
<1>4. ASeq(c)
  BY <1>2, ASeqOf
<1> QED BY <1>2, <1>3, <1>4 DEF c

\* The hash codes of a message and of a request with its response.
LEMMA MessageCode ==
  ASSUME NEW m, ASeq(m.fields)
  PROVE  MessageHashCode(m)[2] = m.name
<1>1. ASeq(FieldHashCodes(m.fields))
  BY FieldCodes
<1> QED BY <1>1, HashCode DEF MessageHashCode

\* That of the response is longer.
LEMMA RequestCodes ==
  ASSUME NEW r, ASeq(r.requestFields), ASeq(r.responseFields)
  PROVE  /\ RequestHashCode(r)[2] = r.name /\ ResponseHashCode(r)[2] = r.name
         /\ RequestHashCode(r) # ResponseHashCode(r)
<1> DEFINE f == FieldHashCodes(r.requestFields)
           g == FieldHashCodes(r.responseFields)
           c == <<r.fileNamespace, r.name>> \o f
           q == c \o g
           p == Append(q, "salt")
<1>1. ASeq(f) /\ ASeq(g)
  BY FieldCodes
<1> HIDE DEF f, g
<1>2. ASeq(c) /\ Len(c) \in Nat /\ Len(c) >= 2 /\ c[2] = r.name
  BY <1>1, HashCode
<1> HIDE DEF c
<1>3. /\ ASeq(q) /\ Len(g) \in Nat /\ Len(q) = Len(c) + Len(g)
      /\ \A i \in 1 .. Len(c) + Len(g) : q[i] = IF i <= Len(c) THEN c[i] ELSE g[i - Len(c)]
  BY <1>1, <1>2, Joined
<1> HIDE DEF q
<1>4. /\ Len(p) = Len(q) + 1 /\ \A i \in 1 .. Len(q) : p[i] = q[i]
  BY <1>3, Push
<1> HIDE DEF p
<1>5. 2 \in 1 .. Len(c) + Len(g) /\ 2 \in 1 .. Len(q) /\ Len(q) \in Nat /\ 2 <= Len(c)
  BY <1>2, <1>3
<1>6. q[2] = r.name /\ p[2] = r.name
  BY <1>2, <1>3, <1>4, <1>5
<1>7. Len(p) # Len(q)
  BY <1>4, <1>5
<1>8. p # q
  BY <1>7
<1>9. RequestHashCode(r) = q /\ ResponseHashCode(r) = p
  BY DEF RequestHashCode, ResponseHashCode, q, p, c, f, g
<1> QED BY <1>6, <1>8, <1>9

\* Where the entries come from.
LEMMA EntryIs ==
  ASSUME NEW p, Lists(p)
  PROVE  /\ Len(p.messages) \in Nat /\ Len(p.requests) \in Nat /\ Entries(p) \in Nat
         /\ DOMAIN p.messages = 1 .. Len(p.messages) /\ DOMAIN p.requests = 1 .. Len(p.requests)
         /\ \A i \in 1 .. Len(p.messages) :
              /\ i \in 1 .. Entries(p)
              /\ Entry(p, i) = [kind |-> "message", definition |-> p.messages[i]]
         /\ \A i \in 1 .. Len(p.requests) :
              /\ Len(p.messages) + i \in 1 .. Entries(p)
              /\ Entry(p, Len(p.messages) + i) = [kind |-> "request", definition |-> p.requests[i]]
         /\ \A i \in 1 .. Entries(p) :
              \/ i \in 1 .. Len(p.messages)
              \/ \E j \in 1 .. Len(p.requests) : i = Len(p.messages) + j
<1> DEFINE m == Len(p.messages)
           r == Len(p.requests)
<1>1. m \in Nat /\ r \in Nat /\ DOMAIN p.messages = 1 .. m /\ DOMAIN p.requests = 1 .. r
  BY NamesOfFirst DEF Lists
<1>2. m \in Nat /\ r \in Nat
  BY <1>1
<1>3. \A i \in 1 .. m : Entry(p, i) = [kind |-> "message", definition |-> p.messages[i]]
  BY <1>2 DEF Entry
<1>4. ASSUME NEW i \in 1 .. r
      PROVE  Entry(p, m + i) = [kind |-> "request", definition |-> p.requests[i]]
  <2>1. ~(m + i <= m) /\ (m + i) - m = i
    BY <1>2
  <2> QED BY <2>1 DEF Entry
<1>5. Entries(p) = m + r
  BY DEF Entries
<1> HIDE DEF m, r
<1>6. \A i \in 1 .. m + r : i \in 1 .. m \/ \E j \in 1 .. r : i = m + j
  <2> SUFFICES ASSUME NEW i \in 1 .. m + r, i \notin 1 .. m
               PROVE  \E j \in 1 .. r : i = m + j
    OBVIOUS
  <2>1. i - m \in 1 .. r /\ i = m + (i - m)
    BY <1>2
  <2> QED BY <2>1
<1>7. /\ \A i \in 1 .. m : i \in 1 .. m + r
      /\ \A i \in 1 .. r : m + i \in 1 .. m + r
      /\ m + r \in Nat
  BY <1>2
<1> QED BY <1>1, <1>3, <1>4, <1>5, <1>6, <1>7 DEF m, r

\* No two entries have a name, or a hash code, in common.
LEMMA EntriesDiffer ==
  ASSUME NEW p, Lists(p), ValidateProtocolDefinition(p)
  PROVE  /\ \A i \in 1 .. Entries(p) : \A c \in Codes(Entry(p, i)) :
              c[2] = Entry(p, i).definition.name
         /\ \A i, j \in 1 .. Entries(p) :
              Entry(p, i).definition.name = Entry(p, j).definition.name => i = j
         /\ \A i, j \in 1 .. Entries(p) : i # j => Codes(Entry(p, i)) \cap Codes(Entry(p, j)) = {}
<1> DEFINE m == Len(p.messages)
           r == Len(p.requests)
           n == Entries(p)
           name(i) == Entry(p, i).definition.name
<1>1. /\ m \in Nat /\ r \in Nat /\ n \in Nat
      /\ DOMAIN p.messages = 1 .. m /\ DOMAIN p.requests = 1 .. r
  BY EntryIs
<1>2. /\ \A i \in 1 .. m : Entry(p, i) = [kind |-> "message", definition |-> p.messages[i]]
      /\ \A i \in 1 .. r : Entry(p, m + i) = [kind |-> "request", definition |-> p.requests[i]]
      /\ \A i \in 1 .. n : i \in 1 .. m \/ \E j \in 1 .. r : i = m + j
  BY EntryIs
<1>3. m \in Nat /\ r \in Nat
  BY <1>1
<1> HIDE DEF m, r, n
<1>4. ASSUME NEW i \in 1 .. n, NEW c \in Codes(Entry(p, i))
      PROVE  c[2] = name(i)
  <2>1. CASE i \in 1 .. m
    <3>1. Entry(p, i) = [kind |-> "message", definition |-> p.messages[i]] /\ ASeq(p.messages[i].fields)
      BY <1>1, <1>2, <2>1 DEF Lists
    <3>2. c = MessageHashCode(p.messages[i]) /\ name(i) = p.messages[i].name
      BY <1>4, <3>1 DEF Codes
    <3> QED BY <3>1, <3>2, MessageCode
  <2>2. ASSUME NEW j \in 1 .. r, i = m + j
        PROVE  c[2] = name(i)
    <3>1. /\ Entry(p, i) = [kind |-> "request", definition |-> p.requests[j]]
          /\ ASeq(p.requests[j].requestFields) /\ ASeq(p.requests[j].responseFields)
      BY <1>1, <1>2, <2>2 DEF Lists
    <3>2. /\ c = RequestHashCode(p.requests[j]) \/ c = ResponseHashCode(p.requests[j])
          /\ name(i) = p.requests[j].name
      BY <1>4, <3>1 DEF Codes
    <3> QED BY <3>1, <3>2, RequestCodes
  <2> QED BY <1>2, <2>1, <2>2
<1>5. /\ ValidateMessageDefinitions(p.messages)
      /\ ValidateRequestDefinitions(p.requests, NamesOf(p.messages))
  BY DEF ValidateProtocolDefinition
<1>6. ASSUME NEW i \in 1 .. m, NEW j \in 1 .. i - 1
      PROVE  p.messages[i].name # p.messages[j].name
  <2>1. p.messages[i].name \notin NamesOf(SubSeq(p.messages, 1, i - 1))
    BY <1>1, <1>5 DEF ValidateMessageDefinitions
  <2>2. NamesOf(SubSeq(p.messages, 1, i - 1)) = {p.messages[k].name : k \in 1 .. i - 1}
    BY NamesOfFirst DEF Lists, m
  <2> QED BY <2>1, <2>2
<1>7. ASSUME NEW i \in 1 .. r
      PROVE  /\ \A j \in 1 .. m : p.requests[i].name # p.messages[j].name
             /\ \A j \in 1 .. i - 1 : p.requests[i].name # p.requests[j].name
  <2>1. p.requests[i].name \notin NamesOf(p.messages) \cup NamesOf(SubSeq(p.requests, 1, i - 1))
    BY <1>1, <1>5 DEF ValidateRequestDefinitions
  <2>2. NamesOf(SubSeq(p.requests, 1, i - 1)) = {p.requests[k].name : k \in 1 .. i - 1}
    BY NamesOfFirst DEF Lists, r
  <2>3. NamesOf(p.messages) = {p.messages[k].name : k \in 1 .. m}
    BY <1>1 DEF NamesOf
  <2> QED BY <2>1, <2>2, <2>3
<1>8. /\ \A i \in 1 .. m : name(i) = p.messages[i].name
      /\ \A i \in 1 .. r : name(m + i) = p.requests[i].name
  <2>1. ASSUME NEW i \in 1 .. m PROVE name(i) = p.messages[i].name
    <3>1. Entry(p, i) = [kind |-> "message", definition |-> p.messages[i]]
      BY <1>2
    <3> QED BY <3>1
  <2>2. ASSUME NEW i \in 1 .. r PROVE name(m + i) = p.requests[i].name
    <3>1. Entry(p, m + i) = [kind |-> "request", definition |-> p.requests[i]]
      BY <1>2
    <3> QED BY <3>1
  <2> HIDE DEF name
  <2> QED BY <2>1, <2>2
<1> HIDE DEF name
<1>9. ASSUME NEW i \in 1 .. n, NEW j \in 1 .. n, name(i) = name(j)
      PROVE  i = j
  <2>1. CASE i \in 1 .. m /\ j \in 1 .. m
    <3>1. i = j \/ i \in 1 .. j - 1 \/ j \in 1 .. i - 1
      BY <1>3, <2>1
    <3> QED BY <1>6, <1>8, <1>9, <2>1, <3>1
  <2>2. ASSUME i \in 1 .. m, NEW k \in 1 .. r, j = m + k
        PROVE  FALSE
    BY <1>7, <1>8, <1>9, <2>2
  <2>3. ASSUME j \in 1 .. m, NEW k \in 1 .. r, i = m + k
        PROVE  FALSE
    BY <1>7, <1>8, <1>9, <2>3
  <2>4. ASSUME NEW k \in 1 .. r, i = m + k, NEW l \in 1 .. r, j = m + l
        PROVE  i = j
    <3>1. k = l \/ k \in 1 .. l - 1 \/ l \in 1 .. k - 1
      BY <1>3
    <3>2. p.requests[k].name = p.requests[l].name
      BY <1>8, <1>9, <2>4
    <3> QED BY <1>7, <2>4, <3>1, <3>2
  <2> QED BY <1>2, <2>1, <2>2, <2>3, <2>4
<1>10. ASSUME NEW i \in 1 .. n, NEW j \in 1 .. n, i # j
       PROVE  Codes(Entry(p, i)) \cap Codes(Entry(p, j)) = {}
  BY <1>4, <1>9, <1>10
<1> QED BY <1>4, <1>9, <1>10 DEF name, n

\* What a registry holds.
Held(registry) == {registry[i] : i \in DOMAIN registry}

\* An entry that is added under an identifier that is new.
LEMMA WithOneMore ==
  ASSUME NEW registry, NEW x, NEW d, x \notin DOMAIN registry
  PROVE  /\ DOMAIN With(registry, x, d) = DOMAIN registry \cup {x}
         /\ \A y : y \in Held(With(registry, x, d)) <=> y \in Held(registry) \/ y = d
<1> DEFINE new == With(registry, x, d)
<1>1. /\ DOMAIN new = DOMAIN registry \cup {x}
      /\ \A i \in DOMAIN registry : new[i] = registry[i]
      /\ new[x] = d
  BY DEF With
<1> HIDE DEF new
<1>2. \A y : y \in Held(new) <=> y \in Held(registry) \/ y = d
  BY <1>1 DEF Held
<1> QED BY <1>1, <1>2 DEF new

\* When it is erased again, the registry holds what it held.
LEMMA WithoutTheOne ==
  ASSUME NEW registry, NEW x, NEW d, x \notin DOMAIN registry
  PROVE  /\ DOMAIN Without(With(registry, x, d), x) = DOMAIN registry
         /\ Held(Without(With(registry, x, d), x)) = Held(registry)
<1> DEFINE new == With(registry, x, d)
           old == Without(new, x)
<1>1. /\ DOMAIN new = DOMAIN registry \cup {x}
      /\ \A i \in DOMAIN registry : new[i] = registry[i]
  BY DEF With
<1> HIDE DEF new
<1>2. /\ DOMAIN old = DOMAIN registry
      /\ \A i \in DOMAIN registry : old[i] = registry[i]
  BY <1>1 DEF Without
<1> HIDE DEF old
<1>3. Held(old) = Held(registry)
  BY <1>2 DEF Held
<1> QED BY <1>2, <1>3 DEF old, new

\* Identifiers, unless a program has twins.
LEMMA OwnIdentifier ==
  ASSUME twins = {}
  PROVE  \A a, b : Identifier(a) = Identifier(b) => a = b
<1>1. \A a : Identifier(a) = {a}
  BY DEF Identifier
<1> QED BY <1>1

\* What the entries up to the next one are entered as.
LEMMA NextEntry ==
  ASSUME NEW p, NEW k \in Nat
  PROVE  UNION {DescriptorsOf(Entry(p, i)) : i \in 1 .. k + 1}
           = (UNION {DescriptorsOf(Entry(p, i)) : i \in 1 .. k}) \cup DescriptorsOf(Entry(p, k + 1))
<1>1. \A i \in 1 .. k + 1 : i \in 1 .. k \/ i = k + 1
  OBVIOUS
<1>2. \A i \in 1 .. k : i \in 1 .. k + 1
  OBVIOUS
<1>3. k + 1 \in 1 .. k + 1
  OBVIOUS
<1> DEFINE A(n) == UNION {DescriptorsOf(Entry(p, i)) : i \in 1 .. n}
           more == A(k + 1)
           less == A(k)
           next == DescriptorsOf(Entry(p, k + 1))
<1>4. \A x : x \in more <=> x \in less \/ x \in next
  <2>1. \A n, x : x \in A(n) <=> \E i \in 1 .. n : x \in DescriptorsOf(Entry(p, i))
    OBVIOUS
  <2> HIDE DEF A
  <2> QED BY <1>1, <1>2, <1>3, <2>1
<1>5. more = less \cup next
  <2> HIDE DEF more, less, next
  <2> QED BY <1>4
<1> QED BY <1>5

\* A list without its first entry.
LEMMA PopFirst ==
  ASSUME NEW s, ASeq(s), s # <<>>
  PROVE  /\ ASeq(Tail(s)) /\ Len(s) \in Nat \ {0} /\ Len(Tail(s)) = Len(s) - 1 /\ Head(s) = s[1]
         /\ \A i \in 1 .. Len(s) - 1 : Tail(s)[i] = s[i + 1]
<1> DEFINE S == {s[i] : i \in DOMAIN s}
<1>1. s \in Seq(S)
  BY DEF ASeq
<1> HIDE DEF S
<1>2. /\ Tail(s) \in Seq(S) /\ Len(Tail(s)) = Len(s) - 1 /\ Head(s) = s[1]
      /\ \A i \in 1 .. Len(Tail(s)) : Tail(s)[i] = s[i + 1]
      /\ Len(s) \in Nat /\ Len(s) # 0
  BY <1>1, HeadTailProperties, LenProperties, EmptySeq
<1>3. ASeq(Tail(s))
  BY <1>2, ASeqOf
<1> QED BY <1>2, <1>3

\* The next entry, and what is left when it has been taken.
LEMMA TakeEntry ==
  ASSUME Lists(protocol), NEW k \in 0 .. Entries(protocol), Left(k), initializers # <<>>,
         initializers' = Tail(initializers), protocol' = protocol
  PROVE  /\ k + 1 \in 1 .. Entries(protocol)
         /\ Head(initializers) = Entry(protocol, k + 1)
         /\ Left(k + 1)'
<1> DEFINE n == Entries(protocol)
           s == initializers
<1>1. n \in Nat /\ k \in Nat /\ k <= n
  BY EntryIs
<1>2. ASeq(s) /\ Len(s) = n - k /\ \A i \in 1 .. n - k : s[i] = Entry(protocol, k + i)
  BY DEF Left
<1>3. /\ ASeq(Tail(s)) /\ Len(s) \in Nat \ {0} /\ Len(Tail(s)) = Len(s) - 1 /\ Head(s) = s[1]
      /\ \A i \in 1 .. Len(s) - 1 : Tail(s)[i] = s[i + 1]
  BY <1>2, PopFirst
<1> HIDE DEF n
<1>4. k + 1 \in 1 .. n /\ 1 \in 1 .. n - k /\ n - (k + 1) = Len(s) - 1
  BY <1>1, <1>2, <1>3
<1>5. Head(s) = Entry(protocol, k + 1)
  BY <1>2, <1>3, <1>4
<1>6. ASSUME NEW i \in 1 .. n - (k + 1)
      PROVE  Tail(s)[i] = Entry(protocol, (k + 1) + i)
  <2>1. i + 1 \in 1 .. n - k /\ i \in 1 .. Len(s) - 1 /\ k + (i + 1) = (k + 1) + i
    BY <1>1, <1>4
  <2>2. s[i + 1] = Entry(protocol, k + (i + 1))
    <3>1. PICK j \in 1 .. n - k : j = i + 1
      BY <2>1
    <3>2. s[j] = Entry(protocol, k + j)
      BY <1>2
    <3> QED BY <3>1, <3>2
  <2>3. Tail(s)[i] = s[i + 1]
    BY <1>3, <2>1
  <2> QED BY <2>1, <2>2, <2>3
<1>7. Left(k + 1)'
  BY <1>3, <1>4, <1>6 DEF Left, n
<1> QED BY <1>4, <1>5, <1>7 DEF n

\* An identifier that an entry does not have is not taken by those before it.
LEMMA FreshIdentifier ==
  ASSUME Lists(protocol), ValidateProtocolDefinition(protocol), twins = {},
         NEW k \in 0 .. Entries(protocol), Filled(k), k + 1 \in 1 .. Entries(protocol),
         NEW c \in Codes(Entry(protocol, k + 1))
  PROVE  Identifier(c) \notin DOMAIN descriptors
<1> SUFFICES ASSUME Identifier(c) \in DOMAIN descriptors
             PROVE  FALSE
  OBVIOUS
<1>0. PICK i \in 1 .. k : \E b \in Codes(Entry(protocol, i)) : Identifier(c) = Identifier(b)
  BY DEF Filled
<1>1. PICK b \in Codes(Entry(protocol, i)) : Identifier(c) = Identifier(b)
  BY <1>0
<1>2. c = b
  BY <1>1, OwnIdentifier
<1>3. PICK j \in 1 .. Entries(protocol) : j = k + 1
  OBVIOUS
<1>4. i \in 1 .. Entries(protocol) /\ i # j
  <2>1. Entries(protocol) \in Nat
    BY EntryIs
  <2> QED BY <1>3, <2>1
<1>5. Codes(Entry(protocol, i)) \cap Codes(Entry(protocol, j)) = {}
  BY <1>4, EntriesDiffer
<1> QED BY <1>1, <1>2, <1>3, <1>5

\* The parser itself starts no program.
LEMMA DefinitionStatus ==
  ASSUME DefinitionNext
  PROVE  status = "parsing" /\ status' \in {"parsing", "accepted", "rejected"}
<1>1. status = "parsing"
  BY NextIsParsing
<1>2. CASE nodes = <<>>
  BY <1>1, <1>2, NextAtEnd DEF Validate
<1>3. CASE nodes # <<>>
  <2> DEFINE rule == Head(nodes).rule
  <2>1. \/ TakeToken(rule) \/ ReduceNamespace \/ ReduceMessage \/ ReduceRequest
        \/ ReduceRequestFields \/ ReduceField \/ ReduceList \/ ReduceMap \/ ReduceName
        \/ ReduceSimple(rule)
    BY <1>3, NextByRule
  <2>2. status' = status \/ status' = "rejected"
    BY <2>1 DEF TakeToken, ReduceNamespace, ReduceMessage, ReduceRequest, ReduceRequestFields,
                ReduceField, ReduceList, ReduceMap, ReduceName, ReduceSimple
  <2> QED BY <1>1, <2>2
<1> QED BY <1>2, <1>3

\* The initializers of the protocols of a list.
InitializersOf(list, kind) == [i \in DOMAIN list |-> [kind |-> kind, definition |-> list[i]]]

\* They are in the order of the list.
LEMMA InitializersInOrder ==
  ASSUME NEW list, ASeq(list), NEW kind
  PROVE  /\ ASeq(InitializersOf(list, kind)) /\ Len(InitializersOf(list, kind)) = Len(list)
         /\ \A i \in 1 .. Len(list) :
              InitializersOf(list, kind)[i] = [kind |-> kind, definition |-> list[i]]
<1> DEFINE n == Len(list)
           s == InitializersOf(list, kind)
           S == {[kind |-> kind, definition |-> list[i]] : i \in 1 .. n}
<1>1. n \in Nat /\ DOMAIN list = 1 .. n
  BY NamesOfFirst
<1>2. \A i \in 1 .. n : [kind |-> kind, definition |-> list[i]] \in S
  OBVIOUS
<1>3. s = [i \in 1 .. n |-> [kind |-> kind, definition |-> list[i]]]
  BY <1>1 DEF InitializersOf
<1> HIDE DEF n, S, s
<1>4. s \in [1 .. n -> S] /\ \A i \in 1 .. n : s[i] = [kind |-> kind, definition |-> list[i]]
  BY <1>2, <1>3
<1>5. s \in Seq(S)
  BY <1>1, <1>4, SeqDef
<1>6. Len(s) = n
  BY <1>1, <1>4, <1>5, LenProperties
<1> QED BY <1>4, <1>5, <1>6, ASeqOf DEF n, s

\* All initializers, the entries in their order.
LEMMA AllInitializers ==
  ASSUME NEW p, Lists(p), NEW s, NEW t,
         s = InitializersOf(p.messages, "message"), t = InitializersOf(p.requests, "request")
  PROVE  /\ ASeq(s \o t) /\ Len(s \o t) = Entries(p)
         /\ \A i \in 1 .. Entries(p) : (s \o t)[i] = Entry(p, i)
<1> DEFINE m == Len(p.messages)
           r == Len(p.requests)
<1>1. /\ m \in Nat /\ r \in Nat /\ Entries(p) = m + r
      /\ \A i \in 1 .. m : Entry(p, i) = [kind |-> "message", definition |-> p.messages[i]]
      /\ \A i \in 1 .. r : Entry(p, m + i) = [kind |-> "request", definition |-> p.requests[i]]
  BY EntryIs DEF Entries
<1>0. ASeq(p.messages) /\ ASeq(p.requests)
  BY DEF Lists
<1>2. ASeq(s) /\ Len(s) = m /\ \A i \in 1 .. m : s[i] = [kind |-> "message", definition |-> p.messages[i]]
  BY <1>0, InitializersInOrder
<1>3. ASeq(t) /\ Len(t) = r /\ \A i \in 1 .. r : t[i] = [kind |-> "request", definition |-> p.requests[i]]
  BY <1>0, InitializersInOrder
<1>4. ASeq(s) /\ ASeq(t) /\ Len(s) = m /\ Len(t) = r
  BY <1>2, <1>3
<1> HIDE DEF m, r
<1>5. /\ ASeq(s \o t) /\ Len(s \o t) = Len(s) + Len(t)
      /\ \A i \in 1 .. Len(s) + Len(t) : (s \o t)[i] = IF i <= Len(s) THEN s[i] ELSE t[i - Len(s)]
  BY <1>4, Joined
<1>6. /\ ASeq(s \o t) /\ Len(s \o t) = m + r
      /\ \A i \in 1 .. m + r : (s \o t)[i] = IF i <= m THEN s[i] ELSE t[i - m]
  <2> DEFINE c == s \o t
  <2>1. /\ ASeq(c) /\ Len(c) = Len(s) + Len(t)
        /\ \A i \in 1 .. Len(s) + Len(t) : c[i] = IF i <= Len(s) THEN s[i] ELSE t[i - Len(s)]
    BY ONLY <1>5
  <2> HIDE DEF c
  <2>2. /\ ASeq(c) /\ Len(c) = m + r
        /\ \A i \in 1 .. m + r : c[i] = IF i <= m THEN s[i] ELSE t[i - m]
    BY ONLY <1>4, <2>1
  <2> QED BY ONLY <2>2 DEF c
<1>7. m \in Nat /\ r \in Nat
  BY <1>1
<1>8. \A i \in 1 .. m + r : (s \o t)[i] = Entry(p, i)
  <2> SUFFICES ASSUME NEW i \in 1 .. m + r
               PROVE  (s \o t)[i] = Entry(p, i)
    OBVIOUS
  <2>1. CASE i <= m
    <3>1. i \in 1 .. m
      BY <1>7, <2>1
    <3> QED BY <1>1, <1>2, <1>6, <2>1, <3>1
  <2>2. CASE ~(i <= m)
    <3>1. i - m \in 1 .. r /\ m + (i - m) = i
      BY <1>7, <2>2
    <3>2. PICK j \in 1 .. r : j = i - m /\ i = m + j
      BY <3>1
    <3>3. (s \o t)[i] = t[j]
      BY <1>6, <2>2, <3>2
    <3> QED BY <1>1, <1>3, <3>2, <3>3
  <2> QED BY <2>1, <2>2
<1> QED BY <1>1, <1>6, <1>8

\* The program starts: every message and then every request is to come.
LEMMA GenerateStep ==
  ASSUME Inv, GenerateProtocolCppSource
  PROVE  RegistrationInv'
<1>1. /\ status = "accepted" /\ status' = "started"
      /\ descriptors' = descriptors /\ protocol' = protocol
  BY DEF GenerateProtocolCppSource
<1>2. Lists(protocol) /\ descriptors = <<>>
  BY <1>1, AcceptedLists DEF Inv, RegistrationInv
<1>3. Entries(protocol) \in Nat
  BY <1>2, EntryIs
<1>4. /\ ASeq(initializers') /\ Len(initializers') = Entries(protocol)
      /\ \A i \in 1 .. Entries(protocol) : initializers'[i] = Entry(protocol, i)
  <2> DEFINE s == InitializersOf(protocol.messages, "message")
             t == InitializersOf(protocol.requests, "request")
  <2>1. initializers' = s \o t
    BY DEF GenerateProtocolCppSource, InitializersOf
  <2>2. /\ ASeq(s \o t) /\ Len(s \o t) = Entries(protocol)
        /\ \A i \in 1 .. Entries(protocol) : (s \o t)[i] = Entry(protocol, i)
    BY <1>2, AllInitializers
  <2> HIDE DEF s, t
  <2> QED BY <2>1, <2>2
<1>5. Left(0)'
  <2>1. ASSUME NEW z \in Nat, z = 0
        PROVE  /\ Entries(protocol) - z = Entries(protocol)
               /\ \A i \in 1 .. Entries(protocol) - z : initializers'[i] = Entry(protocol, z + i)
    <3>1. Entries(protocol) - z = Entries(protocol) /\ \A i \in 1 .. Entries(protocol) : z + i = i
      BY <1>3, <2>1
    <3> QED BY <1>4, <3>1
  <2> QED BY <1>1, <1>4, <2>1 DEF Left
<1>6. Filled(0)'
  <2>1. 1 .. 0 = {} /\ DOMAIN <<>> = {}
    OBVIOUS
  <2> QED BY <1>1, <1>2, <2>1 DEF Filled, Registered
<1>7. 0 \in 0 .. Entries(protocol')
  BY <1>1, <1>3
<1> QED BY <1>1, <1>5, <1>6, <1>7 DEF RegistrationInv

\* A message is entered, or the program ends and has twins.
LEMMA RegisterMessageStep ==
  ASSUME Inv, RegisterMessageProtocol
  PROVE  RegistrationInv'
<1> DEFINE m == Head(initializers).definition
           c == MessageHashCode(m)
           x == Identifier(c)
           d == Descriptor("message", m.name)
<1>1. /\ status = "started" /\ initializers # <<>> /\ Head(initializers).kind = "message"
      /\ initializers' = Tail(initializers) /\ protocol' = protocol /\ twins' = twins
      /\ IF x \in DOMAIN descriptors
         THEN status' = "terminated" /\ descriptors' = descriptors
         ELSE descriptors' = With(descriptors, x, d) /\ status' = status
  BY DEF RegisterMessageProtocol, Initializes
<1>2. Lists(protocol) /\ ValidateProtocolDefinition(protocol)
  BY <1>1, AcceptedLists DEF Inv
<1>3. PICK k \in 0 .. Entries(protocol) : Filled(k) /\ Left(k)
  BY <1>1 DEF Inv, RegistrationInv
<1>4. /\ k + 1 \in 1 .. Entries(protocol) /\ Head(initializers) = Entry(protocol, k + 1)
      /\ Left(k + 1)'
  BY <1>1, <1>2, <1>3, TakeEntry
<1>5. k \in Nat /\ k + 1 \in 0 .. Entries(protocol)
  BY <1>4
<1>6. Codes(Entry(protocol, k + 1)) = {c} /\ DescriptorsOf(Entry(protocol, k + 1)) = {d}
  BY <1>1, <1>4 DEF Codes, DescriptorsOf
<1> HIDE DEF m, c, x, d
<1>7. CASE x \in DOMAIN descriptors
  <2>1. status' = "terminated" /\ descriptors' = descriptors
    BY <1>1, <1>7
  <2>2. twins # {}
    BY <1>2, <1>3, <1>4, <1>6, <1>7, FreshIdentifier DEF x
  <2>3. Filled(k)'
    BY <1>1, <1>3, <2>1 DEF Filled, Registered, Identifier
  <2>4. k \in 0 .. Entries(protocol')
    BY <1>1
  <2> QED BY <1>1, <2>1, <2>2, <2>3, <2>4 DEF RegistrationInv
<1>8. CASE x \notin DOMAIN descriptors
  <2>1. status' = "started" /\ descriptors' = With(descriptors, x, d)
    BY <1>1, <1>8
  <2>2. DOMAIN descriptors' = DOMAIN descriptors \cup {x} /\ Registered' = Registered \cup {d}
    <3>1. /\ DOMAIN With(descriptors, x, d) = DOMAIN descriptors \cup {x}
          /\ \A y : y \in Held(With(descriptors, x, d)) <=> y \in Held(descriptors) \/ y = d
      BY <1>8, WithOneMore
    <3>2. Registered = Held(descriptors) /\ Registered' = Held(descriptors')
      BY DEF Registered, Held
    <3> QED BY <2>1, <3>1, <3>2
  <2>3. Registered' = UNION {DescriptorsOf(Entry(protocol, i)) : i \in 1 .. k + 1}
    BY <1>3, <1>5, <1>6, <2>2, NextEntry DEF Filled
  <2>4. \A y \in DOMAIN descriptors' :
          \E i \in 1 .. k + 1 : \E a \in Codes(Entry(protocol, i)) : y = Identifier(a)
    <3>1. ASSUME NEW y \in DOMAIN descriptors
          PROVE  \E i \in 1 .. k + 1 : \E a \in Codes(Entry(protocol, i)) : y = Identifier(a)
      <4>1. PICK i \in 1 .. k : \E a \in Codes(Entry(protocol, i)) : y = Identifier(a)
        BY <1>3 DEF Filled
      <4>2. i \in 1 .. k + 1
        BY <1>5
      <4> QED BY <4>1, <4>2
    <3>2. \E i \in 1 .. k + 1 : \E a \in Codes(Entry(protocol, i)) : x = Identifier(a)
      <4>1. k + 1 \in 1 .. k + 1
        BY <1>5
      <4> QED BY <1>6, <4>1 DEF x
    <3> QED BY <2>2, <3>1, <3>2
  <2>5. Filled(k + 1)'
    BY <1>1, <2>3, <2>4 DEF Filled, Identifier
  <2> QED BY <1>1, <1>4, <1>5, <2>1, <2>5 DEF RegistrationInv
<1> QED BY <1>7, <1>8

\* A request is entered with its response, or the program ends and has twins.
LEMMA RegisterRequestStep ==
  ASSUME Inv, RegisterRequestProtocol
  PROVE  RegistrationInv'
<1> DEFINE r == Head(initializers).definition
           c == RequestHashCode(r)
           b == ResponseHashCode(r)
           x == Identifier(c)
           z == Identifier(b)
           d == Descriptor("request", r.name)
           e == Descriptor("response", r.name)
           with == With(descriptors, x, d)
<1>1. /\ status = "started" /\ initializers # <<>> /\ Head(initializers).kind = "request"
      /\ initializers' = Tail(initializers) /\ protocol' = protocol /\ twins' = twins
      /\ IF x \in DOMAIN descriptors \/ z \in DOMAIN with
         THEN /\ status' = "terminated"
              /\ descriptors' = IF x \in DOMAIN descriptors THEN descriptors ELSE Without(with, x)
         ELSE descriptors' = With(with, z, e) /\ status' = status
  BY DEF RegisterRequestProtocol, Initializes
<1>2. Lists(protocol) /\ ValidateProtocolDefinition(protocol)
  BY <1>1, AcceptedLists DEF Inv
<1>3. PICK k \in 0 .. Entries(protocol) : Filled(k) /\ Left(k)
  BY <1>1 DEF Inv, RegistrationInv
<1>4. /\ k + 1 \in 1 .. Entries(protocol) /\ Head(initializers) = Entry(protocol, k + 1)
      /\ Left(k + 1)'
  BY <1>1, <1>2, <1>3, TakeEntry
<1>5. k \in Nat /\ k + 1 \in 0 .. Entries(protocol)
  BY <1>4
<1>6. Codes(Entry(protocol, k + 1)) = {c, b} /\ DescriptorsOf(Entry(protocol, k + 1)) = {d, e}
  <2>1. Entry(protocol, k + 1).kind # "message"
    BY <1>1, <1>4
  <2> QED BY <1>4, <2>1 DEF Codes, DescriptorsOf
<1>7. c # b
  <2>1. Entry(protocol, k + 1).kind = "request"
    BY <1>1, <1>4
  <2>2. PICK i \in 1 .. Len(protocol.requests) : k + 1 = Len(protocol.messages) + i
    <3>1. \/ k + 1 \in 1 .. Len(protocol.messages)
          \/ \E i \in 1 .. Len(protocol.requests) : k + 1 = Len(protocol.messages) + i
      BY <1>2, <1>4, EntryIs
    <3>2. \A i \in 1 .. Len(protocol.messages) : Entry(protocol, i).kind = "message"
      BY <1>2, EntryIs
    <3> QED BY <2>1, <3>1, <3>2
  <2>3. r = protocol.requests[i]
    <3>1. Entry(protocol, Len(protocol.messages) + i)
            = [kind |-> "request", definition |-> protocol.requests[i]]
      BY <1>2, EntryIs
    <3>2. Entry(protocol, k + 1) = [kind |-> "request", definition |-> protocol.requests[i]]
      BY <2>2, <3>1
    <3> QED BY <1>4, <3>2
  <2>4. ASeq(protocol.requests[i].requestFields) /\ ASeq(protocol.requests[i].responseFields)
    BY <1>2, EntryIs DEF Lists
  <2> QED BY <2>3, <2>4, RequestCodes
<1> HIDE DEF r, c, b, x, z, d, e, with
<1>8. CASE x \in DOMAIN descriptors \/ z \in DOMAIN with
  <2>1. /\ status' = "terminated"
        /\ DOMAIN descriptors' = DOMAIN descriptors /\ Registered' = Registered
    <3>1. Registered = Held(descriptors) /\ Registered' = Held(descriptors')
      BY DEF Registered, Held
    <3>2. CASE x \in DOMAIN descriptors
      BY <1>1, <1>8, <3>1, <3>2
    <3>3. CASE x \notin DOMAIN descriptors
      BY <1>1, <1>8, <3>1, <3>3, WithoutTheOne DEF with
    <3> QED BY <3>2, <3>3
  <2>2. twins # {}
    <3> SUFFICES ASSUME twins = {}
                 PROVE  FALSE
      OBVIOUS
    <3>1. x \notin DOMAIN descriptors /\ z \notin DOMAIN descriptors
      BY <1>2, <1>3, <1>4, <1>6, FreshIdentifier DEF x, z
    <3>2. DOMAIN with = DOMAIN descriptors \cup {x}
      BY <3>1, WithOneMore DEF with
    <3>3. z = x
      BY <1>8, <3>1, <3>2
    <3> QED BY <1>7, <3>3, OwnIdentifier DEF x, z
  <2>3. Filled(k)'
    BY <1>1, <1>3, <2>1 DEF Filled, Identifier
  <2>4. k \in 0 .. Entries(protocol')
    BY <1>1
  <2> QED BY <1>1, <2>1, <2>2, <2>3, <2>4 DEF RegistrationInv
<1>9. CASE x \notin DOMAIN descriptors /\ z \notin DOMAIN with
  <2>1. status' = "started" /\ descriptors' = With(with, z, e)
    BY <1>1, <1>9
  <2>2. /\ DOMAIN with = DOMAIN descriptors \cup {x}
        /\ \A y : y \in Held(with) <=> y \in Held(descriptors) \/ y = d
    BY <1>9, WithOneMore DEF with
  <2>3. /\ DOMAIN With(with, z, e) = DOMAIN with \cup {z}
        /\ \A y : y \in Held(With(with, z, e)) <=> y \in Held(with) \/ y = e
    BY <1>9, WithOneMore
  <2>4. DOMAIN descriptors' = DOMAIN descriptors \cup {x, z} /\ Registered' = Registered \cup {d, e}
    <3>1. Registered = Held(descriptors) /\ Registered' = Held(descriptors')
      BY DEF Registered, Held
    <3> QED BY <2>1, <2>2, <2>3, <3>1
  <2>5. Registered' = UNION {DescriptorsOf(Entry(protocol, i)) : i \in 1 .. k + 1}
    BY <1>3, <1>5, <1>6, <2>4, NextEntry DEF Filled
  <2>6. \A y \in DOMAIN descriptors' :
          \E i \in 1 .. k + 1 : \E a \in Codes(Entry(protocol, i)) : y = Identifier(a)
    <3>1. ASSUME NEW y \in DOMAIN descriptors
          PROVE  \E i \in 1 .. k + 1 : \E a \in Codes(Entry(protocol, i)) : y = Identifier(a)
      <4>1. PICK i \in 1 .. k : \E a \in Codes(Entry(protocol, i)) : y = Identifier(a)
        BY <1>3 DEF Filled
      <4>2. i \in 1 .. k + 1
        BY <1>5
      <4> QED BY <4>1, <4>2
    <3>2. ASSUME NEW y \in {x, z}
          PROVE  \E i \in 1 .. k + 1 : \E a \in Codes(Entry(protocol, i)) : y = Identifier(a)
      <4>1. k + 1 \in 1 .. k + 1
        BY <1>5
      <4> QED BY <1>6, <4>1 DEF x, z
    <3> QED BY <2>4, <3>1, <3>2
  <2>7. Filled(k + 1)'
    BY <1>1, <2>5, <2>6 DEF Filled, Identifier
  <2> QED BY <1>1, <1>4, <1>5, <2>1, <2>7 DEF RegistrationInv
<1> QED BY <1>8, <1>9

\* Every step of the program keeps the invariant.
LEMMA InvStep ==
  Inv /\ [Next]_vars => Inv'
<1> SUFFICES ASSUME Inv, [Next]_vars
             PROVE  Inv'
  OBVIOUS
<1>1. CASE DefinitionNext /\ UNCHANGED <<initializers, twins, descriptors>>
  <2>1. ParseInv'
    BY <1>1, ParseStep DEF Inv
  <2>2. status = "parsing" /\ status' \in {"parsing", "accepted", "rejected"}
    BY <1>1, DefinitionStatus
  <2>3. RegistrationInv'
    BY <1>1, <2>2 DEF Inv, RegistrationInv
  <2> QED BY <2>1, <2>3 DEF Inv
<1>2. CASE GenerateProtocolCppSource
  <2>1. ParseInv'
    BY <1>2, ParseStutter DEF GenerateProtocolCppSource, Inv
  <2> QED BY <1>2, <2>1, GenerateStep DEF Inv
<1>3. CASE RegisterMessageProtocol
  <2>1. ParseInv'
    BY <1>3, ParseStutter DEF RegisterMessageProtocol, Initializes, Inv
  <2> QED BY <1>3, <2>1, RegisterMessageStep DEF Inv
<1>4. CASE RegisterRequestProtocol
  <2>1. ParseInv'
    BY <1>4, ParseStutter DEF RegisterRequestProtocol, Initializes, Inv
  <2> QED BY <1>4, <2>1, RegisterRequestStep DEF Inv
<1>5. CASE UNCHANGED vars
  <2>1. ParseInv'
    BY <1>5, ParseStutter DEF vars, definitionVars, Inv
  <2>2. \A k : Filled(k) => Filled(k)'
    BY <1>5 DEF vars, definitionVars, Filled, Registered, Identifier
  <2>3. \A k : Left(k) => Left(k)'
    BY <1>5 DEF vars, definitionVars, Left
  <2>4. RegistrationInv'
    BY <1>5, <2>2, <2>3 DEF vars, definitionVars, Inv, RegistrationInv
  <2> QED BY <2>1, <2>4 DEF Inv
<1> QED BY <1>1, <1>2, <1>3, <1>4, <1>5 DEF Next

\* The protocols of a definition are its entries.
LEMMA AllEntries ==
  ASSUME Lists(protocol)
  PROVE  Registrations = UNION {DescriptorsOf(Entry(protocol, i)) : i \in 1 .. Entries(protocol)}
<1> DEFINE p == protocol
           m == Len(p.messages)
           r == Len(p.requests)
           n == Entries(p)
           all == UNION {DescriptorsOf(Entry(p, i)) : i \in 1 .. n}
<1>1. /\ DOMAIN p.messages = 1 .. m /\ DOMAIN p.requests = 1 .. r
      /\ \A i \in 1 .. m :
           i \in 1 .. n /\ Entry(p, i) = [kind |-> "message", definition |-> p.messages[i]]
      /\ \A i \in 1 .. r :
           m + i \in 1 .. n /\ Entry(p, m + i) = [kind |-> "request", definition |-> p.requests[i]]
      /\ \A i \in 1 .. n : i \in 1 .. m \/ \E j \in 1 .. r : i = m + j
  BY EntryIs
<1>2. /\ \A i \in 1 .. m : DescriptorsOf(Entry(p, i)) = {Descriptor("message", p.messages[i].name)}
      /\ \A i \in 1 .. r : DescriptorsOf(Entry(p, m + i)) =
           {Descriptor("request", p.requests[i].name), Descriptor("response", p.requests[i].name)}
  <2>1. ASSUME NEW i \in 1 .. m
        PROVE  DescriptorsOf(Entry(p, i)) = {Descriptor("message", p.messages[i].name)}
    BY <1>1 DEF DescriptorsOf
  <2>2. ASSUME NEW i \in 1 .. r
        PROVE  DescriptorsOf(Entry(p, m + i)) =
                 {Descriptor("request", p.requests[i].name), Descriptor("response", p.requests[i].name)}
    <3>1. Entry(p, m + i) = [kind |-> "request", definition |-> p.requests[i]]
      BY <1>1
    <3> HIDE DEF m
    <3>2. Entry(p, m + i).kind # "message" /\ Entry(p, m + i).definition = p.requests[i]
      BY <3>1
    <3> QED BY <3>2 DEF DescriptorsOf
  <2> HIDE DEF m, r
  <2> QED BY <2>1, <2>2
<1>3. Registrations =
        {Descriptor("message", p.messages[i].name) : i \in 1 .. m}
          \cup {Descriptor("request", p.requests[i].name) : i \in 1 .. r}
          \cup {Descriptor("response", p.requests[i].name) : i \in 1 .. r}
  BY <1>1 DEF Registrations
<1> HIDE DEF m, r, n
<1>4. ASSUME NEW x \in Registrations
      PROVE  x \in all
  <2>1. \/ \E i \in 1 .. m : x = Descriptor("message", p.messages[i].name)
        \/ \E i \in 1 .. r : \/ x = Descriptor("request", p.requests[i].name)
                             \/ x = Descriptor("response", p.requests[i].name)
    BY <1>3, <1>4
  <2>2. \E i \in 1 .. n : x \in DescriptorsOf(Entry(p, i))
    BY <1>1, <1>2, <2>1
  <2> QED BY <2>2
<1>5. ASSUME NEW x \in all
      PROVE  x \in Registrations
  <2>1. PICK i \in 1 .. n : x \in DescriptorsOf(Entry(p, i))
    BY <1>5
  <2> QED BY <1>1, <1>2, <1>3, <2>1
<1> QED BY <1>4, <1>5 DEF n

\* What the registry may hold.
LEMMA Sound ==
  Inv => RegistrySound
<1> SUFFICES ASSUME Inv
             PROVE  RegistrySound
  OBVIOUS
<1>1. status = "terminated" => twins # {}
  BY DEF Inv, RegistrationInv
<1>2. CASE status \in {"parsing", "accepted", "rejected"}
  <2>1. DOMAIN <<>> = {}
    OBVIOUS
  <2>2. Registered = {}
    BY <1>2, <2>1 DEF Inv, RegistrationInv, Registered
  <2>3. ~ Loaded
    BY <1>2 DEF Loaded
  <2> QED BY <1>1, <2>2, <2>3 DEF RegistrySound
<1>3. CASE status \in {"started", "terminated"}
  <2>1. PICK k \in 0 .. Entries(protocol) : Filled(k) /\ (status = "started" => Left(k))
    BY <1>3 DEF Inv, RegistrationInv
  <2>2. \A d : d \in Registered <=> \E i \in 1 .. k : d \in DescriptorsOf(Entry(protocol, i))
    BY <2>1 DEF Filled
  <2>3. \A x : Descriptor("request", x) \in Registered <=> Descriptor("response", x) \in Registered
    <3>1. \A e, x : Descriptor("request", x) \in DescriptorsOf(e)
                      <=> Descriptor("response", x) \in DescriptorsOf(e)
      BY DEF DescriptorsOf, Descriptor
    <3> QED BY <2>2, <3>1
  <2>4. \A d \in Registered : d = Descriptor(d.protocolType, d.name)
    <3>1. \A e : \A d \in DescriptorsOf(e) : d = Descriptor(d.protocolType, d.name)
      BY DEF DescriptorsOf, Descriptor
    <3> QED BY <2>2, <3>1
  <2>5. {d.name : d \in {e \in Registered : e.protocolType = "request"}}
          = {d.name : d \in {e \in Registered : e.protocolType = "response"}}
    <3>1. \A type, x : Descriptor(type, x).protocolType = type /\ Descriptor(type, x).name = x
      BY DEF Descriptor
    <3>2. \A type, x : x \in {d.name : d \in {e \in Registered : e.protocolType = type}}
                         <=> Descriptor(type, x) \in Registered
      BY <2>4, <3>1
    <3> QED BY <2>3, <3>2
  <2>6. Loaded => Registered = Registrations
    <3> SUFFICES ASSUME Loaded
                 PROVE  Registered = Registrations
      OBVIOUS
    <3>1. Lists(protocol)
      BY <1>3, AcceptedLists DEF Inv
    <3>2. Entries(protocol) \in Nat
      BY <3>1, EntryIs
    <3>3. Len(initializers) = Entries(protocol) - k /\ Len(initializers) = 0
      BY <2>1, EmptySeq DEF Loaded, Left
    <3>4. k = Entries(protocol)
      BY <3>2, <3>3
    <3> QED BY <2>1, <3>1, <3>4, AllEntries DEF Filled
  <2> QED BY <1>1, <2>5, <2>6 DEF RegistrySound
<1> QED BY <1>2, <1>3 DEF Inv, RegistrationInv

-----------------------------------------------------------------------------
\* Nothing is parsed and registered but what keeps the invariant.
THEOREM Invariance ==
  Spec => []Inv
<1>1. Init => Inv
  <2> SUFFICES ASSUME Init
               PROVE  Inv
    OBVIOUS
  <2>1. ParseInv
    BY ParseInit DEF Init
  <2>2. RegistrationInv
    BY DEF Init, DefinitionInit, RegistrationInv
  <2> QED BY <2>1, <2>2 DEF Inv
<1> QED BY <1>1, InvStep, PTL DEF Spec

\* For all definitions, however long and however their types nest: what
\* parseProtocolDefinition accepts is what was written, and it accepts
\* whatever is legal and nothing else.
THEOREM DefinitionsAcceptedAsWritten ==
  Spec => []AcceptedAsWritten
<1>1. Inv => AcceptedAsWritten
  BY ParsedAsWritten DEF Inv
<1> QED BY <1>1, Invariance, PTL

\* For all definitions and all coincidences of two hash codes: a request is
\* in the registry with its response or not at all, a program that has no
\* coincidence starts, and one that has started serves all its protocols.
THEOREM RegistryIsSound ==
  Spec => []RegistrySound
BY Sound, Invariance, PTL
=============================================================================
