------------------------- MODULE GeneratedProtocol -------------------------
(***************************************************************************)
(* What the code that is generated from a protocol definition does once    *)
(* its protocols are registered (internal/cpp_protocol.cpp): frames are    *)
(* written and read with the generated functions and                       *)
(* binary_serialization.hpp.                                               *)
(***************************************************************************)
EXTENDS ProtocolRegistration

CONSTANTS
  Numbers,      \* bound: the numbers that fields hold
  MaxElements   \* bound: elements of a string, a list or a map

ASSUME GeneratedAssumption ==
  /\ Numbers \subseteq Nat \ {0}
  /\ MaxElements \in Nat

-----------------------------------------------------------------------------
(* Binary serialization.  What is written is a sequence of chunks, each of *)
(* so many bits.  A message is the sequence of the values of its fields, a *)
(* string that of its characters, and an Expected of a response a flag     *)
(* with the response or with an error code and text.                       *)

Chunk(bits, value) == [bits |-> bits, value |-> value]
BitsOf(chunks) == FoldLeft(LAMBDA total, chunk : total + chunk.bits, 0, chunks)
BitsToBytes(bits) == (bits + 7) \div 8

PlainType(type, subtypes) == [type |-> type, name |-> "", subtypes |-> subtypes]
Character == PlainType("character", <<>>)
Flag == PlainType("boolean", <<>>)
Text == PlainType("string", <<>>)

\* The tree of a type that is given bottom up.
RECURSIVE Tree(_)
Tree(t) ==
  LET n == Len(t)
      key == KeyEnd(t, n)
  IN CASE t[n].rule = "list" -> PlainType("list", <<Tree(Front(t))>>)
       [] t[n].rule = "map" ->
            PlainType("map", <<Tree(SubSeq(t, 1, key)), Tree(SubSeq(t, key + 1, n - 1))>>)
       [] t[n].rule = "message" -> [type |-> "message", name |-> t[1].text, subtypes |-> <<>>]
       [] OTHER -> PlainType(t[n].rule, <<>>)

Structure(list) == PlainType("structure", [i \in DOMAIN list |-> Tree(list[i].type.nodes)])
ExpectedOf(list) == PlainType("expected", <<Structure(list)>>)

StructureOf(name) == Structure(SelectSeq(protocol.messages, LAMBDA m : m.name = name)[1].fields)

\* All sequences of a value of each set.
Combinations(sets) ==
  FoldLeft(LAMBDA done, set : {Append(c, v) : c \in done, v \in set}, {<<>>}, sets)

RECURSIVE Values(_)
Values(t) ==
  CASE t.type \in NumberTypes -> Numbers
    [] t.type = "boolean" -> {0, 1}
    [] t.type = "character" -> {1}
    [] t.type = "string" -> SeqOf(Values(Character), MaxElements)
    [] t.type = "list" -> SeqOf(Values(t.subtypes[1]), MaxElements)
    [] t.type = "map" ->
         UNION {[keys -> Values(t.subtypes[2])] :
                  keys \in UNION {kSubset(n, Values(t.subtypes[1])) : n \in 0 .. MaxElements}}
    [] t.type = "message" -> Values(StructureOf(t.name))
    [] t.type = "structure" -> Combinations([i \in DOMAIN t.subtypes |-> Values(t.subtypes[i])])
    [] t.type = "expected" ->
         {<<1, v>> : v \in Values(t.subtypes[1])} \cup {<<0, c, e>> : c \in Numbers, e \in Values(Text)}

RECURSIVE Serialize(_, _)
SerializeEach(types, values) ==
  FlattenSeq([i \in DOMAIN types |-> Serialize(types[i], values[i])])

\* The keys of a map, in their order.
Serialize(t, v) ==
  CASE t.type \in DOMAIN StaticNumberOfBits -> <<Chunk(StaticNumberOfBits[t.type], v)>>
    [] t.type = "character" -> <<Chunk(8, v)>>
    [] t.type = "string" -> <<Chunk(32, Len(v))>> \o SerializeEach([i \in DOMAIN v |-> Character], v)
    [] t.type = "list" -> <<Chunk(32, Len(v))>> \o SerializeEach([i \in DOMAIN v |-> t.subtypes[1]], v)
    [] t.type = "map" ->
         LET keys == SetToSeq(DOMAIN v) IN
         <<Chunk(32, Len(keys))>>
           \o FlattenSeq([i \in DOMAIN keys |-> SerializeEach(t.subtypes, <<keys[i], v[keys[i]]>>)])
    [] t.type = "message" -> Serialize(StructureOf(t.name), v)
    [] t.type = "structure" -> SerializeEach(t.subtypes, v)
    [] t.type = "expected" ->
         IF v[1] = 1 THEN SerializeEach(<<Flag, t.subtypes[1]>>, v)
         ELSE SerializeEach(<<Flag, PlainType("u32", <<>>), Text>>, v)

\* Whoever reads other bits than those that were written together gets
\* nothing of use: zero.
ReadBits(chunks, n, bits) ==
  IF n <= Len(chunks) /\ chunks[n].bits = bits THEN chunks[n].value ELSE 0

RECURSIVE Deserialize(_, _, _)
\* The values of these types from the n-th chunk on, and the chunk after them.
DeserializeEach(types, chunks, n) ==
  FoldLeft(LAMBDA read, t :
             LET next == Deserialize(t, chunks, read.next)
             IN [value |-> Append(read.value, next.value), next |-> next.next],
           [value |-> <<>>, next |-> n], types)

\* As many times these types as the size says.
DeserializeMany(types, chunks, n) ==
  DeserializeEach(FlattenSeq([i \in 1 .. ReadBits(chunks, n, 32) |-> types]), chunks, n + 1)

Deserialize(t, chunks, n) ==
  CASE t.type \in DOMAIN StaticNumberOfBits ->
         [value |-> ReadBits(chunks, n, StaticNumberOfBits[t.type]), next |-> n + 1]
    [] t.type = "character" -> [value |-> ReadBits(chunks, n, 8), next |-> n + 1]
    [] t.type = "string" -> DeserializeMany(<<Character>>, chunks, n)
    [] t.type = "list" -> DeserializeMany(t.subtypes, chunks, n)
    [] t.type = "map" ->
         LET read == DeserializeMany(t.subtypes, chunks, n)
             At(k) == CHOOSE i \in DOMAIN read.value : i % 2 = 1 /\ read.value[i] = k
             keys == {read.value[i] : i \in {j \in DOMAIN read.value : j % 2 = 1}}
         IN [value |-> [k \in keys |-> read.value[At(k) + 1]], next |-> read.next]
    [] t.type = "message" -> Deserialize(StructureOf(t.name), chunks, n)
    [] t.type = "structure" -> DeserializeEach(t.subtypes, chunks, n)
    [] t.type = "expected" ->
         IF ReadBits(chunks, n, 1) = 1 THEN DeserializeEach(<<Flag, t.subtypes[1]>>, chunks, n)
         ELSE DeserializeEach(<<Flag, PlainType("u32", <<>>), Text>>, chunks, n)

-----------------------------------------------------------------------------
(* The generated functions.                                                *)

Metadata(descriptor, hashCode, list, t, isStatic) ==
  [descriptor |-> descriptor, hashCode |-> hashCode, type |-> t, hasStaticSize |-> isStatic,
   staticNumberOfBits |-> NumberOfBits(list)]

MessageMetadata(m) ==
  Metadata(Descriptor("message", m.name), MessageHashCode(m), m.fields, Structure(m.fields),
           HasStaticSize(m.fields))

RequestMetadata(r) ==
  Metadata(Descriptor("request", r.name), RequestHashCode(r), r.requestFields,
           Structure(r.requestFields), HasStaticSize(r.requestFields))

\* A response is never taken for static: it may be an error.
ResponseMetadata(r) ==
  Metadata(Descriptor("response", r.name), ResponseHashCode(r), r.responseFields,
           ExpectedOf(r.responseFields), FALSE)

Generated ==
  {MessageMetadata(m) : m \in ToSet(protocol.messages)}
    \cup UNION {{RequestMetadata(r), ResponseMetadata(r)} : r \in ToSet(protocol.requests)}

SequenceNumberBits(metadata) == IF metadata.descriptor.protocolType = "message" THEN 0 ELSE 64

\* The sequence number stands for any.  A frame that is not static says how
\* many bits its payload has.
SerializeWithHeader(metadata, v) ==
  LET payload == Serialize(metadata.type, v) IN
  <<Chunk(32, Identifier(metadata.hashCode))>>
    \o (IF SequenceNumberBits(metadata) = 0 THEN <<>> ELSE <<Chunk(64, 1)>>)
    \o (IF metadata.hasStaticSize THEN <<>> ELSE <<Chunk(32, BitsOf(payload))>>)
    \o payload

\* Whether the payload is deserialized when so many bytes of the frame were
\* received, its identifier read already.
Received(metadata, chunks, bytes) ==
  LET header == 32 + SequenceNumberBits(metadata) IN
  IF metadata.hasStaticSize
  THEN 8 * bytes >= header + metadata.staticNumberOfBits
  ELSE /\ 8 * bytes >= header + 32
       /\ 8 * bytes >= header + 32 + ReadBits(chunks, IF header = 32 THEN 2 ELSE 3, 32)

TryDeserializeWithHeader(metadata, chunks) ==
  Deserialize(metadata.type, chunks,
              2 + (IF SequenceNumberBits(metadata) = 0 THEN 0 ELSE 1)
                + (IF metadata.hasStaticSize THEN 0 ELSE 1))

-----------------------------------------------------------------------------
\* Any value of any protocol of a program makes a frame that is recognised,
\* that is read when its last byte has come, not before and not later, and
\* that gives that value and ends where the next frame begins.
FramesExact ==
  Loaded =>
    \A writer \in Generated : \A v \in Values(writer.type) :
      LET frame == SerializeWithHeader(writer, v)
          reader == CHOOSE g \in Generated : g.descriptor = descriptors[frame[1].value]
          bytes == BitsToBytes(BitsOf(frame))
          read == TryDeserializeWithHeader(reader, frame)
      IN /\ \A n \in 4 .. bytes + 1 : Received(reader, frame, n) <=> n >= bytes
         /\ read.value = v
         /\ read.next = Len(frame) + 1

\* The identifier of a message stands for its namespace, its name and the
\* names and types of its fields: a peer that was built from another version
\* of a message is not understood.  (The sizes of types are not in the hash.)
IdentifiersTellTypes ==
  status = "accepted" =>
    \A other \in {t \in Texts : Legal(t)} :
      \A d \in ToSet(other), m \in ToSet(protocol.messages) :
        LET types == [i \in DOMAIN d.fields |-> TypeDefinition(d.fields[i].type, FALSE, 0)]
            version ==
              [fileNamespace |-> Namespace, name |-> d.name,
               fields |-> [i \in DOMAIN d.fields |-> [type |-> types[i], name |-> d.fields[i].name]]]
        IN
        d.kind = "message" /\ MessageHashCode(version) = MessageHashCode(m)
          => d.fields = PlainFields(m.fields)
=============================================================================
