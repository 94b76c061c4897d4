------------------------- MODULE ProtocolDefinition -------------------------
(***************************************************************************)
(* How the text of a protocol definition becomes a ProtocolDefinition      *)
(* (internal/protocol_definition_parsing.cpp and protocol_validation.cpp). *)
(*                                                                         *)
(* The parser of the glyph library turns the text into nodes, bottom up:   *)
(* a node is a token that was shifted or a production rule that was        *)
(* reduced.  parseProtocolDefinition takes them one at a time, with a      *)
(* stack of tokens, a stack of types and two lists of fields; what it ends *)
(* with is validated.                                                      *)
(***************************************************************************)
EXTENDS Integers, Sequences, FiniteSets, SequencesExt

CONSTANTS
  Texts,         \* the definitions that users write
  Namespace,     \* the namespace they declare
  ReservedNames  \* reservedIdentifierNames

NumberTypes == {"i32", "i64", "u32", "u64"}
SimpleTypes == NumberTypes \cup {"boolean", "string"}

\* A node is a token, a module or a name, or a production rule.
Node(rule, text) == [rule |-> rule, text |-> text]
Name(text) == Node("name", text)
Rule(rule) == Node(rule, "")

\* A type is the sequence of the nodes it is parsed to, bottom up:
\* map<u32, list<A>> is u32, the name A, message, list, map.
TypeNodes ==
  [rule : {"name"}, text : STRING]
    \cup [rule : SimpleTypes \cup {"message", "list", "map"}, text : {""}]

\* How many types are whole and in no other after n nodes of t.
Operands(t, n) ==
  Cardinality({i \in 1 .. n : t[i].rule \in SimpleTypes \cup {"name"}})
    - Cardinality({i \in 1 .. n : t[i].rule = "map"})

Types ==
  {t \in Seq(TypeNodes) :
     /\ t # <<>>
     /\ \A i \in DOMAIN t : Operands(t, i) >= 1
     /\ Operands(t, Len(t)) = 1
     /\ \A i \in DOMAIN t : t[i].rule = "message" <=> (i > 1 /\ t[i - 1].rule = "name")
     /\ t[Len(t)].rule # "name"}

\* A text is a sequence of messages and requests; a message has no response.
FieldLists == Seq([type : Types, name : STRING])
Definitions ==
  [kind : {"message"}, name : STRING, fields : FieldLists, response : {<<>>}]
    \cup [kind : {"request"}, name : STRING, fields : FieldLists, response : FieldLists]

ASSUME TextsAssumption == Texts \subseteq Seq(Definitions) /\ Namespace \in STRING

VARIABLES
  text,             \* what was written
  nodes,            \* what is left of parser.parse(text)
  tokens,
  typeDefinitions,
  fields,
  requestFields,
  protocol,         \* [fileNamespace, messages, requests]
  status            \* "parsing", "accepted" or "rejected": an error was thrown

definitionVars ==
  <<text, nodes, tokens, typeDefinitions, fields, requestFields, protocol, status>>

-----------------------------------------------------------------------------
(* The glyph parser.                                                       *)

FieldNodes(written) ==
  FlattenSeq([i \in DOMAIN written |-> written[i].type \o <<Name(written[i].name), Rule("field")>>])

DefinitionNodes(d) ==
  <<Name(d.name)>> \o FieldNodes(d.fields)
    \o (IF d.kind = "message" THEN <<Rule("messageDefinition")>>
        ELSE <<Rule("requestFields")>> \o FieldNodes(d.response) \o <<Rule("requestDefinition")>>)

Nodes(written) ==
  <<Node("module", Namespace), Rule("namespace")>>
    \o FlattenSeq([i \in DOMAIN written |-> DefinitionNodes(written[i])])

-----------------------------------------------------------------------------
(* Types and their static sizes.                                           *)

StaticNumberOfBits == [i32 |-> 32, u32 |-> 32, i64 |-> 64, u64 |-> 64, boolean |-> 1]

TypeDefinition(typeNodes, isStatic, bits) ==
  [nodes |-> typeNodes, hasStaticSize |-> isStatic, staticNumberOfBits |-> bits]

FromSimple(type) ==
  IF type = "string" THEN TypeDefinition(<<Rule(type)>>, FALSE, 0)
  ELSE TypeDefinition(<<Rule(type)>>, TRUE, StaticNumberOfBits[type])

FromMessage(name, isStatic, bits) == TypeDefinition(<<Name(name), Rule("message")>>, isStatic, bits)

\* Faulty variant: a list is as large as one element of it.
FromListOfOne(subtype) ==
  TypeDefinition(Append(subtype.nodes, Rule("list")), subtype.hasStaticSize,
                 subtype.staticNumberOfBits)

FromList(subtype) == TypeDefinition(Append(subtype.nodes, Rule("list")), FALSE, 0)

FromMap(key, value) == TypeDefinition((key.nodes \o value.nodes) \o <<Rule("map")>>, FALSE, 0)

Type(t) == Last(t.nodes).rule

CanBeMapKey(t) == Type(t) \in NumberTypes \cup {"string"}

HasStaticSize(list) == \A i \in DOMAIN list : list[i].type.hasStaticSize

\* A field that is not static counts for nothing, or for what is static in it.
NumberOfBits(list) ==
  FoldLeft(LAMBDA total, field : total + field.type.staticNumberOfBits, 0, list)

-----------------------------------------------------------------------------
(* Validation.                                                             *)

References(typeNodes) ==
  {typeNodes[i].text : i \in {j \in DOMAIN typeNodes : typeNodes[j].rule = "name"}}

NamesOf(list) == {list[i].name : i \in DOMAIN list}

ValidateFieldDefinitions(list, messageNames, protocolName) ==
  \A i \in DOMAIN list :
    /\ References(list[i].type.nodes) \subseteq messageNames \ {protocolName}
    /\ list[i].name \notin NamesOf(SubSeq(list, 1, i - 1))

ValidateMessageDefinitions(messages) ==
  \A i \in DOMAIN messages :
    LET before == NamesOf(SubSeq(messages, 1, i - 1)) IN
    /\ messages[i].name \notin before
    /\ ValidateFieldDefinitions(messages[i].fields, before \cup {messages[i].name},
                                messages[i].name)

ValidateRequestDefinitions(requests, messageNames) ==
  \A i \in DOMAIN requests :
    LET before == NamesOf(SubSeq(requests, 1, i - 1)) IN
    /\ requests[i].name \notin messageNames \cup before
    /\ ValidateFieldDefinitions(requests[i].requestFields, messageNames, requests[i].name)
    /\ ValidateFieldDefinitions(requests[i].responseFields, messageNames, requests[i].name)

ValidateProtocolDefinition(p) ==
  /\ ValidateMessageDefinitions(p.messages)
  /\ ValidateRequestDefinitions(p.requests, NamesOf(p.messages))

-----------------------------------------------------------------------------
(* parseProtocolDefinition: one action per case of its loop.               *)

DefinitionInit ==
  /\ text \in Texts
  /\ nodes = Nodes(text)
  /\ tokens = <<>>
  /\ typeDefinitions = <<>>
  /\ fields = <<>>
  /\ requestFields = <<>>
  /\ protocol = [fileNamespace |-> "", messages |-> <<>>, requests |-> <<>>]
  /\ status = "parsing"

\* The next node is of this rule, and taken.
Takes(rule) ==
  /\ status = "parsing"
  /\ nodes # <<>>
  /\ Head(nodes).rule = rule
  /\ nodes' = Tail(nodes)
  /\ UNCHANGED text

\* Only names are checked, the namespace is not.
TakeToken(symbol) ==
  /\ Takes(symbol)
  /\ IF symbol = "name" /\ Head(nodes).text \in ReservedNames
     THEN status' = "rejected" /\ UNCHANGED tokens
     ELSE tokens' = Append(tokens, Head(nodes).text) /\ UNCHANGED status
  /\ UNCHANGED <<typeDefinitions, fields, requestFields, protocol>>

ReduceNamespace ==
  /\ Takes("namespace")
  /\ protocol' = [protocol EXCEPT !.fileNamespace = Last(tokens)]
  /\ tokens' = Front(tokens)
  /\ UNCHANGED <<typeDefinitions, fields, requestFields, status>>

ReduceMessage ==
  /\ Takes("messageDefinition")
  /\ protocol' = [protocol EXCEPT !.messages =
                    Append(@, [fileNamespace |-> protocol.fileNamespace,
                               name |-> Last(tokens), fields |-> fields])]
  /\ tokens' = Front(tokens)
  /\ fields' = <<>>
  /\ UNCHANGED <<typeDefinitions, requestFields, status>>

ReduceRequest ==
  /\ Takes("requestDefinition")
  /\ protocol' = [protocol EXCEPT !.requests =
                    Append(@, [fileNamespace |-> protocol.fileNamespace, name |-> Last(tokens),
                               requestFields |-> requestFields, responseFields |-> fields])]
  /\ tokens' = Front(tokens)
  /\ fields' = <<>>
  /\ requestFields' = <<>>
  /\ UNCHANGED <<typeDefinitions, status>>

\* Faulty variant: the fields are copied, not moved.
CopyRequestFields ==
  /\ Takes("requestFields")
  /\ requestFields' = fields
  /\ UNCHANGED <<tokens, typeDefinitions, fields, protocol, status>>

ReduceRequestFields ==
  /\ Takes("requestFields")
  /\ requestFields' = fields
  /\ fields' = <<>>
  /\ UNCHANGED <<tokens, typeDefinitions, protocol, status>>

ReduceField ==
  /\ Takes("field")
  /\ fields' = Append(fields, [type |-> Last(typeDefinitions), name |-> Last(tokens)])
  /\ typeDefinitions' = Front(typeDefinitions)
  /\ tokens' = Front(tokens)
  /\ UNCHANGED <<requestFields, protocol, status>>

ReduceSimple(type) ==
  /\ Takes(type)
  /\ typeDefinitions' = Append(typeDefinitions, FromSimple(type))
  /\ UNCHANGED <<tokens, fields, requestFields, protocol, status>>

ReduceList ==
  /\ Takes("list")
  /\ typeDefinitions' = Append(Front(typeDefinitions), FromList(Last(typeDefinitions)))
  /\ UNCHANGED <<tokens, fields, requestFields, protocol, status>>

\* The value is popped before the key.
ReduceMap ==
  LET value == Last(typeDefinitions)
      key == Last(Front(typeDefinitions))
  IN
  /\ Takes("map")
  /\ IF CanBeMapKey(key)
     THEN /\ typeDefinitions' = Append(Front(Front(typeDefinitions)), FromMap(key, value))
          /\ UNCHANGED status
     ELSE /\ typeDefinitions' = Front(Front(typeDefinitions))
          /\ status' = "rejected"
  /\ UNCHANGED <<tokens, fields, requestFields, protocol>>

\* The first of the messages so far that has the name; its static size is
\* copied into the type.
ReduceName ==
  LET messages == protocol.messages
      found == {i \in DOMAIN messages : messages[i].name = Last(tokens)}
      first == CHOOSE i \in found : \A j \in found : i <= j
  IN
  /\ Takes("message")
  /\ tokens' = Front(tokens)
  /\ IF found = {}
     THEN /\ status' = "rejected"
          /\ UNCHANGED typeDefinitions
     ELSE /\ typeDefinitions' =
               Append(typeDefinitions,
                      FromMessage(Last(tokens), HasStaticSize(messages[first].fields),
                                  NumberOfBits(messages[first].fields)))
          /\ UNCHANGED status
  /\ UNCHANGED <<fields, requestFields, protocol>>

Validate ==
  /\ status = "parsing"
  /\ nodes = <<>>
  /\ status' = IF ValidateProtocolDefinition(protocol) THEN "accepted" ELSE "rejected"
  /\ UNCHANGED <<text, nodes, tokens, typeDefinitions, fields, requestFields, protocol>>

DefinitionNext ==
  \/ \E symbol \in {"module", "name"} : TakeToken(symbol)
  \/ ReduceNamespace \/ ReduceMessage \/ ReduceRequest
  \/ ReduceRequestFields \/ ReduceField \/ ReduceList \/ ReduceMap \/ ReduceName
  \/ \E type \in SimpleTypes : ReduceSimple(type)
  \/ Validate

-----------------------------------------------------------------------------
(* What a text means, for whoever reads it top to bottom.                  *)

\* Where the key ends of the map whose last node is the n-th of t: the value
\* comes on top of it.
KeyEnd(t, n) ==
  CHOOSE i \in 1 .. n - 1 :
    /\ Operands(t, i) = Operands(t, n)
    /\ \A j \in i + 1 .. n - 1 : Operands(t, j) > Operands(t, n)

KeysOf(t) == {t[KeyEnd(t, n)].rule : n \in {i \in DOMAIN t : t[i].rule = "map"}}

FieldsLegal(list, defined) ==
  /\ \A i \in DOMAIN list :
       /\ list[i].name \notin ReservedNames
       /\ References(list[i].type) \subseteq defined
       /\ KeysOf(list[i].type) \cap {"boolean", "list", "map", "message"} = {}
  /\ \A i, j \in DOMAIN list : list[i].name = list[j].name => i = j

\* A type names only messages whose definition is above; a name means one
\* thing in a file, and a field name one thing in its block; numbers and
\* strings are ordered and can be keys.
Legal(written) ==
  \A i \in DOMAIN written :
    LET above == {j \in DOMAIN written : j < i}
        defined == {written[j].name : j \in {k \in above : written[k].kind = "message"}}
    IN /\ written[i].name \notin ReservedNames \cup {written[j].name : j \in above}
       /\ FieldsLegal(written[i].fields, defined)
       /\ FieldsLegal(written[i].response, defined)

PlainFields(list) ==
  [i \in DOMAIN list |-> [type |-> list[i].type.nodes, name |-> list[i].name]]

\* The definitions of a text that are of one kind, in their order.
OfKind(written, kind) ==
  LET first[i \in 0 .. Len(written)] ==
        IF i = 0 THEN <<>>
        ELSE IF written[i].kind = kind THEN Append(first[i - 1], written[i]) ELSE first[i - 1]
  IN first[Len(written)]

\* Every text that is legal is accepted, and what is accepted is what was
\* written: no field, name or type of one definition ends up in another, is
\* dropped or changes its order, however definitions follow one another and
\* types nest.
AcceptedAsWritten ==
  /\ status = "rejected" => ~Legal(text)
  /\ status \notin {"parsing", "rejected"} =>
       /\ Legal(text)
       /\ protocol.fileNamespace = Namespace
       /\ tokens = <<>> /\ typeDefinitions = <<>>
       /\ OfKind(text, "message") =
            [i \in DOMAIN protocol.messages |->
               [kind |-> "message", name |-> protocol.messages[i].name,
                fields |-> PlainFields(protocol.messages[i].fields), response |-> <<>>]]
       /\ OfKind(text, "request") =
            [i \in DOMAIN protocol.requests |->
               [kind |-> "request", name |-> protocol.requests[i].name,
                fields |-> PlainFields(protocol.requests[i].requestFields),
                response |-> PlainFields(protocol.requests[i].responseFields)]]
=============================================================================
