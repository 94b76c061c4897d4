------------------------ MODULE MC_GeneratedProtocol ------------------------
(* Small instances of GeneratedProtocol: what users write is taken from a  *)
(* few families of texts, legal ones and others.                           *)
EXTENDS GeneratedProtocol

MCNumbers == {1, 2}
MCReservedNames == {"Response"}

Simple(type) == <<Rule(type)>>
MessageType(name) == <<Name(name), Rule("message")>>
ListOf(t) == Append(t, Rule("list"))
MapOf(key, value) == key \o value \o <<Rule("map")>>

U32 == Simple("u32")
I64 == Simple("i64")
Bool == Simple("boolean")
String == Simple("string")
A == MessageType("A")
B == MessageType("B")

Field(type, name) == [type |-> type, name |-> name]
Message(name, list) == [kind |-> "message", name |-> name, fields |-> list, response |-> <<>>]
Request(name, list, response) ==
  [kind |-> "request", name |-> name, fields |-> list, response |-> response]

\* Blocks of none, one or two fields.
Blocks1(types) == {<<>>} \cup {<<Field(t, "x")>> : t \in types}
Blocks2(types) == {<<Field(t, "x"), Field(u, n)>> : t, u \in types, n \in {"x", "y"}}

\* Types in a message: nested ones, keys that are none, the message itself.
NestedTypes ==
  {U32, I64, Bool, String, ListOf(Bool), ListOf(ListOf(U32)), MapOf(U32, String),
   MapOf(Bool, U32), MapOf(String, ListOf(Bool)), ListOf(MapOf(ListOf(U32), Bool)), A}
LargeTypes == {MapOf(String, ListOf(Bool)), MapOf(U32, String)}
NestedTexts ==
  {<<Message("A", list)>> : list \in Blocks1(NestedTypes) \cup Blocks2(NestedTypes \ LargeTypes)}
  \cup {<<Message("A", <<Field(U32, "Response")>>)>>, <<Message("Response", <<>>)>>}

\* A message in the types of another one, under the same name or not.
ReferringTypes == {U32, Bool, A, B, ListOf(A), MapOf(String, A), MapOf(A, U32)}
ReferringTexts ==
  {<<Message("A", first), Message(name, second)>> :
     first \in Blocks1({U32, Bool, String}), name \in {"A", "B"},
     second \in Blocks1(ReferringTypes) \cup Blocks2(ReferringTypes)}

\* Two messages and a request in every order, names shared or not.
RequestTexts ==
  LET definitions ==
        {<<Message("A", first), Message("B", second), Request(name, list, response)>> :
           first \in {<<Field(Bool, "x")>>, <<Field(String, "x")>>},
           second \in {<<Field(A, "x")>>, <<Field(Bool, "x"), Field(ListOf(A), "y")>>},
           name \in {"A", "R"},
           list \in Blocks1({Bool, A, B}), response \in Blocks1({Bool, B, MapOf(U32, A)})}
      orders == {<<1, 2, 3>>, <<1, 3, 2>>, <<3, 1, 2>>, <<2, 1, 3>>}
  IN {[i \in 1 .. 3 |-> d[o[i]]] : d \in definitions, o \in orders}

\* Two requests, and a message that looks like one of them.
TwoRequestTexts ==
  {<<Request("R", <<Field(U32, "x")>>, list), Request(name, list, <<Field(U32, "x")>>),
     Message(m, <<Field(U32, "x")>>)>> :
     name \in {"R", "S"}, m \in {"R", "A"}, list \in Blocks1({U32, Bool})}

MCTexts == NestedTexts \cup ReferringTexts \cup RequestTexts \cup TwoRequestTexts

\* Versions of one message.
MCVersions ==
  {<<Message("A", list)>> : list \in Blocks1(NestedTypes \ {A})}
  \cup {<<Message("A", <<Field(U32, "x")>>), Message("B", <<>>),
          Message("C", <<Field(t, "x")>>)>> : t \in {A, B}}
=============================================================================
