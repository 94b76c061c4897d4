------------------------ MODULE ProtocolRegistration ------------------------
(***************************************************************************)
(* How a program with generated code (internal/cpp_protocol.cpp) fills its *)
(* protocol registry: once the definition is accepted and the code built,  *)
(* the static initializers of the program enter every message and every    *)
(* request with its response.                                              *)
(*                                                                         *)
(* Identifiers are hashes of 32 bits.  Different hash inputs have          *)
(* different identifiers, except that once two of a program may coincide.  *)
(***************************************************************************)
EXTENDS ProtocolDefinition

VARIABLES
  initializers,  \* registrations that are still to come, in their order
  twins,         \* hash inputs of the program that have one identifier
  descriptors    \* protocolDescriptors_

vars == <<definitionVars, initializers, twins, descriptors>>

-----------------------------------------------------------------------------
(* Identifiers.  A hash is what went into it, in order.                    *)

\* hashCombine changes neither of its arguments: the hash of a type keeps
\* nothing of the name and the subtypes that are combined with it, as what
\* hashCombine returns is dropped.
TypeHashCode(t) == Type(t)

FieldHashCodes(list) == [i \in DOMAIN list |-> <<TypeHashCode(list[i].type), list[i].name>>]

MessageHashCode(m) == <<m.fileNamespace, m.name>> \o FieldHashCodes(m.fields)

RequestHashCode(r) ==
  <<r.fileNamespace, r.name>> \o FieldHashCodes(r.requestFields) \o FieldHashCodes(r.responseFields)

ResponseHashCode(r) == Append(RequestHashCode(r), "salt")

Identifier(hashCode) == IF hashCode \in twins THEN twins ELSE {hashCode}

-----------------------------------------------------------------------------
(* Static initialization.                                                  *)

HashCodes ==
  LET messages == protocol.messages
      requests == protocol.requests
  IN {MessageHashCode(messages[i]) : i \in DOMAIN messages}
       \cup {RequestHashCode(requests[i]) : i \in DOMAIN requests}
       \cup {ResponseHashCode(requests[i]) : i \in DOMAIN requests}

Init ==
  /\ DefinitionInit
  /\ initializers = <<>>
  /\ twins = {}
  /\ descriptors = <<>>

\* The code is generated and built, and the program starts.
GenerateProtocolCppSource ==
  /\ status = "accepted"
  /\ status' = "started"
  /\ initializers' =
       [i \in DOMAIN protocol.messages |-> [kind |-> "message", definition |-> protocol.messages[i]]]
         \o [i \in DOMAIN protocol.requests |->
               [kind |-> "request", definition |-> protocol.requests[i]]]
  /\ \/ twins' = {}
     \/ \E a \in HashCodes : \E b \in HashCodes \ {a} : twins' = {a, b}
  /\ UNCHANGED <<text, nodes, tokens, typeDefinitions, fields, requestFields, protocol, descriptors>>

\* A map with one more entry.
With(registry, identifier, descriptor) ==
  [i \in DOMAIN registry \cup {identifier} |->
     IF i = identifier THEN descriptor ELSE registry[i]]

\* And with one less.
Without(registry, identifier) ==
  [i \in DOMAIN registry \ {identifier} |-> registry[i]]

Descriptor(type, name) == [protocolType |-> type, name |-> name]

Initializes(kind) ==
  /\ status = "started"
  /\ initializers # <<>>
  /\ Head(initializers).kind = kind
  /\ initializers' = Tail(initializers)
  /\ UNCHANGED <<text, nodes, tokens, typeDefinitions, fields, requestFields, protocol, twins>>

\* An error of a static initializer terminates the program.
RegisterMessageProtocol ==
  LET m == Head(initializers).definition
      identifier == Identifier(MessageHashCode(m))
  IN
  /\ Initializes("message")
  /\ IF identifier \in DOMAIN descriptors
     THEN status' = "terminated" /\ UNCHANGED descriptors
     ELSE /\ descriptors' = With(descriptors, identifier, Descriptor("message", m.name))
          /\ UNCHANGED status

\* Faulty variant: a request stays whose response cannot be registered.
RegisterRequestWithoutRollback ==
  LET r == Head(initializers).definition
      identifier == Identifier(RequestHashCode(r))
      response == Identifier(ResponseHashCode(r))
      withRequest == With(descriptors, identifier, Descriptor("request", r.name))
  IN
  /\ Initializes("request")
  /\ \/ /\ identifier \in DOMAIN descriptors
        /\ status' = "terminated"
        /\ UNCHANGED descriptors
     \/ /\ identifier \notin DOMAIN descriptors
        /\ response \in DOMAIN withRequest
        /\ status' = "terminated"
        /\ descriptors' = withRequest
     \/ /\ identifier \notin DOMAIN descriptors
        /\ response \notin DOMAIN withRequest
        /\ descriptors' = With(withRequest, response, Descriptor("response", r.name))
        /\ UNCHANGED status

\* The request is entered first, and erased again if its response cannot be
\* registered; the mutex is held throughout.
RegisterRequestProtocol ==
  LET r == Head(initializers).definition
      identifier == Identifier(RequestHashCode(r))
      response == Identifier(ResponseHashCode(r))
      withRequest == With(descriptors, identifier, Descriptor("request", r.name))
  IN
  /\ Initializes("request")
  /\ \/ /\ identifier \in DOMAIN descriptors
        /\ status' = "terminated"
        /\ UNCHANGED descriptors
     \/ /\ identifier \notin DOMAIN descriptors
        /\ response \in DOMAIN withRequest
        /\ status' = "terminated"
        /\ descriptors' = Without(withRequest, identifier)
     \/ /\ identifier \notin DOMAIN descriptors
        /\ response \notin DOMAIN withRequest
        /\ descriptors' = With(withRequest, response, Descriptor("response", r.name))
        /\ UNCHANGED status

Next ==
  \/ DefinitionNext /\ UNCHANGED <<initializers, twins, descriptors>>
  \/ GenerateProtocolCppSource \/ RegisterMessageProtocol \/ RegisterRequestProtocol

Spec == Init /\ [][Next]_vars

Loaded == status = "started" /\ initializers = <<>>

-----------------------------------------------------------------------------
\* What the protocols of the definition are entered as.
Registrations ==
  LET messages == protocol.messages
      requests == protocol.requests
  IN {Descriptor("message", messages[i].name) : i \in DOMAIN messages}
       \cup {Descriptor("request", requests[i].name) : i \in DOMAIN requests}
       \cup {Descriptor("response", requests[i].name) : i \in DOMAIN requests}

Registered == {descriptors[i] : i \in DOMAIN descriptors}

\* The registry can serve whatever it holds, and a definition that was
\* accepted never keeps a program from starting: a request is registered with
\* its response or not at all, and no two of its protocols share an
\* identifier but by coincidence.
RegistrySound ==
  /\ {d.name : d \in {e \in Registered : e.protocolType = "request"}}
       = {d.name : d \in {e \in Registered : e.protocolType = "response"}}
  /\ status = "terminated" => twins # {}
  /\ Loaded => Registered = Registrations
=============================================================================
