--------------------------- MODULE ProtocolReader ---------------------------
(***************************************************************************)
(* The protocol reader (internal/protocol_reader.cpp) with the buffers of  *)
(* the sockets that share it: the sockets that a listening socket accepted *)
(* have inbound and outbound bytes of their own but one set of consumers.  *)
(*                                                                         *)
(* A peer sends a stream of frames.  A frame is an identifier and a        *)
(* payload, measured in bits and padded to whole bytes.  A byte is named   *)
(* by its position in the stream of its peer, so that a buffer is a        *)
(* sequence of positions, and a frame has the position of its first byte.  *)
(* The network delivers any number of bytes at a time.  Everything here    *)
(* runs on the one consumer thread of a provider, so that registrations    *)
(* come between reads.  Consumers may throw: every exception is caught     *)
(* before it gets here, and a request callback that throws yields a        *)
(* response all the same.  A response may be too large for the field that  *)
(* holds its size, and is then thrown for.                                 *)
(***************************************************************************)
EXTENDS Naturals, Sequences, FiniteSets

CONSTANTS
  Sockets,          \* sockets that share the reader
  NoSocket,         \* no socket is being read
  Frames,           \* what peers may send: [type, id, seq, bits, first]
  Streams,          \* the sequences of frames a peer may send
  MaxFrames,        \* bound: the length of a stream
  BitsPerByte,      \* bitsPerByte
  IdentifierBytes,  \* sizeof(ProtocolIdentifier)
  MaxRequests,      \* bound: sequence numbers that are generated
  MessageRegistrations,  \* bound: identifiers that message consumers are registered for
  RequestRegistrations   \* bound: the same of request consumers

Types == {"message", "request", "response", "unknown", "corrupt"}

MessageIdentifiers == {f.id : f \in {g \in Frames : g.type = "message"}}
RequestIdentifiers == {f.id : f \in {g \in Frames : g.type = "request"}}

\* What the protocol registry has an entry for.
RegisteredIdentifiers == {f.id : f \in {g \in Frames : g.type # "unknown"}}

\* numberOfBitsToNumberOfBytes rounds up.
BitsToBytes(bits) == (bits + BitsPerByte - 1) \div BitsPerByte

\* The position behind the last byte of a frame, which is padded.
After(f) == f.first + BitsToBytes(f.bits)

\* The frames of a stream follow each other without a gap.
LaidOut(frames) ==
  \A k \in 1 .. Len(frames) :
    frames[k].first = IF k = 1 THEN 1 ELSE After(frames[k - 1])

\* The protocol registry has an identifier once, so that no message has that
\* of a request.
ASSUME ReaderAssumption ==
  /\ NoSocket \notin Sockets
  /\ BitsPerByte \in Nat \ {0}
  /\ IdentifierBytes \in Nat \ {0}
  /\ \A f \in Frames : /\ f.type \in Types
                       /\ f.seq \in Nat
                       /\ f.bits \in Nat
                       /\ f.bits >= BitsPerByte * IdentifierBytes
                       /\ f.first \in Nat
  /\ MessageIdentifiers \cap RequestIdentifiers = {}
  /\ MaxFrames \in Nat
  /\ \A frames \in Streams :
       frames \in Seq(Frames) /\ Len(frames) <= MaxFrames /\ LaidOut(frames)
  /\ MaxRequests \in Nat
  /\ MessageRegistrations \cup RequestRegistrations \subseteq RegisteredIdentifiers

VARIABLES
  stream,        \* what the peer of each socket sends, first to last
  delivered,     \* how many bytes of it the socket has received
  inboundBytes,  \* received and not erased, per socket
  outboundBytes, \* responses of the read under way, per socket
  sentBytes,     \* history: responses handed to the socket, per socket
  inboundMessageConsumers,
  inboundRequestConsumers,
  inboundOneShotResponseConsumers,
  sequencer,     \* the next sequence number of the provider
  open,          \* sockets that were not erased
  reading,       \* the socket that readInboundBytes works for
  inboundBitsOffset,  \* its local offset: bits that were consumed
  handled        \* history: for each frame consumed, whether it had a consumer

consumers == <<inboundMessageConsumers, inboundRequestConsumers,
               inboundOneShotResponseConsumers, sequencer>>

vars == <<stream, delivered, inboundBytes, outboundBytes, sentBytes, consumers,
          open, reading, inboundBitsOffset, handled>>

-----------------------------------------------------------------------------
SequenceNumbers == 0 .. MaxRequests - 1

StreamLength(frames) == IF frames = <<>> THEN 0 ELSE After(frames[Len(frames)]) - 1

\* Bytes in the middle of a frame are not taken for a registered identifier.
Misread == [type |-> "unknown", id |-> "none", seq |-> 0,
            bits |-> BitsPerByte * IdentifierBytes]

\* The frame whose identifier the reader finds at its offset.
Current ==
  LET byte == inboundBytes[reading][inboundBitsOffset \div BitsPerByte + 1]
      Found == {k \in 1 .. Len(stream[reading]) : stream[reading][k].first = byte}
  IN IF Found = {} THEN Misread ELSE stream[reading][CHOOSE k \in Found : TRUE]

IdentifierReceived ==
  Len(inboundBytes[reading]) >= inboundBitsOffset \div BitsPerByte + IdentifierBytes

\* Faulty variant: bytes that were already consumed are counted again.
CurrentReceivedFromStart == BitsPerByte * Len(inboundBytes[reading]) >= Current.bits

\* What a deserializer tests before it reads the payload.
CurrentReceived ==
  BitsPerByte * Len(inboundBytes[reading]) >= inboundBitsOffset + Current.bits

-----------------------------------------------------------------------------
Init ==
  /\ stream \in [Sockets -> Streams]
  /\ delivered = [s \in Sockets |-> 0]
  /\ inboundBytes = [s \in Sockets |-> <<>>]
  /\ outboundBytes = [s \in Sockets |-> <<>>]
  /\ sentBytes = [s \in Sockets |-> <<>>]
  /\ inboundMessageConsumers = {}
  /\ inboundRequestConsumers = {}
  /\ inboundOneShotResponseConsumers = {}
  /\ sequencer = 0
  /\ open = Sockets
  /\ reading = NoSocket
  /\ inboundBitsOffset = 0
  /\ handled = [s \in Sockets |-> <<>>]

-----------------------------------------------------------------------------
(* Registrations.  A second one for the same key throws and changes        *)
(* nothing, and so does one for an identifier that the protocol registry   *)
(* does not have.  Nothing tests that the protocol is of the kind that the *)
(* consumer is registered for: one that is not is never called.            *)

RegisterInboundMessageConsumer(id) ==
  /\ reading = NoSocket
  /\ id \notin inboundMessageConsumers
  /\ inboundMessageConsumers' = inboundMessageConsumers \cup {id}
  /\ UNCHANGED <<stream, delivered, inboundBytes, outboundBytes, sentBytes,
                 inboundRequestConsumers, inboundOneShotResponseConsumers,
                 sequencer, open, reading, inboundBitsOffset, handled>>

RegisterInboundRequestConsumer(id) ==
  /\ reading = NoSocket
  /\ id \notin inboundRequestConsumers
  /\ inboundRequestConsumers' = inboundRequestConsumers \cup {id}
  /\ UNCHANGED <<stream, delivered, inboundBytes, outboundBytes, sentBytes,
                 inboundMessageConsumers, inboundOneShotResponseConsumers,
                 sequencer, open, reading, inboundBitsOffset, handled>>

\* sendRequest registers the consumer under a number that it just generated.
RegisterInboundOneShotResponseConsumer ==
  /\ reading = NoSocket
  /\ sequencer < MaxRequests
  /\ sequencer \notin inboundOneShotResponseConsumers
  /\ sequencer' = sequencer + 1
  /\ inboundOneShotResponseConsumers' = inboundOneShotResponseConsumers \cup {sequencer}
  /\ UNCHANGED <<stream, delivered, inboundBytes, outboundBytes, sentBytes,
                 inboundMessageConsumers, inboundRequestConsumers, open,
                 reading, inboundBitsOffset, handled>>

-----------------------------------------------------------------------------
(* readInboundBytes, called with what a socket received.                   *)

ReceiveBytes(s) ==
  /\ reading = NoSocket
  /\ s \in open
  /\ \E n \in 1 .. StreamLength(stream[s]) - delivered[s] :
       /\ inboundBytes' = [inboundBytes EXCEPT ![s] = @ \o [b \in 1 .. n |-> delivered[s] + b]]
       /\ delivered' = [delivered EXCEPT ![s] = @ + n]
  /\ reading' = s
  /\ inboundBitsOffset' = 0
  /\ UNCHANGED <<stream, outboundBytes, sentBytes, consumers, open, handled>>

\* Faulty variant: the padding of the last byte is left for the next frame.
ConsumeBits(hasConsumer) ==
  /\ inboundBitsOffset' = inboundBitsOffset + Current.bits
  /\ handled' = [handled EXCEPT ![reading] = Append(@, hasConsumer)]

\* The offset is always left on a byte boundary.
Consume(hasConsumer) ==
  /\ inboundBitsOffset' = BitsPerByte * BitsToBytes(inboundBitsOffset + Current.bits)
  /\ handled' = [handled EXCEPT ![reading] = Append(@, hasConsumer)]

ReadInboundMessage ==
  /\ Current.type = "message"
  /\ Consume(Current.id \in inboundMessageConsumers)
  /\ UNCHANGED <<outboundBytes, consumers>>

\* A request without a consumer is skipped, and never answered.
ReadInboundRequest ==
  /\ Current.type = "request"
  /\ Consume(Current.id \in inboundRequestConsumers)
  /\ outboundBytes' = IF Current.id \in inboundRequestConsumers
                      THEN [outboundBytes EXCEPT ![reading] = Append(@, Current.seq)]
                      ELSE outboundBytes
  /\ UNCHANGED consumers

\* Faulty variant: the consumer stays.
ReadInboundResponseKeepsConsumer ==
  /\ Current.type = "response"
  /\ Consume(Current.seq \in inboundOneShotResponseConsumers)
  /\ UNCHANGED <<outboundBytes, consumers>>

\* The consumer is erased when it is over, even if it threw.
ReadInboundResponse ==
  /\ Current.type = "response"
  /\ Consume(Current.seq \in inboundOneShotResponseConsumers)
  /\ inboundOneShotResponseConsumers' = inboundOneShotResponseConsumers \ {Current.seq}
  /\ UNCHANGED <<outboundBytes, inboundMessageConsumers, inboundRequestConsumers, sequencer>>

ReadProtocol ==
  /\ reading # NoSocket
  /\ IdentifierReceived
  /\ CurrentReceived
  /\ ReadInboundMessage \/ ReadInboundRequest \/ ReadInboundResponse
  /\ UNCHANGED <<stream, delivered, inboundBytes, sentBytes, open, reading>>

\* An identifier that is not registered, or a payload that cannot be
\* deserialized: the exception leaves readInboundBytes and its caller erases
\* the socket with its buffers.
ReadThrows ==
  /\ reading # NoSocket
  /\ IdentifierReceived
  /\ \/ Current.type = "unknown"
     \/ Current.type = "corrupt" /\ CurrentReceived
  /\ inboundBytes' = [inboundBytes EXCEPT ![reading] = <<>>]
  /\ outboundBytes' = [outboundBytes EXCEPT ![reading] = <<>>]
  /\ open' = open \ {reading}
  /\ reading' = NoSocket
  /\ UNCHANGED <<stream, delivered, sentBytes, consumers, inboundBitsOffset, handled>>

\* The response of a request cannot be serialized: the callback has run, and
\* the exception leaves readInboundBytes in the same way.
ResponseThrows ==
  /\ reading # NoSocket
  /\ IdentifierReceived
  /\ CurrentReceived
  /\ Current.type = "request"
  /\ Current.id \in inboundRequestConsumers
  /\ handled' = [handled EXCEPT ![reading] = Append(@, TRUE)]
  /\ inboundBytes' = [inboundBytes EXCEPT ![reading] = <<>>]
  /\ outboundBytes' = [outboundBytes EXCEPT ![reading] = <<>>]
  /\ open' = open \ {reading}
  /\ reading' = NoSocket
  /\ UNCHANGED <<stream, delivered, sentBytes, consumers, inboundBitsOffset>>

\* Faulty variants: an incomplete frame is erased, responses are sent again
\* with the next ones, and one call reads one protocol.
ReturnErasingAll ==
  /\ reading # NoSocket
  /\ IdentifierReceived => ~CurrentReceived /\ Current.type # "unknown"
  /\ inboundBytes' = [inboundBytes EXCEPT ![reading] = <<>>]
  /\ sentBytes' = [sentBytes EXCEPT ![reading] = @ \o outboundBytes[reading]]
  /\ outboundBytes' = [outboundBytes EXCEPT ![reading] = <<>>]
  /\ reading' = NoSocket
  /\ UNCHANGED <<stream, delivered, consumers, open, inboundBitsOffset, handled>>

ReturnKeepingResponses ==
  /\ reading # NoSocket
  /\ IdentifierReceived => ~CurrentReceived /\ Current.type # "unknown"
  /\ inboundBytes' = [inboundBytes EXCEPT ![reading] =
                        SubSeq(@, inboundBitsOffset \div BitsPerByte + 1, Len(@))]
  /\ sentBytes' = [sentBytes EXCEPT ![reading] = @ \o outboundBytes[reading]]
  /\ reading' = NoSocket
  /\ UNCHANGED <<stream, delivered, outboundBytes, consumers, open, inboundBitsOffset, handled>>

ReturnAfterOneProtocol ==
  /\ reading # NoSocket
  /\ \/ inboundBitsOffset > 0
     \/ IdentifierReceived => ~CurrentReceived /\ Current.type # "unknown"
  /\ inboundBytes' = [inboundBytes EXCEPT ![reading] =
                        SubSeq(@, inboundBitsOffset \div BitsPerByte + 1, Len(@))]
  /\ sentBytes' = [sentBytes EXCEPT ![reading] = @ \o outboundBytes[reading]]
  /\ outboundBytes' = [outboundBytes EXCEPT ![reading] = <<>>]
  /\ reading' = NoSocket
  /\ UNCHANGED <<stream, delivered, consumers, open, inboundBitsOffset, handled>>

\* Too few bytes are left: erase the consumed ones, and send the responses.
ReturnFromRead ==
  /\ reading # NoSocket
  /\ IdentifierReceived => ~CurrentReceived /\ Current.type # "unknown"
  /\ inboundBytes' = [inboundBytes EXCEPT ![reading] =
                        SubSeq(@, inboundBitsOffset \div BitsPerByte + 1, Len(@))]
  /\ sentBytes' = [sentBytes EXCEPT ![reading] = @ \o outboundBytes[reading]]
  /\ outboundBytes' = [outboundBytes EXCEPT ![reading] = <<>>]
  /\ reading' = NoSocket
  /\ UNCHANGED <<stream, delivered, consumers, open, inboundBitsOffset, handled>>

ReadInboundBytes == ReadProtocol \/ ReadThrows \/ ResponseThrows \/ ReturnFromRead

-----------------------------------------------------------------------------
Next ==
  \/ \E s \in Sockets : ReceiveBytes(s)
  \/ ReadInboundBytes
  \/ \E id \in MessageRegistrations : RegisterInboundMessageConsumer(id)
  \/ \E id \in RequestRegistrations : RegisterInboundRequestConsumer(id)
  \/ RegisterInboundOneShotResponseConsumer

Spec == Init /\ [][Next]_vars

\* A read, once started, is carried on by the consumer thread.
FairSpec == Spec /\ WF_vars(ReadInboundBytes)

-----------------------------------------------------------------------------
\* The values each variable may take.
TypeOK ==
  /\ stream \in [Sockets -> Streams]
  /\ delivered \in [Sockets -> Nat]
  /\ inboundBytes \in [Sockets -> Seq(Nat)]
  /\ outboundBytes \in [Sockets -> Seq(Nat)]
  /\ sentBytes \in [Sockets -> Seq(Nat)]
  /\ handled \in [Sockets -> Seq(BOOLEAN)]
  /\ \A s \in Sockets : /\ delivered[s] <= StreamLength(stream[s])
                         /\ Len(handled[s]) <= Len(stream[s])
  /\ inboundMessageConsumers \subseteq MessageRegistrations
  /\ inboundRequestConsumers \subseteq RequestRegistrations
  /\ inboundOneShotResponseConsumers \subseteq SequenceNumbers
  /\ sequencer \in 0 .. MaxRequests
  /\ open \subseteq Sockets
  /\ reading \in Sockets \cup {NoSocket}
  /\ inboundBitsOffset \in Nat
  /\ inboundBitsOffset % BitsPerByte = 0

\* The position of the first byte that was not consumed.
Unread(s) == IF Len(handled[s]) < Len(stream[s])
             THEN stream[s][Len(handled[s]) + 1].first ELSE StreamLength(stream[s]) + 1

\* Between reads a socket keeps exactly the bytes of the frames that it has
\* not consumed, from the first byte of the next one, and too few to consume
\* that one: nothing is erased early, kept for good, or taken from the
\* buffer of another socket.
BuffersFramed ==
  \A s \in open \ {reading} :
    /\ Unread(s) <= delivered[s] + 1
    /\ inboundBytes[s] = [b \in 1 .. delivered[s] + 1 - Unread(s) |-> Unread(s) + b - 1]
    /\ Len(handled[s]) < Len(stream[s]) => delivered[s] + 1 < After(stream[s][Len(handled[s]) + 1])

\* A consumer of responses runs at most once, for a request that was sent,
\* whichever sockets share the reader and whatever their peers send.
DeliveredResponses(q) ==
  {p \in Sockets \X (1 .. MaxFrames) :
     /\ p[2] <= Len(handled[p[1]])
     /\ handled[p[1]][p[2]]
     /\ stream[p[1]][p[2]].type = "response"
     /\ stream[p[1]][p[2]].seq = q}

OneShotConsumers ==
  \A q \in SequenceNumbers :
    Cardinality(DeliveredResponses(q)) =
      IF q < sequencer /\ q \notin inboundOneShotResponseConsumers THEN 1 ELSE 0

\* Each socket answers its own requests, in their order, and all of those of
\* one read together; a socket that was erased has answered the first of them.
DeliveredRequests(s) ==
  {k \in 1 .. Len(handled[s]) : handled[s][k] /\ stream[s][k].type = "request"}
Answers(s) == sentBytes[s] \o outboundBytes[s]

RequestsAnswered ==
  \A s \in Sockets :
    /\ IF s \in open THEN Len(Answers(s)) = Cardinality(DeliveredRequests(s))
                    ELSE Len(Answers(s)) <= Cardinality(DeliveredRequests(s))
    /\ \A k \in DeliveredRequests(s) :
         LET n == Cardinality({j \in DeliveredRequests(s) : j <= k})
         IN n <= Len(Answers(s)) => Answers(s)[n] = stream[s][k].seq

\* The reader keeps the promise of FrameDelivery.
Delivery ==
  INSTANCE FrameDelivery WITH
    consuming <- (inboundMessageConsumers \cap MessageIdentifiers)
                   \cup (inboundRequestConsumers \cap RequestIdentifiers),
    awaited <- inboundOneShotResponseConsumers

ImplementsDelivery == Delivery!DeliverySpec

\* A frame is handled once all its bytes are there: it does not wait for the
\* bytes of a later one, nor does a frame behind an incomplete one exist.
FramesHandled ==
  \A s \in Sockets : \A k \in 1 .. MaxFrames :
    (k <= Len(stream[s]) /\ delivered[s] + 1 >= After(stream[s][k]))
      ~> (Len(handled[s]) >= k \/ s \notin open)
=============================================================================
