--------------------------- MODULE FrameDelivery ---------------------------
(***************************************************************************)
(* What a protocol reader promises to the sockets that share it: the       *)
(* frames of each peer are handled in the order in which they were sent,   *)
(* each once, however the network cuts the stream into pieces; a frame is  *)
(* delivered if its consumer is registered by then and skipped if not; a   *)
(* response uses up the consumer of its sequence number; a frame that      *)
(* cannot be read, or whose response cannot be written, closes its own     *)
(* socket and no other.                                                    *)
(***************************************************************************)
EXTENDS Naturals, Sequences

CONSTANTS Sockets, Frames, Streams, SequenceNumbers

VARIABLES stream,    \* what the peer of each socket sends
          handled,   \* for each frame so far, whether it was delivered
          consuming, \* message and request identifiers that have a consumer
          awaited,   \* sequence numbers that a response consumer waits for
          open       \* sockets that are still read

deliveryVars == <<stream, handled, consuming, awaited, open>>

DeliveryInit ==
  /\ stream \in [Sockets -> Streams]
  /\ handled = [s \in Sockets |-> <<>>]
  /\ consuming = {}
  /\ awaited = {}
  /\ open = Sockets

NextFrame(s) == stream[s][Len(handled[s]) + 1]

HasConsumer(f) == IF f.type = "response" THEN f.seq \in awaited ELSE f.id \in consuming

Handle(s) ==
  /\ s \in open
  /\ Len(handled[s]) < Len(stream[s])
  /\ NextFrame(s).type \in {"message", "request", "response"}
  /\ handled' = [handled EXCEPT ![s] = Append(@, HasConsumer(NextFrame(s)))]
  /\ awaited' = IF NextFrame(s).type = "response" THEN awaited \ {NextFrame(s).seq}
                                                  ELSE awaited
  /\ UNCHANGED <<stream, consuming, open>>

Fail(s) ==
  /\ s \in open
  /\ Len(handled[s]) < Len(stream[s])
  /\ NextFrame(s).type \in {"unknown", "corrupt"}
  /\ open' = open \ {s}
  /\ UNCHANGED <<stream, handled, consuming, awaited>>

\* The last frame of a socket may be a request that is delivered and not
\* answered.
HandleAndFail(s) ==
  /\ s \in open
  /\ Len(handled[s]) < Len(stream[s])
  /\ NextFrame(s).type = "request"
  /\ HasConsumer(NextFrame(s))
  /\ handled' = [handled EXCEPT ![s] = Append(@, TRUE)]
  /\ open' = open \ {s}
  /\ UNCHANGED <<stream, consuming, awaited>>

Await(q) ==
  /\ awaited' = awaited \cup {q}
  /\ UNCHANGED <<stream, handled, consuming, open>>

ConsumeFrames(id) ==
  /\ consuming' = consuming \cup {id}
  /\ UNCHANGED <<stream, handled, awaited, open>>

DeliveryNext ==
  \/ \E s \in Sockets : Handle(s) \/ Fail(s) \/ HandleAndFail(s)
  \/ \E f \in Frames : ConsumeFrames(f.id)
  \/ \E q \in SequenceNumbers : Await(q)

DeliverySpec == DeliveryInit /\ [][DeliveryNext]_deliveryVars
=============================================================================
