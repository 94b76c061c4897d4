------------------------ MODULE LinuxSocketContainer ------------------------
(***************************************************************************)
(* The sockets of the Linux back end (internal/linux/socket_container.cpp, *)
(* linux_socket.cpp, event_poll.cpp) and the consumer thread that handles  *)
(* a batch of edge-triggered events after each epoll_wait.  Tasks of users *)
(* run where the batch has the event of the task queue (see TaskQueue).    *)
(*                                                                         *)
(* File descriptors are what the kernel and the event poll know: the       *)
(* lowest free one is given to the next socket, so one that is closed in   *)
(* the middle of a batch may belong to another socket when an event that   *)
(* was reported for it comes up.  Identifiers are never used again.        *)
(* The bytes that a socket is asked to send are numbered from 1.           *)
(***************************************************************************)
EXTENDS Naturals, Sequences, FiniteSets

CONSTANTS
  MaxSockets,      \* bound: identifiers that are generated
  MaxDescriptors,  \* limit of open file descriptors
  MaxBacklog,      \* bound: connections that wait to be accepted
  MaxBytes,        \* bound: bytes sent on one socket
  MaxSpace,        \* what fits the send buffer of the kernel
  Faults           \* which errors occur: "accept", "subscribe", "callback"

ASSUME ContainerAssumption ==
  /\ MaxSockets \in Nat
  /\ MaxDescriptors \in Nat
  /\ MaxBacklog \in Nat
  /\ MaxBytes \in Nat
  /\ MaxSpace \in Nat \ {0}
  /\ Faults \subseteq {"accept", "subscribe", "callback"}

Identifiers == 1 .. MaxSockets
NoIdentifier == 0
Descriptors == 1 .. MaxDescriptors
NoDescriptor == 0

VARIABLES
  sequencer,  \* the next identifier
  type,       \* SocketType of each socket in sockets_, "none" if it is not there
  listening,  \* listeningSocketIdentifier
  descriptor, \* the file descriptor of each socket in sockets_
  socketOf,   \* fileDescriptorsToSockets_
  interest,   \* events subscribed for each descriptor, {} if none
  outgoing,   \* outgoingBuffer_
  wire,       \* history: bytes given to the kernel
  written,    \* history: how many bytes were handed to sendBytes, numbered from 1
  kernel,     \* what the kernel knows of each descriptor
  ready,      \* the ready list of the event poll
  batch,      \* reported events that were not handled yet
  consumer,   \* where the consumer thread is
  current,    \* the socket that a handler works for
  stage,      \* history: what the user was told of each socket
  premature,  \* history: sockets announced before they were connected
  reused      \* history: sockets whose descriptor had an event in the batch

vars == <<sequencer, type, listening, descriptor, socketOf, interest, outgoing,
          wire, written, kernel, ready, batch, consumer, current, stage, premature, reused>>

container == <<sequencer, type, listening, descriptor, socketOf, stage, reused>>

-----------------------------------------------------------------------------
(* The kernel.                                                             *)

Free == [state |-> "free", backlog |-> 0, input |-> FALSE, end |-> FALSE, space |-> 0]
Fresh(state) ==
  [Free EXCEPT !.state = state, !.space = IF state = "established" THEN MaxSpace ELSE 0]
Broken(k) == k.state \in {"failed", "reset"}

FreeDescriptors == {f \in Descriptors : kernel[f].state = "free"}
LowestFree == CHOOSE f \in FreeDescriptors : \A g \in FreeDescriptors : f <= g

\* The events that a descriptor has, of those subscribed; errors need no subscription.
Events(k, subscribed) ==
  (IF Broken(k) THEN {"err"} ELSE {})
  \cup ({"in"} \cap (IF k.backlog > 0 \/ k.input \/ k.end THEN subscribed ELSE {}))
  \cup ({"out"} \cap (IF k.state = "established" /\ k.space > 0 THEN subscribed ELSE {}))

\* A change makes the descriptor ready if it brings an event that is subscribed.
Wake(f, k, event) ==
  /\ kernel' = [kernel EXCEPT ![f] = k]
  /\ ready' = IF event \in interest[f] \cup {"err"} THEN ready \cup {f} ELSE ready

\* EPOLL_CTL_ADD and EPOLL_CTL_MOD: the descriptor is ready if it has an event.
Subscribe(f, k, events) ==
  /\ interest' = [interest EXCEPT ![f] = events]
  /\ ready' = IF Events(k, events) # {} THEN ready \cup {f} ELSE ready

Init ==
  /\ sequencer = 1
  /\ type = [i \in Identifiers |-> "none"]
  /\ listening = [i \in Identifiers |-> NoIdentifier]
  /\ descriptor = [i \in Identifiers |-> NoDescriptor]
  /\ socketOf = [f \in Descriptors |-> NoIdentifier]
  /\ interest = [f \in Descriptors |-> {}]
  /\ outgoing = [i \in Identifiers |-> <<>>]
  /\ wire = [i \in Identifiers |-> <<>>]
  /\ written = [i \in Identifiers |-> 0]
  /\ kernel = [f \in Descriptors |-> Free]
  /\ ready = {}
  /\ batch = <<>>
  /\ consumer = "waiting"
  /\ current = NoIdentifier
  /\ stage = [i \in Identifiers |-> "new"]
  /\ premature = {}
  /\ reused = {}

\* The bound on identifiers, with those that waiting clients will need.
WaitingClients == {w \in Descriptors \X (1 .. MaxBacklog) : w[2] <= kernel[w[1]].backlog}
IdentifiersLeft == sequencer + Cardinality(WaitingClients) <= MaxSockets

\* A client of a listening socket, the peer of a connection, or the network.
PeerActs(f) ==
  LET k == kernel[f] IN
  \/ /\ k.state = "listening" /\ k.backlog < MaxBacklog /\ IdentifiersLeft
     /\ Wake(f, [k EXCEPT !.backlog = @ + 1], "in")
  \/ /\ k.state = "established" /\ ~k.input /\ ~k.end
     /\ Wake(f, [k EXCEPT !.input = TRUE], "in")
  \/ /\ k.state = "established" /\ ~k.end
     /\ Wake(f, [k EXCEPT !.end = TRUE], "in")
  \/ /\ k.state = "established"
     /\ Wake(f, [k EXCEPT !.state = "reset"], "err")

\* The peer reads what was sent to it.
PeerReads(f) ==
  /\ kernel[f].state = "established"
  /\ kernel[f].space < MaxSpace
  /\ Wake(f, [kernel[f] EXCEPT !.space = MaxSpace], "out")

\* A connection is made, refused or timed out.
ConnectionSettles(f) ==
  /\ kernel[f].state = "connecting"
  /\ \/ Wake(f, Fresh("established"), "out")
     \/ Wake(f, Fresh("failed"), "err")

KernelStep(f) ==
  /\ PeerActs(f) \/ PeerReads(f) \/ ConnectionSettles(f)
  /\ UNCHANGED <<container, interest, outgoing, wire, written, batch, consumer, current, premature>>

Environment == \E f \in Descriptors : KernelStep(f)

-----------------------------------------------------------------------------
(* insertSocket and eraseSocket.                                           *)

\* Some event for the descriptor was reported and not handled yet.
Reported(f) == \E n \in DOMAIN batch : batch[n].descriptor = f

InsertSocket(i, f, socketType, acceptor, k, events) ==
  /\ type' = [type EXCEPT ![i] = socketType]
  /\ listening' = [listening EXCEPT ![i] = acceptor]
  /\ descriptor' = [descriptor EXCEPT ![i] = f]
  /\ socketOf' = [socketOf EXCEPT ![f] = i]
  /\ reused' = IF Reported(f) THEN reused \cup {i} ELSE reused
  /\ Subscribe(f, k, events)

\* Faulty variant: the entry of the descriptor stays.
UndoInsertKeepingEntry(i, f, socketType, opened) ==
  LET sockets     == [type EXCEPT ![i] = socketType]
      descriptors == [descriptor EXCEPT ![i] = f]
  IN /\ socketOf' = [socketOf EXCEPT ![f] = i]
     /\ type' = [sockets EXCEPT ![i] = "none"]
     /\ descriptor' = [descriptors EXCEPT ![i] = NoDescriptor]
     /\ kernel' = [opened EXCEPT ![f] = Free]
     /\ UNCHANGED <<listening, interest, ready, reused>>

\* insertSocket when subscribe throws: the socket is in both maps by then,
\* and the two guards take it out again, which closes its descriptor.
UndoInsert(i, f, socketType, opened) ==
  LET sockets     == [type EXCEPT ![i] = socketType]
      descriptors == [descriptor EXCEPT ![i] = f]
      owners      == [socketOf EXCEPT ![f] = i]
  IN /\ socketOf' = [owners EXCEPT ![f] = NoIdentifier]
     /\ type' = [sockets EXCEPT ![i] = "none"]
     /\ descriptor' = [descriptors EXCEPT ![i] = NoDescriptor]
     /\ kernel' = [opened EXCEPT ![f] = Free]
     /\ UNCHANGED <<listening, interest, ready, reused>>

\* Faulty variant: a socket whose listening socket is gone is told itself.
EraseSocketTellingItself(i) ==
  LET f == descriptor[i] IN
  /\ type[i] # "none"
  /\ stage' = [stage EXCEPT ![i] = "closed"]
  /\ interest' = [interest EXCEPT ![f] = {}]
  /\ ready' = ready \ {f}
  /\ socketOf' = [socketOf EXCEPT ![f] = NoIdentifier]
  /\ type' = [type EXCEPT ![i] = "none"]
  /\ descriptor' = [descriptor EXCEPT ![i] = NoDescriptor]
  /\ kernel' = [kernel EXCEPT ![f] = Free]
  /\ outgoing' = [outgoing EXCEPT ![i] = <<>>]
  /\ wire' = [wire EXCEPT ![i] = <<>>]
  /\ written' = [written EXCEPT ![i] = 0]
  /\ UNCHANGED <<sequencer, listening, premature, reused>>

\* The user is told unless the listening socket is gone; what the callback
\* throws is logged.  The descriptor is unsubscribed and closed.
EraseSocket(i) ==
  LET f == descriptor[i] IN
  /\ type[i] # "none"
  /\ stage' = [stage EXCEPT ![i] =
                 IF listening[i] # NoIdentifier /\ type[listening[i]] = "none"
                 THEN "lost" ELSE "closed"]
  /\ interest' = [interest EXCEPT ![f] = {}]
  /\ ready' = ready \ {f}
  /\ socketOf' = [socketOf EXCEPT ![f] = NoIdentifier]
  /\ type' = [type EXCEPT ![i] = "none"]
  /\ descriptor' = [descriptor EXCEPT ![i] = NoDescriptor]
  /\ kernel' = [kernel EXCEPT ![f] = Free]
  /\ outgoing' = [outgoing EXCEPT ![i] = <<>>]
  /\ wire' = [wire EXCEPT ![i] = <<>>]
  /\ written' = [written EXCEPT ![i] = 0]
  /\ UNCHANGED <<sequencer, listening, premature, reused>>

-----------------------------------------------------------------------------
(* LinuxSocket::sendBytes, and the events that follow from what is left.   *)

\* Faulty variants: part of the bytes is taken for all of them; what is left
\* is not waited for.
SendBytesWhole(i, bytes, k) ==
  LET f    == descriptor[i]
      all  == outgoing[i] \o bytes
      sent == IF Len(all) < k.space THEN Len(all) ELSE k.space
      left == [k EXCEPT !.space = @ - sent]
  IN /\ wire' = [wire EXCEPT ![i] = @ \o SubSeq(all, 1, sent)]
     /\ outgoing' = [outgoing EXCEPT ![i] = <<>>]
     /\ kernel' = [kernel EXCEPT ![f] = left]
     /\ Subscribe(f, left, {"in"})

SendBytesUnsubscribed(i, bytes, k) ==
  LET f    == descriptor[i]
      all  == outgoing[i] \o bytes
      sent == IF Len(all) < k.space THEN Len(all) ELSE k.space
      left == [k EXCEPT !.space = @ - sent]
  IN /\ wire' = [wire EXCEPT ![i] = @ \o SubSeq(all, 1, sent)]
     /\ outgoing' = [outgoing EXCEPT ![i] = SubSeq(all, sent + 1, Len(all))]
     /\ kernel' = [kernel EXCEPT ![f] = left]
     /\ Subscribe(f, left, {"in"})

SendBytes(i, bytes, k) ==
  LET f    == descriptor[i]
      all  == outgoing[i] \o bytes
      sent == IF Len(all) < k.space THEN Len(all) ELSE k.space
      left == [k EXCEPT !.space = @ - sent]
  IN /\ wire' = [wire EXCEPT ![i] = @ \o SubSeq(all, 1, sent)]
     /\ outgoing' = [outgoing EXCEPT ![i] = SubSeq(all, sent + 1, Len(all))]
     /\ kernel' = [kernel EXCEPT ![f] = left]
     /\ Subscribe(f, left, IF sent = Len(all) THEN {"in"} ELSE {"in", "out"})

\* The next byte that is sent on a socket.
NextByte(i) == <<written[i] + 1>>
MaySend(i) == written[i] < MaxBytes
Written(i) == written' = [written EXCEPT ![i] = @ + 1]

Connected(i) == type[i] \in {"accepted", "connected"}

-----------------------------------------------------------------------------
(* Tasks: listen, connect, sendBytes or sendRequest, close.  The register  *)
(* tasks change the protocol reader only.                                  *)

\* The socket cannot be created, or is inserted and cannot be subscribed:
\* the exception is logged; the user is not told.
OpenFails ==
  /\ consumer = "tasks"
  /\ IdentifiersLeft
  /\ \/ UNCHANGED <<type, listening, descriptor, socketOf, interest, kernel, ready, reused>>
     \/ /\ "subscribe" \in Faults
        /\ FreeDescriptors # {}
        /\ \E socketType \in {"listening", "connecting"} :
             UndoInsert(sequencer, LowestFree, socketType,
                        [kernel EXCEPT ![LowestFree] = Fresh(socketType)])
  /\ sequencer' = sequencer + 1
  /\ stage' = [stage EXCEPT ![sequencer] = "failed"]
  /\ UNCHANGED <<outgoing, wire, written, batch, consumer, current, premature>>

Listen ==
  /\ consumer = "tasks"
  /\ IdentifiersLeft
  /\ FreeDescriptors # {}
  /\ LET k == Fresh("listening") IN
       /\ kernel' = [kernel EXCEPT ![LowestFree] = k]
       /\ InsertSocket(sequencer, LowestFree, "listening", NoIdentifier, k, {"in"})
  /\ sequencer' = sequencer + 1
  /\ stage' = [stage EXCEPT ![sequencer] = "open"]
  /\ UNCHANGED <<outgoing, wire, written, batch, consumer, current, premature>>

\* The connection may be there at once, as it may be on the local host.
Connect ==
  /\ consumer = "tasks"
  /\ IdentifiersLeft
  /\ FreeDescriptors # {}
  /\ \E k \in {Fresh("connecting"), Fresh("established")} :
       /\ kernel' = [kernel EXCEPT ![LowestFree] = k]
       /\ InsertSocket(sequencer, LowestFree, "connecting", NoIdentifier, k, {"out"})
  /\ sequencer' = sequencer + 1
  /\ stage' = [stage EXCEPT ![sequencer] = "opening"]
  /\ UNCHANGED <<outgoing, wire, written, batch, consumer, current, premature>>

\* A socket that is gone, is not connected or was reset makes the task throw,
\* which is logged: the bytes are lost.
Send(i) ==
  /\ consumer = "tasks"
  /\ Connected(i)
  /\ ~Broken(kernel[descriptor[i]])
  /\ MaySend(i)
  /\ SendBytes(i, NextByte(i), kernel[descriptor[i]])
  /\ Written(i)
  /\ UNCHANGED <<container, batch, consumer, current, premature>>

SendThrows(i) ==
  /\ consumer = "tasks"
  /\ Connected(i)
  /\ Broken(kernel[descriptor[i]])
  /\ MaySend(i)
  /\ outgoing' = [outgoing EXCEPT ![i] = @ \o NextByte(i)]
  /\ Written(i)
  /\ UNCHANGED <<container, interest, wire, kernel, ready, batch, consumer, current, premature>>

Close(i) ==
  /\ consumer = "tasks"
  /\ EraseSocket(i)
  /\ UNCHANGED <<batch, consumer, current>>

FinishTasks ==
  /\ consumer = "tasks"
  /\ consumer' = "handling"
  /\ UNCHANGED <<container, interest, outgoing, wire, written, kernel, ready, batch, current, premature>>

\* The abort task: the thread returns, and no user is told anything more.
Abort ==
  /\ consumer = "tasks"
  /\ consumer' = "stopped"
  /\ UNCHANGED <<container, interest, outgoing, wire, written, kernel, ready, batch, current, premature>>

Tasks ==
  \/ OpenFails \/ Listen \/ Connect \/ FinishTasks \/ Abort
  \/ \E i \in Identifiers : Send(i) \/ SendThrows(i) \/ Close(i)

-----------------------------------------------------------------------------
(* consumeEventsWork and handleSocketEvents.                               *)

\* The event of the task queue may be anywhere in the batch.
TaskEvent == [descriptor |-> NoDescriptor, events |-> {}]

Orders(S) ==
  {q \in [1 .. Cardinality(S) -> S] : \A m, n \in DOMAIN q : m # n => q[m] # q[n]}

Wait ==
  /\ consumer = "waiting"
  /\ LET Pending == {f \in ready : Events(kernel[f], interest[f]) # {}}
         Reports == {[descriptor |-> f, events |-> Events(kernel[f], interest[f])] : f \in Pending}
     IN \E S \in {Reports, Reports \cup {TaskEvent}} : S # {} /\ batch' \in Orders(S)
  /\ ready' = {}
  /\ consumer' = "handling"
  /\ UNCHANGED <<container, interest, outgoing, wire, written, kernel, current, premature>>

EndBatch ==
  /\ consumer = "handling"
  /\ batch = <<>>
  /\ consumer' = "waiting"
  /\ UNCHANGED <<container, interest, outgoing, wire, written, kernel, ready, batch, current, premature>>

StartTasks ==
  /\ consumer = "handling"
  /\ batch # <<>>
  /\ Head(batch) = TaskEvent
  /\ batch' = Tail(batch)
  /\ consumer' = "tasks"
  /\ UNCHANGED <<container, interest, outgoing, wire, written, kernel, ready, current, premature>>

\* Nobody has the descriptor any more, and nothing is subscribed for it.
SkipEvent ==
  /\ consumer = "handling"
  /\ batch # <<>>
  /\ Head(batch).descriptor # NoDescriptor
  /\ socketOf[Head(batch).descriptor] = NoIdentifier
  /\ batch' = Tail(batch)
  /\ UNCHANGED <<container, interest, outgoing, wire, written, kernel, ready, consumer, current, premature>>

\* The next event is handled for whichever socket has its descriptor now.
Handling(i, events) ==
  /\ consumer = "handling"
  /\ batch # <<>>
  /\ descriptor[i] # NoDescriptor
  /\ Head(batch).descriptor = descriptor[i]
  /\ Head(batch).events = events
  /\ batch' = Tail(batch)

\* Whatever a handler throws makes handleSocketEvents erase the socket.
Throw(i) == consumer' = "erasing" /\ current' = i
Return == consumer' = "handling" /\ current' = NoIdentifier

HandleError(i) ==
  /\ \E events \in SUBSET {"in", "out", "err"} : "err" \in events /\ Handling(i, events)
  /\ Throw(i)
  /\ UNCHANGED <<container, interest, outgoing, wire, written, kernel, ready, premature>>

HandleListening(i) ==
  /\ \E events \in SUBSET {"in", "out"} : Handling(i, events)
  /\ type[i] = "listening"
  /\ consumer' = "accepting"
  /\ current' = i
  /\ UNCHANGED <<container, interest, outgoing, wire, written, kernel, ready, premature>>

\* Faulty variants: an error is taken for the connection; the events stay
\* those of a connecting socket.
HandleConnectingOnError(i) ==
  /\ \E events \in SUBSET {"in", "out", "err"} : Handling(i, events)
  /\ type[i] = "connecting"
  /\ type' = [type EXCEPT ![i] = "connected"]
  /\ Subscribe(descriptor[i], kernel[descriptor[i]], {"in"})
  /\ stage' = [stage EXCEPT ![i] = "open"]
  /\ premature' = IF kernel[descriptor[i]].state \in {"established", "reset"}
                  THEN premature ELSE premature \cup {i}
  /\ Return
  /\ UNCHANGED <<sequencer, listening, descriptor, socketOf, outgoing, wire, written, kernel, reused>>

HandleConnectingUnsubscribed(i) ==
  /\ \E events \in SUBSET {"in", "out"} : Handling(i, events)
  /\ type[i] = "connecting"
  /\ type' = [type EXCEPT ![i] = "connected"]
  /\ stage' = [stage EXCEPT ![i] = "open"]
  /\ Return
  /\ UNCHANGED <<sequencer, listening, descriptor, socketOf, interest, ready, outgoing,
                 wire, written, kernel, premature, reused>>

HandleConnecting(i) ==
  /\ \E events \in SUBSET {"in", "out"} : Handling(i, events)
  /\ type[i] = "connecting"
  /\ type' = [type EXCEPT ![i] = "connected"]
  /\ Subscribe(descriptor[i], kernel[descriptor[i]], {"in"})
  /\ stage' = [stage EXCEPT ![i] = "open"]
  /\ premature' = IF kernel[descriptor[i]].state \in {"established", "reset"}
                  THEN premature ELSE premature \cup {i}
  /\ Return \/ ("callback" \in Faults /\ Throw(i))
  /\ UNCHANGED <<sequencer, listening, descriptor, socketOf, outgoing, wire, written, kernel, reused>>

Orphaned(i) == listening[i] # NoIdentifier /\ type[listening[i]] = "none"

\* Receive until nothing is left, read the protocols, send their responses;
\* the end of the stream erases the socket.
HandleInput(i) ==
  LET f == descriptor[i]
      k == [kernel[f] EXCEPT !.input = FALSE]
  IN /\ Connected(i)
     /\ \E events \in SUBSET {"in", "out"} :
          /\ "in" \in events
          /\ Handling(i, events)
          /\ \/ /\ Orphaned(i) \/ Broken(k) \/ k.end \/ kernel[f].input
                /\ Throw(i)
                /\ kernel' = [kernel EXCEPT ![f] = k]
                /\ UNCHANGED <<interest, outgoing, wire, written, ready>>
             \/ /\ ~Orphaned(i) /\ ~Broken(k) /\ ~k.end
                /\ Return
                /\ \/ /\ kernel[f].input /\ MaySend(i)
                      /\ SendBytes(i, NextByte(i), k)
                      /\ Written(i)
                   \/ /\ "out" \in events
                      /\ SendBytes(i, <<>>, k)
                      /\ UNCHANGED written
                   \/ /\ "out" \notin events
                      /\ kernel' = [kernel EXCEPT ![f] = k]
                      /\ UNCHANGED <<interest, outgoing, wire, written, ready>>
     /\ UNCHANGED <<container, premature>>

HandleOutput(i) ==
  LET k == kernel[descriptor[i]] IN
  /\ Connected(i)
  /\ Handling(i, {"out"})
  /\ IF Broken(k) /\ outgoing[i] # <<>>
     THEN /\ Throw(i)
          /\ UNCHANGED <<interest, outgoing, wire, written, kernel, ready>>
     ELSE /\ Return
          /\ SendBytes(i, <<>>, k)
          /\ UNCHANGED written
  /\ UNCHANGED <<container, premature>>

-----------------------------------------------------------------------------
(* The loop of handleListeningSocketEvents.                                *)

AcceptNothing ==
  /\ consumer = "accepting"
  /\ kernel[descriptor[current]].backlog = 0
  /\ FreeDescriptors # {}
  /\ Return
  /\ UNCHANGED <<container, interest, outgoing, wire, written, kernel, ready, batch, premature>>

\* accept4 takes a descriptor before it looks for a connection.
AcceptFails ==
  /\ consumer = "accepting"
  /\ FreeDescriptors = {} \/ "accept" \in Faults
  /\ Throw(current)
  /\ UNCHANGED <<container, interest, outgoing, wire, written, kernel, ready, batch, premature>>

OneLess(f) == [kernel EXCEPT ![f].backlog = @ - 1]

\* Faulty variant: one connection for each event.
AcceptOne ==
  /\ consumer = "accepting"
  /\ FreeDescriptors # {}
  /\ kernel[descriptor[current]].backlog > 0
  /\ LET k == Fresh("established") IN
       /\ kernel' = [OneLess(descriptor[current]) EXCEPT ![LowestFree] = k]
       /\ InsertSocket(sequencer, LowestFree, "accepted", current, k, {"in"})
  /\ sequencer' = sequencer + 1
  /\ stage' = [stage EXCEPT ![sequencer] = "open"]
  /\ Return
  /\ UNCHANGED <<outgoing, wire, written, batch, premature>>

Accept ==
  /\ consumer = "accepting"
  /\ FreeDescriptors # {}
  /\ kernel[descriptor[current]].backlog > 0
  /\ LET k == Fresh("established") IN
       /\ kernel' = [OneLess(descriptor[current]) EXCEPT ![LowestFree] = k]
       /\ InsertSocket(sequencer, LowestFree, "accepted", current, k, {"in"})
  /\ sequencer' = sequencer + 1
  /\ stage' = [stage EXCEPT ![sequencer] = "open"]
  /\ \/ UNCHANGED <<consumer, current>>
     \/ "callback" \in Faults /\ Throw(current)
  /\ UNCHANGED <<outgoing, wire, written, batch, premature>>

\* The accepted socket cannot be subscribed: it is taken out again, and the
\* exception closes the listening socket too.
InsertFails ==
  /\ consumer = "accepting"
  /\ "subscribe" \in Faults
  /\ FreeDescriptors # {}
  /\ kernel[descriptor[current]].backlog > 0
  /\ UndoInsert(sequencer, LowestFree, "accepted",
                [OneLess(descriptor[current]) EXCEPT ![LowestFree] = Fresh("established")])
  /\ sequencer' = sequencer + 1
  /\ stage' = [stage EXCEPT ![sequencer] = "failed"]
  /\ Throw(current)
  /\ UNCHANGED <<outgoing, wire, written, batch, premature>>

Erase ==
  /\ consumer = "erasing"
  /\ EraseSocket(current)
  /\ Return
  /\ UNCHANGED batch

Handler ==
  \/ EndBatch \/ StartTasks \/ SkipEvent
  \/ \E i \in Identifiers :
       \/ HandleError(i) \/ HandleListening(i) \/ HandleConnecting(i)
       \/ HandleInput(i) \/ HandleOutput(i)
  \/ AcceptNothing \/ AcceptFails \/ Accept \/ InsertFails \/ Erase

Next == Environment \/ Tasks \/ Wait \/ Handler

Spec == Init /\ [][Next]_vars

(* Fairness: the consumer thread runs, peers read what they are sent, and  *)
(* the kernel gives every attempt to connect an outcome.  Nobody need      *)
(* connect, send, answer or close anything.                                *)

Fairness ==
  /\ WF_vars(Wait \/ Handler \/ FinishTasks)
  /\ \A f \in Descriptors : /\ WF_vars(KernelStep(f) /\ PeerReads(f))
                             /\ WF_vars(KernelStep(f) /\ ConnectionSettles(f))

FairSpec == Spec /\ Fairness

-----------------------------------------------------------------------------
KernelStates ==
  [state : {"free", "listening", "connecting", "established", "failed", "reset"},
   backlog : 0 .. MaxBacklog, input : BOOLEAN, end : BOOLEAN, space : 0 .. MaxSpace]

BatchEvents == [descriptor : Descriptors \cup {NoDescriptor}, events : SUBSET {"in", "out", "err"}]

\* The values each variable may take.
TypeOK ==
  /\ sequencer \in 1 .. MaxSockets + 1
  /\ type \in [Identifiers -> {"none", "listening", "connecting", "connected", "accepted"}]
  /\ listening \in [Identifiers -> Identifiers \cup {NoIdentifier}]
  /\ descriptor \in [Identifiers -> Descriptors \cup {NoDescriptor}]
  /\ socketOf \in [Descriptors -> Identifiers \cup {NoIdentifier}]
  /\ interest \in [Descriptors -> SUBSET {"in", "out"}]
  /\ outgoing \in [Identifiers -> Seq(1 .. MaxBytes)]
  /\ wire \in [Identifiers -> Seq(1 .. MaxBytes)]
  /\ written \in [Identifiers -> 0 .. MaxBytes]
  /\ kernel \in [Descriptors -> KernelStates]
  /\ ready \subseteq Descriptors
  /\ batch \in Seq(BatchEvents)
  /\ consumer \in {"waiting", "handling", "tasks", "accepting", "erasing", "stopped"}
  /\ current \in Identifiers \cup {NoIdentifier}
  /\ stage \in [Identifiers -> {"new", "opening", "open", "closed", "lost", "failed"}]
  /\ premature \subseteq Identifiers
  /\ reused \subseteq Identifiers

\* The two maps, the event poll and the kernel agree after every handler,
\* the failed ones included: each socket has an open descriptor of its own
\* that leads back to it and is subscribed, and no other descriptor is open
\* or subscribed.
MapsAgree ==
  /\ \A i \in Identifiers : type[i] # "none" => socketOf[descriptor[i]] = i
  /\ \A f \in Descriptors :
       IF socketOf[f] = NoIdentifier
       THEN kernel[f] = Free /\ interest[f] = {} /\ f \notin ready
       ELSE /\ type[socketOf[f]] # "none"
            /\ descriptor[socketOf[f]] = f
            /\ kernel[f].state # "free"
            /\ interest[f] # {}

\* The bytes that a socket was asked to send are those that went to its peer
\* and then those in its buffer, in the order in which they were sent, with
\* none lost or repeated, in whatever pieces the kernel took them.
WireInOrder ==
  \A i \in Identifiers : wire[i] \o outgoing[i] = [n \in 1 .. written[i] |-> n]

\* When the thread waits, whatever is left to do on a socket has put it on
\* the ready list: an edge-triggered event is reported once, so that one
\* that was used up too early, or subscribed too late, would be lost.
NoEdgeLost ==
  consumer = "waiting" =>
    \A i \in Identifiers :
      LET k == kernel[descriptor[i]] IN
      (/\ type[i] # "none"
       /\ \/ k.backlog > 0 \/ k.input \/ k.end \/ Broken(k)
          \/ type[i] = "connecting" /\ k.state = "established"
          \/ outgoing[i] # <<>> /\ k.space > 0)
      => \/ descriptor[i] \in ready
         \/ type[i] = "connecting" /\ ~Broken(k) /\ k.state # "established"

\* clientOpen of a connecting socket says that it is connected, unless the
\* socket was given a descriptor for which the batch still had an event of
\* an earlier socket: then the event of the one is taken for the other's.
OpenMeansConnected == premature \subseteq reused

\* Users see the sockets of the container as SocketLifecycle says.
Lifecycle ==
  INSTANCE SocketLifecycle WITH acceptor <- listening

ImplementsLifecycle == Lifecycle!LifecycleSpec

Running == consumer # "stopped"

\* A peer that closes its end is noticed, and the socket erased.
PeerEndNoticed ==
  \A i \in Identifiers :
    (Connected(i) /\ kernel[descriptor[i]].end) ~> (type[i] = "none" \/ ~Running)

\* Every byte that a socket was asked to send goes to its peer, at once or
\* later, if the peer reads; one that is dropped on the way never does.
OutgoingDrained ==
  \A i \in Identifiers : \A n \in 1 .. MaxBytes :
    (Connected(i) /\ written[i] >= n) ~> (Len(wire[i]) >= n \/ type[i] = "none" \/ ~Running)

\* A client that waits is accepted, or the listening socket is closed.
ClientsAccepted ==
  \A i \in Identifiers :
    (type[i] = "listening" /\ kernel[descriptor[i]].backlog > 0)
      ~> (type[i] = "none" \/ ~Running \/ kernel[descriptor[i]].backlog = 0)
=============================================================================
