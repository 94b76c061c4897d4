----------------------- MODULE WindowsSocketContainer -----------------------
(***************************************************************************)
(* The sockets of the Windows back end (internal/windows): the socket      *)
(* container and what the operations do to it.  Everything here runs on    *)
(* the consumer thread, which takes one packet at a time from the          *)
(* completion port: an operation of the user, or an overlapped I/O that    *)
(* was completed.  What is executed, freed or posted again in which order  *)
(* is the matter of OperationScheduler; here a packet may come up whenever *)
(* the one before it was handled.                                          *)
(*                                                                         *)
(* A listening socket lives by a chain of accepts: each one is posted with *)
(* a socket of its own, that is pending until a client comes, and posts    *)
(* the next.  A connected socket lives by its receive, which is posted     *)
(* again after all bytes.                                                  *)
(***************************************************************************)
EXTENDS Naturals, FiniteSets

CONSTANTS
  MaxSockets,   \* bound: identifiers that are generated
  MaxBacklog,   \* bound: connections that wait to be accepted
  MaxOpens,     \* bound: sockets that users open
  MaxFailures,  \* maximumConsecutiveAcceptFailures
  Calls,        \* bound: what users call
  Faults        \* which errors occur

\* "open"      a socket cannot be created, or bound
\* "post"      an overlapped I/O is refused, for no fault of a client
\* "accept"    AcceptEx completes with an error, for no fault of a client
\* "client"    AcceptEx completes with the error of a client that went away
\* "reset"     AcceptEx is refused because a client went away
\* "context"   an option or the address of a connected socket fails
\* "callback"  a connection callback throws
\* "short"     a send completes with another number of bytes than it had
FaultKinds == {"open", "post", "accept", "client", "reset", "context", "callback", "short"}

CallKinds == {"listen", "connect", "send", "register", "close"}

ASSUME ContainerAssumption ==
  /\ MaxSockets \in Nat
  /\ MaxOpens \in Nat
  /\ Calls \subseteq CallKinds
  /\ MaxBacklog \in Nat
  /\ MaxFailures \in Nat \ {0}
  /\ Faults \subseteq FaultKinds

Identifiers == 1 .. MaxSockets
NoIdentifier == 0
Kinds == {"accept", "connect", "receive", "send"}

VARIABLES
  sequencer, \* the next identifier
  kind,      \* what each socket in sockets_ is, "none" if it is not there
  acceptor,  \* listeningSocketIdentifier
  failures,  \* consecutiveAcceptFailures
  io,        \* the overlapped I/O of each kind on each socket, or its result
  peer,      \* what Windows and the network know of each SOCKET
  backlog,   \* clients that wait
  consumer,  \* where the consumer thread is
  failure,   \* the operation that failed: the arguments of onFailure
  stage,     \* history: what the user was told of each socket
  row        \* history: accepts that failed in a row, for no fault of a client

vars == <<sequencer, kind, acceptor, failures, io, peer, backlog, consumer,
          failure, stage, row>>

NoFailure == [kind |-> "none", socket |-> NoIdentifier, code |-> "none", rescheduled |-> FALSE]

Init ==
  /\ sequencer = 1
  /\ kind = [i \in Identifiers |-> "none"]
  /\ acceptor = [i \in Identifiers |-> NoIdentifier]
  /\ failures = [i \in Identifiers |-> 0]
  /\ io = [k \in Kinds |-> [i \in Identifiers |-> "none"]]
  /\ peer = [i \in Identifiers |-> "none"]
  /\ backlog = [i \in Identifiers |-> 0]
  /\ consumer = "idle"
  /\ failure = NoFailure
  /\ stage = [i \in Identifiers |-> "new"]
  /\ row = [i \in Identifiers |-> 0]

-----------------------------------------------------------------------------
(* Windows and the network.                                                *)

\* The bound on identifiers: each client and each accept that was completed
\* may take two of them before the next accept is posted.
Completed(k) == {i \in Identifiers : io[k][i] \notin {"none", "posted"}}
WaitingClients == {w \in Identifiers \X (1 .. MaxBacklog) : w[2] <= backlog[w[1]]}
Reserved ==
  2 * Cardinality(WaitingClients)
  + 2 * Cardinality(Completed("accept"))
  + (IF consumer = "idle" THEN 0 ELSE 1)
IdentifiersLeft(n) == sequencer + Reserved + n <= MaxSockets + 1

ClientArrives(l) ==
  /\ peer[l] = "listening"
  /\ backlog[l] < MaxBacklog
  /\ IdentifiersLeft(2)
  /\ backlog' = [backlog EXCEPT ![l] = @ + 1]
  /\ UNCHANGED <<sequencer, kind, acceptor, failures, io, peer, consumer, failure, stage, row>>

PeerActs(i) ==
  /\ \/ peer[i] = "established" /\ peer' = [peer EXCEPT ![i] = "ended"]
     \/ peer[i] \in {"established", "ended"} /\ peer' = [peer EXCEPT ![i] = "reset"]
  /\ UNCHANGED <<sequencer, kind, acceptor, failures, io, backlog, consumer, failure, stage, row>>

\* The results that an I/O which was posted may have now, and what they do
\* to its SOCKET.
Results(k, i) ==
  CASE k = "accept" ->
         {r \in {"done", "client"} : /\ backlog[acceptor[i]] > 0
                                     /\ r = "done" \/ "client" \in Faults}
         \cup {r \in {"system"} : "accept" \in Faults /\ IdentifiersLeft(2)}
    [] k = "connect" -> {"done", "system"}
    [] k = "receive" ->
         CASE peer[i] = "established" -> {"done"}
           [] peer[i] = "ended" -> {"end"}
           [] OTHER -> {"client"}
    [] k = "send" -> IF peer[i] = "reset" THEN {"client"} ELSE {"done"}

CompleteIo(k, i) ==
  /\ io[k][i] = "posted"
  /\ \E result \in Results(k, i) :
       /\ io' = [io EXCEPT ![k][i] = result]
       /\ peer' = IF k \in {"accept", "connect"} /\ result = "done"
                  THEN [peer EXCEPT ![i] = "established"] ELSE peer
       /\ backlog' = IF k = "accept" /\ result \in {"done", "client"}
                     THEN [backlog EXCEPT ![acceptor[i]] = @ - 1] ELSE backlog
  /\ UNCHANGED <<sequencer, kind, acceptor, failures, consumer, failure, stage, row>>

\* What refuses an I/O on a connected SOCKET, and an AcceptEx.
PostErrors(i) ==
  {c \in {"client"} : peer[i] = "reset"} \cup {c \in {"system"} : "post" \in Faults}
AcceptErrors(l) ==
  {c \in {"client"} : "reset" \in Faults /\ backlog[l] > 0}
  \cup {c \in {"system"} : "post" \in Faults}
ClientLost(l, code) ==
  backlog' = IF code = "client" THEN [backlog EXCEPT ![l] = @ - 1] ELSE backlog

-----------------------------------------------------------------------------
(* The socket container.                                                   *)

\* closesocket: the I/O that is posted on the SOCKET is cancelled.
Cancelled(i, posted) ==
  [k \in Kinds |-> [j \in Identifiers |->
     IF posted[k][j] = "posted" /\ i = (IF k = "accept" THEN acceptor[j] ELSE j)
     THEN "aborted" ELSE posted[k][j]]]

Orphaned(i) == acceptor[i] # NoIdentifier /\ kind[acceptor[i]] = "none"

\* Faulty variant: a pending accept is told to the user as the others.
EraseSocketTellingPending(i, posted) ==
  /\ kind' = [kind EXCEPT ![i] = "none"]
  /\ stage' = IF kind[i] = "none" THEN stage
              ELSE [stage EXCEPT ![i] = IF Orphaned(i) THEN "lost" ELSE "closed"]
  /\ peer' = [peer EXCEPT ![i] = "none"]
  /\ backlog' = [backlog EXCEPT ![i] = 0]
  /\ io' = Cancelled(i, posted)

\* The user is told, unless the socket waits for a client or its listening
\* socket is gone; what the callback throws is logged.
EraseSocket(i, posted) ==
  /\ kind' = [kind EXCEPT ![i] = "none"]
  /\ stage' = IF kind[i] \in {"none", "pending"} THEN stage
              ELSE [stage EXCEPT ![i] = IF Orphaned(i) THEN "lost" ELSE "closed"]
  /\ peer' = [peer EXCEPT ![i] = "none"]
  /\ backlog' = [backlog EXCEPT ![i] = 0]
  /\ io' = Cancelled(i, posted)

\* AcceptSystemOperation::schedule: the next socket waits for a client of l.
Pending(l) ==
  /\ acceptor' = [acceptor EXCEPT ![sequencer] = l]
  /\ sequencer' = sequencer + 1

\* execute throws, or the packet has an error: onFailure is next.
Fail(k, i, code, rescheduled) ==
  /\ consumer' = "failing"
  /\ failure' = [kind |-> k, socket |-> i, code |-> code, rescheduled |-> rescheduled]

Return == consumer' = "idle" /\ failure' = NoFailure

ContinuesOr(fault, k, i, rescheduled) ==
  \/ UNCHANGED <<consumer, failure>>
  \/ fault \in Faults /\ Fail(k, i, "none", rescheduled)

Idle == consumer = "idle"

-----------------------------------------------------------------------------
(* The operations of users.                                                *)

Opens(call, n) ==
  /\ consumer = "idle"
  /\ call \in Calls
  /\ IdentifiersLeft(n)
  /\ Cardinality({i \in Identifiers : stage[i] # "new" /\ acceptor[i] = NoIdentifier}) < MaxOpens

\* Listen or connect before the socket is in the container: the operation
\* fails, its socket is not found, and the user is not told.
OpenFails ==
  /\ \E call \in {"listen", "connect"} : Opens(call, 1)
  /\ "open" \in Faults
  /\ sequencer' = sequencer + 1
  /\ stage' = [stage EXCEPT ![sequencer] = "failed"]
  /\ UNCHANGED <<kind, acceptor, failures, io, peer, backlog, consumer, failure, row>>

\* The first accept is posted before the user is told.
Listen ==
  /\ Opens("listen", 2)
  /\ LET l == sequencer
         n == sequencer + 1
     IN /\ sequencer' = sequencer + 2
        /\ kind' = [kind EXCEPT ![l] = "listening", ![n] = "pending"]
        /\ acceptor' = [acceptor EXCEPT ![n] = l]
        /\ io' = [io EXCEPT !["accept"][n] = "posted"]
        /\ peer' = [peer EXCEPT ![l] = "listening", ![n] = "fresh"]
        /\ stage' = [stage EXCEPT ![l] = "open"]
  /\ UNCHANGED <<failures, backlog, consumer, failure, row>>

\* The accept cannot be posted: the socket is erased, which the user is told.
ListenRefused ==
  /\ Opens("listen", 2)
  /\ "post" \in Faults
  /\ sequencer' = sequencer + 2
  /\ stage' = [stage EXCEPT ![sequencer] = "closed"]
  /\ UNCHANGED <<kind, acceptor, failures, io, peer, backlog, consumer, failure, row>>

\* The callback throws: the socket is erased, and its first accept cancelled.
ListenThrows ==
  /\ Opens("listen", 2)
  /\ "callback" \in Faults
  /\ LET n == sequencer + 1
     IN /\ sequencer' = sequencer + 2
        /\ kind' = [kind EXCEPT ![n] = "pending"]
        /\ acceptor' = [acceptor EXCEPT ![n] = sequencer]
        /\ io' = [io EXCEPT !["accept"][n] = "aborted"]
        /\ peer' = [peer EXCEPT ![n] = "fresh"]
        /\ stage' = [stage EXCEPT ![sequencer] = "closed"]
  /\ UNCHANGED <<failures, backlog, consumer, failure, row>>

Connect ==
  /\ Opens("connect", 1)
  /\ sequencer' = sequencer + 1
  /\ kind' = [kind EXCEPT ![sequencer] = "client"]
  /\ io' = [io EXCEPT !["connect"][sequencer] = "posted"]
  /\ peer' = [peer EXCEPT ![sequencer] = "connecting"]
  /\ stage' = [stage EXCEPT ![sequencer] = "opening"]
  /\ UNCHANGED <<acceptor, failures, backlog, consumer, failure, row>>

ConnectRefused ==
  /\ Opens("connect", 1)
  /\ "post" \in Faults
  /\ sequencer' = sequencer + 1
  /\ stage' = [stage EXCEPT ![sequencer] = "closed"]
  /\ UNCHANGED <<kind, acceptor, failures, io, peer, backlog, consumer, failure, row>>

\* Sockets that users know of.
Known(i) == kind[i] \in {"listening", "client", "accepted"}

\* What refuses a send: the connection is not there, or never will be.
SendErrors(i) ==
  PostErrors(i) \cup {c \in {"client"} : peer[i] = "connecting"}
                \cup {c \in {"none"} : kind[i] = "listening"}

\* sendBytes or sendRequest, with the bound of one send at a time.
Send(i) ==
  /\ Idle
  /\ "send" \in Calls
  /\ Known(i)
  /\ \/ /\ peer[i] \in {"established", "ended", "reset"}
        /\ io["send"][i] = "none"
        /\ io' = [io EXCEPT !["send"][i] = "posted"]
        /\ UNCHANGED <<consumer, failure>>
     \/ /\ \E code \in SendErrors(i) : Fail("send", i, code, FALSE)
        /\ UNCHANGED io
  /\ UNCHANGED <<sequencer, kind, acceptor, failures, peer, backlog, stage, row>>

\* A consumer or callback that is registered already: the operation fails,
\* and takes the socket with it.
RegisterThrows(i) ==
  /\ Idle
  /\ "register" \in Calls
  /\ Known(i)
  /\ Fail("register", i, "none", FALSE)
  /\ UNCHANGED <<sequencer, kind, acceptor, failures, io, peer, backlog, stage, row>>

Close(i) ==
  /\ Idle
  /\ "close" \in Calls
  /\ Known(i)
  /\ EraseSocket(i, io)
  /\ UNCHANGED <<sequencer, acceptor, failures, consumer, failure, row>>

\* The abort packet: all sockets go, what was posted is drained, and no user
\* is told anything more.
Abort ==
  /\ Idle
  /\ consumer' = "stopped"
  /\ kind' = [i \in Identifiers |-> "none"]
  /\ peer' = [i \in Identifiers |-> "none"]
  /\ backlog' = [i \in Identifiers |-> 0]
  /\ io' = [k \in Kinds |-> [i \in Identifiers |-> "none"]]
  /\ UNCHANGED <<sequencer, acceptor, failures, failure, stage, row>>

UserOperation ==
  \/ OpenFails \/ Listen \/ ListenRefused \/ ListenThrows \/ Connect \/ ConnectRefused \/ Abort
  \/ \E i \in Identifiers : Send(i) \/ RegisterThrows(i) \/ Close(i)

-----------------------------------------------------------------------------
(* Packets of I/O that was completed.                                      *)

\* handleFailedOperation.
PacketFailed(k, i) ==
  /\ Idle
  /\ io[k][i] \in {"client", "system", "aborted"}
  /\ io' = [io EXCEPT ![k][i] = "none"]
  /\ Fail(k, i, io[k][i], FALSE)
  /\ UNCHANGED <<sequencer, kind, acceptor, failures, peer, backlog, stage, row>>

\* getSocketOrThrow, for the socket of the operation or the listening one.
SocketNotFound(k, i) ==
  /\ Idle
  /\ k # "send"
  /\ io[k][i] = "done"
  /\ kind[i] = "none" \/ Orphaned(i)
  /\ io' = [io EXCEPT ![k][i] = "none"]
  /\ Fail(k, i, "none", FALSE)
  /\ UNCHANGED <<sequencer, kind, acceptor, failures, peer, backlog, stage, row>>

\* A client came, and its socket is ready for it.
Accepting(i) ==
  /\ Idle
  /\ io["accept"][i] = "done"
  /\ kind[i] # "none"
  /\ ~Orphaned(i)

AcceptThrows(i) ==
  /\ Accepting(i)
  /\ "context" \in Faults
  /\ io' = [io EXCEPT !["accept"][i] = "none"]
  /\ Fail("accept", i, "none", FALSE)
  /\ UNCHANGED <<sequencer, kind, acceptor, failures, peer, backlog, stage, row>>

Succeeds(l) ==
  /\ failures' = [failures EXCEPT ![l] = 0]
  /\ row' = [row EXCEPT ![l] = 0]

\* The next accept cannot be posted: its identifier is used up.
AcceptNotRescheduled(i) ==
  /\ Accepting(i)
  /\ Succeeds(acceptor[i])
  /\ sequencer' = sequencer + 1
  /\ io' = [io EXCEPT !["accept"][i] = "none"]
  /\ \E code \in AcceptErrors(acceptor[i]) :
       Fail("accept", i, code, FALSE) /\ ClientLost(acceptor[i], code)
  /\ UNCHANGED <<kind, acceptor, peer, stage>>

\* The next accept is posted, the receive of the accepted socket is not.
AcceptWithoutReceive(i) ==
  /\ Accepting(i)
  /\ Succeeds(acceptor[i])
  /\ Pending(acceptor[i])
  /\ kind' = [kind EXCEPT ![sequencer] = "pending"]
  /\ io' = [io EXCEPT !["accept"][i] = "none", !["accept"][sequencer] = "posted"]
  /\ peer' = [peer EXCEPT ![sequencer] = "fresh"]
  /\ \E code \in PostErrors(i) : Fail("accept", i, code, TRUE)
  /\ UNCHANGED <<backlog, stage>>

\* Faulty variants: the receive is not posted; what the callback throws
\* makes the accept be posted once more.
AcceptUnread(i) ==
  /\ Accepting(i)
  /\ Succeeds(acceptor[i])
  /\ Pending(acceptor[i])
  /\ kind' = [kind EXCEPT ![i] = "accepted", ![sequencer] = "pending"]
  /\ io' = [io EXCEPT !["accept"][i] = "none", !["accept"][sequencer] = "posted"]
  /\ peer' = [peer EXCEPT ![sequencer] = "fresh"]
  /\ stage' = [stage EXCEPT ![i] = "open"]
  /\ ContinuesOr("callback", "accept", i, TRUE)
  /\ UNCHANGED backlog

AcceptTwice(i) ==
  /\ Accepting(i)
  /\ Succeeds(acceptor[i])
  /\ Pending(acceptor[i])
  /\ kind' = [kind EXCEPT ![i] = "accepted", ![sequencer] = "pending"]
  /\ io' = [io EXCEPT !["accept"][i] = "none", !["accept"][sequencer] = "posted",
                      !["receive"][i] = "posted"]
  /\ peer' = [peer EXCEPT ![sequencer] = "fresh"]
  /\ stage' = [stage EXCEPT ![i] = "open"]
  /\ ContinuesOr("callback", "accept", i, FALSE)
  /\ UNCHANGED backlog

Accept(i) ==
  /\ Accepting(i)
  /\ Succeeds(acceptor[i])
  /\ Pending(acceptor[i])
  /\ kind' = [kind EXCEPT ![i] = "accepted", ![sequencer] = "pending"]
  /\ io' = [io EXCEPT !["accept"][i] = "none", !["accept"][sequencer] = "posted",
                      !["receive"][i] = "posted"]
  /\ peer' = [peer EXCEPT ![sequencer] = "fresh"]
  /\ stage' = [stage EXCEPT ![i] = "open"]
  /\ ContinuesOr("callback", "accept", i, TRUE)
  /\ UNCHANGED backlog

\* The user is told that the socket is connected before its receive is posted.
Connected(i) ==
  /\ Idle
  /\ io["connect"][i] = "done"
  /\ kind[i] # "none"
  /\ \/ /\ "context" \in Faults
        /\ Fail("connect", i, "none", FALSE)
        /\ io' = [io EXCEPT !["connect"][i] = "none"]
        /\ UNCHANGED stage
     \/ /\ stage' = [stage EXCEPT ![i] = "open"]
        /\ \/ /\ io' = [io EXCEPT !["connect"][i] = "none", !["receive"][i] = "posted"]
              /\ UNCHANGED <<consumer, failure>>
           \/ /\ io' = [io EXCEPT !["connect"][i] = "none"]
              /\ \E code \in PostErrors(i) \cup {c \in {"none"} : "callback" \in Faults} :
                   Fail("connect", i, code, FALSE)
  /\ UNCHANGED <<sequencer, kind, acceptor, failures, peer, backlog, row>>

\* Bytes: the protocols are read, which may throw, and answered; the same
\* operation is posted again.
Receive(i) ==
  /\ Idle
  /\ io["receive"][i] = "done"
  /\ kind[i] # "none"
  /\ ~Orphaned(i)
  /\ \E answers \in BOOLEAN :
       /\ answers => io["send"][i] = "none"
       /\ LET sent == IF answers THEN [io EXCEPT !["send"][i] = "posted"] ELSE io IN
            \/ /\ io' = [sent EXCEPT !["receive"][i] = "posted"]
               /\ UNCHANGED <<consumer, failure>>
            \/ /\ io' = [sent EXCEPT !["receive"][i] = "none"]
               /\ \E code \in PostErrors(i) : Fail("receive", i, code, FALSE)
            \/ /\ io' = [io EXCEPT !["receive"][i] = "none"]
               /\ \E code \in PostErrors(i) \cup {"none"} : Fail("receive", i, code, FALSE)
  /\ UNCHANGED <<sequencer, kind, acceptor, failures, peer, backlog, stage, row>>

\* The end of the stream.
PeerEnded(i) ==
  /\ Idle
  /\ io["receive"][i] = "end"
  /\ EraseSocket(i, [io EXCEPT !["receive"][i] = "none"])
  /\ UNCHANGED <<sequencer, acceptor, failures, consumer, failure, row>>

\* All bytes were sent, or the operation throws and takes the socket with it.
Sent(i) ==
  /\ Idle
  /\ io["send"][i] = "done"
  /\ io' = [io EXCEPT !["send"][i] = "none"]
  /\ ContinuesOr("short", "send", i, FALSE)
  /\ UNCHANGED <<sequencer, kind, acceptor, failures, peer, backlog, stage, row>>

-----------------------------------------------------------------------------
(* onFailure.                                                              *)

\* Faulty variant: only what clients cause is tried again.
RetriesForClients ==
  /\ failure.kind = "accept"
  /\ failure.code = "client"
  /\ ~failure.rescheduled
  /\ kind[acceptor[failure.socket]] # "none"

\* The listening socket is there, and has no accept.
Retries ==
  /\ failure.kind = "accept"
  /\ ~failure.rescheduled
  /\ kind[acceptor[failure.socket]] # "none"

\* isClientError.
ClientError == failure.code = "client"

\* IOperation::onFailure, and how an accept goes on from there.
OnFailure ==
  /\ consumer = "failing"
  /\ EraseSocket(failure.socket, io)
  /\ IF Retries
     THEN /\ consumer' = "retrying"
          /\ row' = IF ClientError THEN row
                    ELSE [row EXCEPT ![acceptor[failure.socket]] = @ + 1]
          /\ UNCHANGED failure
     ELSE /\ Return
          /\ UNCHANGED row
  /\ UNCHANGED <<sequencer, acceptor, failures>>

\* Faulty variant: failures that clients cause are counted as well.
CountedAll(l) == failures[l] + 1
Counted(l) == failures[l] + (IF ClientError THEN 0 ELSE 1)

\* Faulty variant: one failure more than the limit.
LimitExceeded == Counted(acceptor[failure.socket]) > MaxFailures

Limit == Counted(acceptor[failure.socket]) >= MaxFailures

\* The listening socket goes, and its count with it.
GiveUp ==
  /\ consumer = "retrying"
  /\ Limit
  /\ EraseSocket(acceptor[failure.socket], io)
  /\ Return
  /\ UNCHANGED <<sequencer, acceptor, failures, row>>

RetryAccept ==
  LET l == acceptor[failure.socket] IN
  /\ consumer = "retrying"
  /\ ~Limit
  /\ Pending(l)
  /\ kind' = [kind EXCEPT ![sequencer] = "pending"]
  /\ io' = [io EXCEPT !["accept"][sequencer] = "posted"]
  /\ peer' = [peer EXCEPT ![sequencer] = "fresh"]
  /\ failures' = [failures EXCEPT ![l] = Counted(l)]
  /\ Return
  /\ UNCHANGED <<backlog, stage, row>>

\* The accept cannot be posted again: the listening socket is erased, so
\* that the user gets to know.
RetryFails ==
  LET l == acceptor[failure.socket] IN
  /\ consumer = "retrying"
  /\ ~Limit
  /\ AcceptErrors(l) # {}
  /\ EraseSocket(l, io)
  /\ sequencer' = sequencer + 1
  /\ failures' = [failures EXCEPT ![l] = Counted(l)]
  /\ Return
  /\ UNCHANGED <<acceptor, row>>

-----------------------------------------------------------------------------
Packet(k, i) == PacketFailed(k, i) \/ SocketNotFound(k, i)
AcceptPacket(i) ==
  \/ Packet("accept", i) \/ AcceptThrows(i) \/ AcceptNotRescheduled(i)
  \/ AcceptWithoutReceive(i) \/ Accept(i)
ConnectPacket(i) == Packet("connect", i) \/ Connected(i)
ReceivePacket(i) == Packet("receive", i) \/ Receive(i) \/ PeerEnded(i)
SendPacket(i) == PacketFailed("send", i) \/ Sent(i)
Failing == OnFailure \/ GiveUp \/ RetryAccept \/ RetryFails

Next ==
  \/ UserOperation \/ Failing
  \/ \E i \in Identifiers :
       \/ ClientArrives(i) \/ PeerActs(i)
       \/ \E k \in Kinds : CompleteIo(k, i)
       \/ AcceptPacket(i) \/ ConnectPacket(i) \/ ReceivePacket(i) \/ SendPacket(i)

Spec == Init /\ [][Next]_vars

(* Fairness: the consumer thread runs and takes every packet of the port   *)
(* in its turn; Windows completes an accept or a receive that it can       *)
(* complete.  Nobody need connect, answer or close anything.  A socket has *)
(* one of its accept, connect and receive at a time.                       *)
Fairness ==
  /\ WF_vars(Failing)
  /\ \A i \in Identifiers :
       /\ WF_vars(AcceptPacket(i) \/ ConnectPacket(i) \/ ReceivePacket(i))
       /\ WF_vars(CompleteIo("accept", i) \/ CompleteIo("receive", i))

FairSpec == Spec /\ Fairness

-----------------------------------------------------------------------------
IoMaps == [Kinds -> [Identifiers ->
             {"none", "posted", "done", "end", "client", "system", "aborted"}]]
Failures == [kind : Kinds \cup {"register", "none"},
             socket : Identifiers \cup {NoIdentifier},
             code : {"none", "client", "system", "aborted"}, rescheduled : BOOLEAN]

\* The values each variable may take.
TypeOK ==
  /\ sequencer \in 1 .. MaxSockets + 1
  /\ kind \in [Identifiers -> {"none", "listening", "client", "pending", "accepted"}]
  /\ acceptor \in [Identifiers -> Identifiers \cup {NoIdentifier}]
  /\ failures \in [Identifiers -> 0 .. MaxFailures - 1]
  /\ io \in IoMaps
  /\ peer \in [Identifiers -> {"none", "listening", "fresh", "connecting", "established",
                               "ended", "reset"}]
  /\ backlog \in [Identifiers -> 0 .. MaxBacklog]
  /\ consumer \in {"idle", "failing", "retrying", "stopped"}
  /\ failure \in Failures
  /\ stage \in [Identifiers -> {"new", "opening", "open", "closed", "lost", "failed"}]
  /\ row \in [Identifiers -> Nat]

\* Between two packets every socket has the I/O it lives by, in flight or in
\* the port, whatever failed before: a listening socket exactly one accept,
\* a pending one the accept it is for, one that connects its connect, and a
\* connected one its receive.
EverySocketServed ==
  consumer = "idle" =>
    \A i \in Identifiers :
      /\ kind[i] = "listening" =>
           \E n \in Identifiers :
             {j \in Identifiers : acceptor[j] = i /\ io["accept"][j] # "none"} = {n}
      /\ kind[i] = "pending" => io["accept"][i] # "none"
      /\ kind[i] = "client" =>
           IF stage[i] = "opening"
           THEN io["connect"][i] # "none" /\ io["receive"][i] = "none"
           ELSE io["connect"][i] = "none" /\ io["receive"][i] # "none"
      /\ kind[i] = "accepted" => io["receive"][i] # "none"

\* A listening socket does not spin, and does not give up early: it goes on
\* only while fewer accepts than the limit failed in a row, not counting those
\* that clients cause, and an accept that failed ends it only at the limit, or
\* when another accept was tried and could not be posted.
AcceptsEndAtLimit ==
  [][\A l \in Identifiers :
       kind[l] = "listening" =>
         /\ kind'[l] = "listening" /\ consumer' = "idle" => row'[l] < MaxFailures
         /\ consumer = "retrying" /\ kind'[l] = "none" =>
              row[l] >= MaxFailures \/ sequencer' = sequencer + 1]_vars

\* Clients that go away before they are accepted do not close the listening
\* socket, however they do it: an accept that failed ends it only when some
\* failure was no fault of a client.
ClientsCannotClose ==
  [][\A l \in Identifiers :
       (consumer = "retrying" /\ kind[l] = "listening" /\ kind'[l] = "none")
         => row[l] > 0]_vars

\* Users see the sockets of the container as SocketLifecycle says: nothing
\* of a pending one, and nothing of an accepted one whose listening socket
\* is gone.
Lifecycle ==
  INSTANCE SocketLifecycle WITH
    acceptor <- [i \in Identifiers |-> IF stage[i] = "new" THEN NoIdentifier ELSE acceptor[i]]

ImplementsLifecycle == Lifecycle!LifecycleSpec

Running == consumer # "stopped"

\* A client that waits is accepted, or the listening socket is closed.
ClientsAccepted ==
  \A l \in Identifiers :
    (kind[l] = "listening" /\ backlog[l] > 0)
      ~> (kind[l] = "none" \/ ~Running \/ backlog[l] = 0)

\* A peer that ends or resets its connection is noticed, and the socket erased.
PeerEndNoticed ==
  \A i \in Identifiers :
    (kind[i] \in {"client", "accepted"} /\ peer[i] \in {"ended", "reset"})
      ~> (kind[i] = "none" \/ ~Running)
=============================================================================
