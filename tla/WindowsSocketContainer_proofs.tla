-------------------- MODULE WindowsSocketContainer_proofs --------------------
(***************************************************************************)
(* Proofs about WindowsSocketContainer, for any number of sockets, clients *)
(* that wait and failures in a row, any calls of users and any errors.     *)
(***************************************************************************)
EXTENDS WindowsSocketContainer, FiniteSetTheorems, TLAPS

-----------------------------------------------------------------------------
(* The inductive invariant.                                                *)

\* Identifiers that the sequencer has not given out are nobody's.
Blank(i) ==
  /\ kind[i] = "none" /\ acceptor[i] = NoIdentifier /\ peer[i] = "none" /\ stage[i] = "new"
  /\ backlog[i] = 0 /\ failures[i] = 0 /\ row[i] = 0
  /\ \A k \in Kinds : io[k][i] = "none"
NotGenerated ==
  \A i \in Identifiers : i >= sequencer =>
    /\ Blank(i)
    /\ \A j \in Identifiers : acceptor[j] # i
    /\ failure.socket # i

\* listeningSocketIdentifier is that of a listening socket, as long as it is
\* there, for the sockets that wait for a client or were accepted, and only
\* for those.
AcceptorListens(i) ==
  /\ kind[i] \in {"pending", "accepted"} => acceptor[i] # NoIdentifier
  /\ kind[i] \in {"listening", "client"} => acceptor[i] = NoIdentifier
  /\ acceptor[i] # NoIdentifier =>
       acceptor[acceptor[i]] = NoIdentifier /\ kind[acceptor[i]] \in {"none", "listening"}

\* Windows knows the sockets of the container, and an accept or a connect is
\* pending only on a socket that waits for it.
SocketMatches(i) ==
  /\ kind[i] = "none" => peer[i] = "none"
  /\ kind[i] = "listening" <=> peer[i] = "listening"
  /\ backlog[i] > 0 => kind[i] = "listening"
  /\ io["accept"][i] # "none" => acceptor[i] # NoIdentifier /\ kind[i] \in {"none", "pending"}
  /\ io["accept"][i] = "posted" => kind[i] = "pending" /\ kind[acceptor[i]] = "listening"
  /\ io["connect"][i] # "none" => kind[i] \in {"none", "client"} /\ acceptor[i] = NoIdentifier
  /\ io["connect"][i] = "posted" => kind[i] = "client"
  /\ kind[i] = "pending" => io["receive"][i] = "none" /\ io["send"][i] = "none"

SocketsMatch == \A i \in Identifiers : AcceptorListens(i) /\ SocketMatches(i)

\* onFailure is for a socket that was given out and has no accept posted, and
\* tries again only for a listening socket that is there.
Position ==
  /\ consumer \in {"failing", "retrying"} => failure.socket \in Identifiers
  /\ consumer = "failing" => io["accept"][failure.socket] # "posted"
  /\ consumer \in {"failing", "retrying"} /\ failure.kind = "accept" =>
       acceptor[failure.socket] # NoIdentifier
  /\ consumer = "retrying" =>
       /\ failure.kind = "accept" /\ ~failure.rescheduled
       /\ kind[acceptor[failure.socket]] = "listening"
  /\ consumer = "stopped" => \A i \in Identifiers : kind[i] = "none"

\* The listening socket whose accept failed, until the next one is posted.
Unserved ==
  IF \/ consumer = "retrying"
     \/ consumer = "failing" /\ failure.kind = "accept" /\ ~failure.rescheduled
  THEN acceptor[failure.socket] ELSE NoIdentifier

\* The socket that onFailure is about to erase.
Erasing == IF consumer = "failing" THEN failure.socket ELSE NoIdentifier

\* A listening socket has one accept, or is the one that is unserved.
InFlight(l) == {j \in Identifiers : acceptor[j] = l /\ io["accept"][j] # "none"}
ListenersServed ==
  \A l \in Identifiers : kind[l] = "listening" =>
    IF l = Unserved THEN InFlight(l) = {} ELSE \E n \in Identifiers : InFlight(l) = {n}

\* The other sockets have what they live by, unless they are about to go.
ConnectionServed(i) ==
  /\ kind[i] = "pending" => io["accept"][i] # "none"
  /\ kind[i] = "client" =>
       IF stage[i] = "opening"
       THEN io["connect"][i] # "none" /\ io["receive"][i] = "none"
       ELSE io["connect"][i] = "none" /\ io["receive"][i] # "none"
  /\ kind[i] = "accepted" => io["receive"][i] # "none"
ConnectionsServed == \A i \in Identifiers : i # Erasing => ConnectionServed(i)

\* consecutiveAcceptFailures counts the accepts that failed in a row, the
\* last of them once it is tried again.
Uncounted(l) ==
  IF consumer = "retrying" /\ acceptor[failure.socket] = l /\ ~ClientError THEN 1 ELSE 0
FailuresCounted ==
  \A l \in Identifiers : kind[l] = "listening" => row[l] = failures[l] + Uncounted(l)

\* What users were told of the sockets of the container, and of those that
\* have left it.
StageMatches(i) ==
  /\ kind[i] = "none" => stage[i] \notin {"opening", "open"}
  /\ kind[i] = "pending" => stage[i] = "new"
  /\ kind[i] = "client" => stage[i] \in {"opening", "open"}
  /\ kind[i] \in {"listening", "accepted"} => stage[i] = "open"
StagesMatch == consumer # "stopped" => \A i \in Identifiers : StageMatches(i)

\* Each client that waits, and each accept that was completed for a listening
\* socket that is there, may take two identifiers, and the retry one: there
\* are as many left.
LiveAccepts == {i \in Completed("accept") : kind[acceptor[i]] = "listening"}
Committed ==
  2 * Cardinality(WaitingClients) + 2 * Cardinality(LiveAccepts)
  + (IF Unserved # NoIdentifier /\ kind[Unserved] = "listening" THEN 1 ELSE 0)
IdentifiersSuffice == sequencer + Committed <= MaxSockets + 1

Structure ==
  /\ TypeOK
  /\ NotGenerated
  /\ SocketsMatch
  /\ Position
  /\ ListenersServed
  /\ ConnectionsServed
  /\ FailuresCounted
  /\ StagesMatch
  /\ IdentifiersSuffice

-----------------------------------------------------------------------------
(* Identifiers that are left.                                              *)

\* What the identifiers are set aside for is finitely much.
LEMMA CountsAreNaturals ==
  ASSUME TypeOK
  PROVE  /\ IsFiniteSet(WaitingClients) /\ Cardinality(WaitingClients) \in Nat
         /\ IsFiniteSet(Completed("accept")) /\ Cardinality(Completed("accept")) \in Nat
         /\ IsFiniteSet(LiveAccepts) /\ Cardinality(LiveAccepts) \in Nat
         /\ Cardinality(LiveAccepts) <= Cardinality(Completed("accept"))
         /\ sequencer \in Nat /\ MaxSockets \in Nat
<1>1. IsFiniteSet(Identifiers) /\ IsFiniteSet(1 .. MaxBacklog)
  BY FS_Interval, ContainerAssumption DEF Identifiers
<1>2. IsFiniteSet(Identifiers \X (1 .. MaxBacklog))
  BY <1>1, FS_Product
<1>3. /\ WaitingClients \subseteq Identifiers \X (1 .. MaxBacklog)
      /\ Completed("accept") \subseteq Identifiers
      /\ LiveAccepts \subseteq Completed("accept")
  BY DEF WaitingClients, Completed, LiveAccepts
<1>4. IsFiniteSet(WaitingClients) /\ IsFiniteSet(Completed("accept"))
  BY <1>1, <1>2, <1>3, FS_Subset
<1>5. IsFiniteSet(LiveAccepts) /\ Cardinality(LiveAccepts) <= Cardinality(Completed("accept"))
  BY <1>3, <1>4, FS_Subset
<1>6. sequencer \in Nat /\ MaxSockets \in Nat
  BY ContainerAssumption DEF TypeOK
<1> QED BY <1>4, <1>5, <1>6, FS_CardinalityType

\* More is reserved than can be needed.
LEMMA EnoughReserved ==
  ASSUME TypeOK, NEW n \in Nat, IdentifiersLeft(n)
  PROVE  /\ sequencer + n <= MaxSockets + 1
         /\ sequencer + Committed + n <= MaxSockets + 1
<1> DEFINE w == Cardinality(WaitingClients)
           c == Cardinality(Completed("accept"))
           a == Cardinality(LiveAccepts)
<1>1. w \in Nat /\ c \in Nat /\ a \in Nat /\ a <= c /\ sequencer \in Nat /\ MaxSockets \in Nat
  BY CountsAreNaturals
<1>2. sequencer + (2 * w + 2 * c + (IF consumer = "idle" THEN 0 ELSE 1)) + n <= MaxSockets + 1
  BY DEF IdentifiersLeft, Reserved
<1>3. consumer = "idle" => Unserved = NoIdentifier
  BY DEF Unserved
<1>4. Committed = 2 * w + 2 * a
                  + (IF Unserved # NoIdentifier /\ kind[Unserved] = "listening" THEN 1 ELSE 0)
  BY DEF Committed
<1> HIDE DEF w, c, a
<1>5. (IF Unserved # NoIdentifier /\ kind[Unserved] = "listening" THEN 1 ELSE 0)
        <= (IF consumer = "idle" THEN 0 ELSE 1)
  BY <1>3
<1> QED BY <1>1, <1>2, <1>4, <1>5

\* A user opens a socket while there are identifiers for it.
LEMMA OpensHasIdentifiers ==
  ASSUME Structure, NEW call, NEW n \in Nat, Opens(call, n)
  PROVE  sequencer + n <= MaxSockets + 1
BY EnoughReserved DEF Opens, Structure

\* A client that was accepted can have the next socket wait for another.
LEMMA AcceptingHasIdentifiers ==
  ASSUME Structure, NEW i \in Identifiers, Accepting(i)
  PROVE  /\ i \in LiveAccepts
         /\ acceptor[i] \in Identifiers /\ kind[acceptor[i]] = "listening"
         /\ sequencer \in Identifiers
<1>1. TypeOK /\ SocketsMatch /\ IdentifiersSuffice
  BY DEF Structure
<1>2. acceptor[i] \in Identifiers /\ kind[acceptor[i]] = "listening"
  BY <1>1 DEF Accepting, Orphaned, SocketsMatch, AcceptorListens, SocketMatches, TypeOK
<1>3. i \in LiveAccepts
  BY <1>2 DEF LiveAccepts, Completed, Accepting
<1> DEFINE a == Cardinality(LiveAccepts)
           w == Cardinality(WaitingClients)
<1>4. a \in Nat /\ w \in Nat /\ sequencer \in Nat /\ MaxSockets \in Nat /\ IsFiniteSet(LiveAccepts)
  BY <1>1, CountsAreNaturals
<1>5. a # 0
  BY <1>3, <1>4, FS_EmptySet
<1>6. sequencer + (2 * w + 2 * a + (IF Unserved # NoIdentifier /\ kind[Unserved] = "listening" THEN 1 ELSE 0))
        <= MaxSockets + 1
  BY <1>1 DEF IdentifiersSuffice, Committed
<1> HIDE DEF a, w
<1>7. sequencer <= MaxSockets
  BY <1>4, <1>5, <1>6
<1> QED BY <1>1, <1>2, <1>3, <1>7, ContainerAssumption DEF TypeOK, Identifiers

\* An accept that is tried again can have an identifier.
LEMMA RetryingHasIdentifier ==
  ASSUME Structure, consumer = "retrying"
  PROVE  /\ failure.socket \in Identifiers
         /\ acceptor[failure.socket] \in Identifiers
         /\ kind[acceptor[failure.socket]] = "listening"
         /\ sequencer \in Identifiers
<1>1. TypeOK /\ Position /\ IdentifiersSuffice
  BY DEF Structure
<1>2. /\ failure.socket \in Identifiers /\ acceptor[failure.socket] \in Identifiers
      /\ kind[acceptor[failure.socket]] = "listening"
  BY <1>1 DEF Position, TypeOK, Failures
<1>3. Unserved # NoIdentifier /\ kind[Unserved] = "listening"
  BY <1>2, ContainerAssumption DEF Unserved, Identifiers, NoIdentifier
<1> DEFINE a == Cardinality(LiveAccepts)
           w == Cardinality(WaitingClients)
<1>4. a \in Nat /\ w \in Nat /\ sequencer \in Nat /\ MaxSockets \in Nat
  BY <1>1, CountsAreNaturals
<1>5. sequencer + (2 * w + 2 * a + 1) <= MaxSockets + 1
  BY <1>1, <1>3 DEF IdentifiersSuffice, Committed
<1> HIDE DEF a, w
<1>6. sequencer <= MaxSockets
  BY <1>4, <1>5
<1> QED BY <1>1, <1>2, <1>6, ContainerAssumption DEF TypeOK, Identifiers

-----------------------------------------------------------------------------
(* Types.                                                                  *)

\* closesocket changes what is posted into what is aborted.
LEMMA CancelledType ==
  ASSUME TypeOK, NEW i \in Identifiers,
         NEW posted \in IoMaps
  PROVE  Cancelled(i, posted) \in IoMaps
BY DEF Cancelled, IoMaps

\* eraseSocket keeps every variable that it changes in its type.
LEMMA EraseType ==
  ASSUME TypeOK, NEW i \in Identifiers,
         NEW posted \in IoMaps,
         EraseSocket(i, posted)
  PROVE  /\ kind' \in [Identifiers -> {"none", "listening", "client", "pending", "accepted"}]
         /\ stage' \in [Identifiers -> {"new", "opening", "open", "closed", "lost", "failed"}]
         /\ peer' \in [Identifiers -> {"none", "listening", "fresh", "connecting", "established",
                                       "ended", "reset"}]
         /\ backlog' \in [Identifiers -> 0 .. MaxBacklog]
         /\ io' \in IoMaps
<1>1. io' \in IoMaps
  BY CancelledType DEF EraseSocket
<1>2. "lost" \in {"new", "opening", "open", "closed", "lost", "failed"}
      /\ "closed" \in {"new", "opening", "open", "closed", "lost", "failed"}
  OBVIOUS
<1>4. stage' \in [Identifiers -> {"new", "opening", "open", "closed", "lost", "failed"}]
  BY <1>2 DEF TypeOK, EraseSocket
<1> QED BY <1>1, <1>4, ContainerAssumption DEF EraseSocket, TypeOK

\* The state of one I/O is changed, and no other.
IoStates == {"none", "posted", "done", "end", "client", "system", "aborted"}

IoWith(f, k, i, v) == [f EXCEPT ![k][i] = v]

\* Setting one I/O keeps the type of io, and every other I/O.
LEMMA IoSet ==
  ASSUME NEW f \in IoMaps, NEW k \in Kinds, NEW i \in Identifiers, NEW v \in IoStates
  PROVE  /\ IoWith(f, k, i, v) \in IoMaps
         /\ IoWith(f, k, i, v)[k][i] = v
         /\ \A h \in Kinds, j \in Identifiers :
              h # k \/ j # i => IoWith(f, k, i, v)[h][j] = f[h][j]
BY DEF IoMaps, IoStates, IoWith

\* The operation that failed, for onFailure.
LEMMA FailType ==
  ASSUME NEW k \in Kinds \cup {"register"}, NEW i \in Identifiers,
         NEW c \in {"none", "client", "system", "aborted"}, NEW r \in BOOLEAN, Fail(k, i, c, r)
  PROVE  /\ failure' \in Failures /\ consumer' = "failing"
         /\ failure'.kind = k /\ failure'.socket = i /\ failure'.code = c /\ failure'.rescheduled = r
BY DEF Fail, Failures

\* What the I/O of other sockets is while the thread is at one socket.
IoElsewhere(i) ==
  \A k \in Kinds, j \in Identifiers : j # i => io'[k][j] = io[k][j]

\* The thread goes on to the next packet, or to the failure of this one.
Proceeds(i, kinds) ==
  \/ UNCHANGED <<consumer, failure>>
  \/ /\ failure' \in Failures /\ consumer' = "failing"
     /\ failure'.kind \in kinds /\ failure'.socket = i

\* A send is posted, or the operation fails.
LEMMA SendEffect ==
  ASSUME TypeOK, NEW i \in Identifiers, Send(i)
  PROVE  /\ io' \in IoMaps /\ IoElsewhere(i)
         /\ \A k \in Kinds \ {"send"} : io'[k][i] = io[k][i]
         /\ Proceeds(i, {"send"})
<1>1. io \in IoMaps /\ "send" \in Kinds /\ "posted" \in IoStates
  BY DEF TypeOK, Kinds, IoStates
<1>2. CASE io' = IoWith(io, "send", i, "posted") /\ UNCHANGED <<consumer, failure>>
  BY <1>1, <1>2, IoSet DEF IoElsewhere, Proceeds
<1>3. ASSUME NEW c \in SendErrors(i), Fail("send", i, c, FALSE), UNCHANGED io
      PROVE  /\ io' \in IoMaps /\ IoElsewhere(i)
             /\ \A k \in Kinds \ {"send"} : io'[k][i] = io[k][i]
             /\ Proceeds(i, {"send"})
  <2>1. c \in {"none", "client", "system", "aborted"}
    BY DEF SendErrors, PostErrors
  <2> QED BY <1>1, <1>3, <2>1, FailType DEF IoElsewhere, Proceeds
<1> QED BY <1>2, <1>3 DEF Send, IoWith

\* A connection is made, and its receive posted, or it fails.
LEMMA ConnectedEffect ==
  ASSUME TypeOK, NEW i \in Identifiers, Connected(i)
  PROVE  /\ io' \in IoMaps /\ IoElsewhere(i)
         /\ io'["connect"][i] = "none"
         /\ io'["accept"][i] = io["accept"][i] /\ io'["send"][i] = io["send"][i]
         /\ Proceeds(i, {"connect"})
         /\ consumer' # "failing" => io'["receive"][i] = "posted" /\ stage'[i] = "open"
         /\ stage' = stage \/ stage' = [stage EXCEPT ![i] = "open"]
<1>1. /\ io \in IoMaps /\ "connect" \in Kinds /\ "receive" \in Kinds /\ "accept" \in Kinds
      /\ "send" \in Kinds /\ "posted" \in IoStates /\ "none" \in IoStates
      /\ stage \in [Identifiers -> {"new", "opening", "open", "closed", "lost", "failed"}]
      /\ consumer = "idle"
  BY DEF TypeOK, Kinds, IoStates, Connected, Idle
<1> DEFINE f == IoWith(io, "connect", i, "none")
<1>2. /\ f \in IoMaps /\ f["connect"][i] = "none"
      /\ \A k \in Kinds, j \in Identifiers : k # "connect" \/ j # i => f[k][j] = io[k][j]
  BY <1>1, IoSet
<1>3. ASSUME NEW c \in PostErrors(i) \cup {"none"}, Fail("connect", i, c, FALSE), io' = f
      PROVE  /\ io' \in IoMaps /\ IoElsewhere(i)
             /\ io'["connect"][i] = "none"
             /\ io'["accept"][i] = io["accept"][i] /\ io'["send"][i] = io["send"][i]
             /\ Proceeds(i, {"connect"}) /\ consumer' = "failing"
  <2>1. c \in {"none", "client", "system", "aborted"}
    BY DEF PostErrors
  <2>2. Proceeds(i, {"connect"}) /\ consumer' = "failing"
    BY <1>1, <1>3, <2>1, FailType DEF Proceeds
  <2> HIDE DEF f
  <2> QED BY <1>1, <1>2, <1>3, <2>2 DEF IoElsewhere
<1>4. ASSUME io' = [io EXCEPT !["connect"][i] = "none", !["receive"][i] = "posted"],
             UNCHANGED <<consumer, failure>>
      PROVE  /\ io' \in IoMaps /\ IoElsewhere(i)
             /\ io'["connect"][i] = "none" /\ io'["receive"][i] = "posted"
             /\ io'["accept"][i] = io["accept"][i] /\ io'["send"][i] = io["send"][i]
             /\ Proceeds(i, {"connect"})
  <2>1. io' = IoWith(f, "receive", i, "posted")
    BY <1>4 DEF IoWith
  <2> HIDE DEF f
  <2>3. f \in IoMaps /\ "receive" \in Kinds /\ "posted" \in IoStates
    BY <1>1, <1>2
  <2>2. /\ io' \in IoMaps /\ io'["receive"][i] = "posted"
        /\ \A k \in Kinds, j \in Identifiers : k # "receive" \/ j # i => io'[k][j] = f[k][j]
    BY <2>1, <2>3, IoSet
  <2>4. \A k \in Kinds, j \in Identifiers : j # i => io'[k][j] = io[k][j]
    BY <1>2, <2>2
  <2>5. /\ io'["connect"][i] = "none"
        /\ io'["accept"][i] = io["accept"][i] /\ io'["send"][i] = io["send"][i]
    BY <1>1, <1>2, <2>2
  <2> QED BY <1>4, <2>2, <2>4, <2>5 DEF IoElsewhere, Proceeds
<1> HIDE DEF f
<1>5. CASE stage' = stage /\ Fail("connect", i, "none", FALSE) /\ io' = f
  BY <1>3, <1>5
<1>6. CASE /\ stage' = [stage EXCEPT ![i] = "open"]
           /\ io' = [io EXCEPT !["connect"][i] = "none", !["receive"][i] = "posted"]
           /\ UNCHANGED <<consumer, failure>>
  BY <1>1, <1>4, <1>6
<1>7. CASE /\ stage' = [stage EXCEPT ![i] = "open"] /\ io' = f
           /\ \E c \in PostErrors(i) \cup {c \in {"none"} : "callback" \in Faults} :
                Fail("connect", i, c, FALSE)
  <2>1. PICK c \in PostErrors(i) \cup {"none"} : Fail("connect", i, c, FALSE)
    BY <1>7
  <2> QED BY <1>3, <1>7, <2>1
<1> QED BY <1>5, <1>6, <1>7 DEF Connected, f, IoWith

\* Bytes are read, answered, and the receive posted again, or it fails.
LEMMA ReceiveEffect ==
  ASSUME TypeOK, NEW i \in Identifiers, Receive(i)
  PROVE  /\ io' \in IoMaps /\ IoElsewhere(i)
         /\ io'["accept"][i] = io["accept"][i] /\ io'["connect"][i] = io["connect"][i]
         /\ Proceeds(i, {"receive"})
         /\ consumer' # "failing" => io'["receive"][i] = "posted"
<1>1. /\ io \in IoMaps /\ "connect" \in Kinds /\ "receive" \in Kinds /\ "accept" \in Kinds
      /\ "send" \in Kinds /\ "posted" \in IoStates /\ "none" \in IoStates
      /\ consumer = "idle"
  BY DEF TypeOK, Kinds, IoStates, Receive, Idle
<1>2. PICK answers \in BOOLEAN :
        LET sent == IF answers THEN [io EXCEPT !["send"][i] = "posted"] ELSE io IN
            \/ /\ io' = [sent EXCEPT !["receive"][i] = "posted"]
               /\ UNCHANGED <<consumer, failure>>
            \/ /\ io' = [sent EXCEPT !["receive"][i] = "none"]
               /\ \E code \in PostErrors(i) : Fail("receive", i, code, FALSE)
            \/ /\ io' = [io EXCEPT !["receive"][i] = "none"]
               /\ \E code \in PostErrors(i) \cup {"none"} : Fail("receive", i, code, FALSE)
  BY DEF Receive
<1> DEFINE sent == IF answers THEN IoWith(io, "send", i, "posted") ELSE io
<1>3. /\ sent \in IoMaps
      /\ \A k \in Kinds, j \in Identifiers : k # "send" \/ j # i => sent[k][j] = io[k][j]
  BY <1>1, IoSet
<1>4. \/ /\ io' = IoWith(sent, "receive", i, "posted")
         /\ UNCHANGED <<consumer, failure>>
      \/ /\ io' = IoWith(sent, "receive", i, "none") \/ io' = IoWith(io, "receive", i, "none")
         /\ \E code \in PostErrors(i) \cup {"none"} : Fail("receive", i, code, FALSE)
  BY <1>2 DEF IoWith
<1> HIDE DEF sent
<1>5. \E g \in {io, sent}, v \in {"none", "posted"} :
        /\ io' = IoWith(g, "receive", i, v)
        /\ \/ v = "posted" /\ UNCHANGED <<consumer, failure>>
           \/ \E code \in PostErrors(i) \cup {"none"} : Fail("receive", i, code, FALSE)
  BY <1>4
<1>6. PICK g \in {io, sent}, v \in {"none", "posted"} :
        /\ io' = IoWith(g, "receive", i, v)
        /\ \/ v = "posted" /\ UNCHANGED <<consumer, failure>>
           \/ \E code \in PostErrors(i) \cup {"none"} : Fail("receive", i, code, FALSE)
  BY <1>5
<1>7. /\ g \in IoMaps
      /\ \A k \in Kinds, j \in Identifiers : k # "send" \/ j # i => g[k][j] = io[k][j]
  BY <1>1, <1>3
<1>8. /\ io' \in IoMaps /\ io'["receive"][i] = v
      /\ \A k \in Kinds, j \in Identifiers : k # "receive" \/ j # i => io'[k][j] = g[k][j]
  <2>1. g \in IoMaps /\ "receive" \in Kinds /\ v \in IoStates /\ io' = IoWith(g, "receive", i, v)
    BY <1>1, <1>6, <1>7
  <2> QED BY <2>1, IoSet
<1>9. /\ Proceeds(i, {"receive"})
      /\ consumer' # "failing" => v = "posted"
  <2>1. ASSUME NEW c \in PostErrors(i) \cup {"none"}, Fail("receive", i, c, FALSE)
        PROVE  Proceeds(i, {"receive"}) /\ consumer' = "failing"
    <3>1. c \in {"none", "client", "system", "aborted"}
      BY DEF PostErrors
    <3> QED BY <1>1, <2>1, <3>1, FailType DEF Proceeds
  <2> QED BY <1>6, <2>1 DEF Proceeds
<1> QED BY <1>1, <1>7, <1>8, <1>9 DEF IoElsewhere

\* An accept that succeeded sets the count of failures back.
LEMMA SucceedsType ==
  ASSUME TypeOK, NEW l, Succeeds(l)
  PROVE  failures' \in [Identifiers -> 0 .. MaxFailures - 1] /\ row' \in [Identifiers -> Nat]
<1> DEFINE S == 0 .. MaxFailures - 1
<1>1. 0 \in S
  BY ContainerAssumption
<1>2. failures \in [Identifiers -> S] /\ row \in [Identifiers -> Nat]
  BY DEF TypeOK
<1> HIDE DEF S
<1>3. failures' \in [Identifiers -> S]
  BY <1>1, <1>2 DEF Succeeds
<1>4. row' \in [Identifiers -> Nat]
  BY <1>2 DEF Succeeds
<1> QED BY <1>3, <1>4 DEF S

\* A client that waited is gone.
LEMMA BacklogType ==
  ASSUME TypeOK, NEW l \in Identifiers, backlog[l] > 0,
         backlog' = [backlog EXCEPT ![l] = @ - 1]
  PROVE  backlog' \in [Identifiers -> 0 .. MaxBacklog]
<1> DEFINE S == 0 .. MaxBacklog
<1>1. backlog \in [Identifiers -> S]
  BY DEF TypeOK
<1>2. backlog[l] - 1 \in S
  BY <1>1, ContainerAssumption
<1> HIDE DEF S
<1>3. backlog' \in [Identifiers -> S]
  BY <1>1, <1>2
<1> QED BY <1>3 DEF S

\* Users keep the types.
LEMMA UserOperationType ==
  ASSUME Structure, UserOperation
  PROVE  TypeOK'
<1>1. TypeOK
  BY DEF Structure
<1> USE ContainerAssumption
<1>2. /\ "accept" \in Kinds /\ "connect" \in Kinds /\ "receive" \in Kinds /\ "send" \in Kinds
      /\ NoIdentifier = 0
  BY DEF Kinds, NoIdentifier
<1>3. CASE OpenFails
  <2>1. sequencer + 1 <= MaxSockets + 1
    BY <1>3, OpensHasIdentifiers DEF OpenFails
  <2>2. sequencer + 1 \in 1 .. MaxSockets + 1
    BY <1>1, <2>1 DEF TypeOK
  <2>3. stage' \in [Identifiers -> {"new", "opening", "open", "closed", "lost", "failed"}]
    BY <1>1, <1>3 DEF OpenFails, TypeOK
  <2> QED BY <1>1, <1>3, <2>2, <2>3 DEF OpenFails, TypeOK
<1>4. CASE Listen
  <2>1. sequencer + 2 <= MaxSockets + 1
    BY <1>4, OpensHasIdentifiers DEF Listen
  <2>2. sequencer \in Identifiers /\ sequencer + 1 \in Identifiers
    BY <1>1, <2>1 DEF TypeOK, Identifiers
  <2>3. io' \in IoMaps
    BY <1>1, <1>2, <1>4, <2>2, IoSet DEF IoWith, Listen, IoStates, TypeOK
  <2> QED BY <1>1, <1>4, <2>1, <2>2, <2>3 DEF Listen, TypeOK
<1>5. CASE ListenRefused
  <2>1. sequencer + 2 <= MaxSockets + 1
    BY <1>5, OpensHasIdentifiers DEF ListenRefused
  <2>2. sequencer + 2 \in 1 .. MaxSockets + 1
    BY <1>1, <2>1 DEF TypeOK
  <2>3. stage' \in [Identifiers -> {"new", "opening", "open", "closed", "lost", "failed"}]
    BY <1>1, <1>5 DEF ListenRefused, TypeOK
  <2> QED BY <1>1, <1>5, <2>2, <2>3 DEF ListenRefused, TypeOK
<1>6. CASE ListenThrows
  <2>1. sequencer + 2 <= MaxSockets + 1
    BY <1>6, OpensHasIdentifiers DEF ListenThrows
  <2>2. sequencer \in Identifiers /\ sequencer + 1 \in Identifiers
    BY <1>1, <2>1 DEF TypeOK, Identifiers
  <2>3. io' \in IoMaps
    BY <1>1, <1>2, <1>6, <2>2, IoSet DEF IoWith, ListenThrows, IoStates, TypeOK
  <2> QED BY <1>1, <1>6, <2>1, <2>2, <2>3 DEF ListenThrows, TypeOK
<1>7. CASE Connect
  <2>1. sequencer + 1 <= MaxSockets + 1
    BY <1>7, OpensHasIdentifiers DEF Connect
  <2>2. sequencer \in Identifiers
    BY <1>1, <2>1 DEF TypeOK, Identifiers
  <2>3. io' \in IoMaps
    BY <1>1, <1>2, <1>7, <2>2, IoSet DEF IoWith, Connect, IoStates, TypeOK
  <2> QED BY <1>1, <1>7, <2>1, <2>2, <2>3 DEF Connect, TypeOK
<1>8. CASE ConnectRefused
  <2>1. sequencer + 1 <= MaxSockets + 1
    BY <1>8, OpensHasIdentifiers DEF ConnectRefused
  <2>2. sequencer + 1 \in 1 .. MaxSockets + 1
    BY <1>1, <2>1 DEF TypeOK
  <2>3. stage' \in [Identifiers -> {"new", "opening", "open", "closed", "lost", "failed"}]
    BY <1>1, <1>8 DEF ConnectRefused, TypeOK
  <2> QED BY <1>1, <1>8, <2>2, <2>3 DEF ConnectRefused, TypeOK
<1>9. CASE Abort
  <2>1. io' \in IoMaps
    BY <1>9 DEF Abort, IoMaps
  <2>2. backlog' \in [Identifiers -> 0 .. MaxBacklog]
    BY <1>9 DEF Abort
  <2> QED BY <1>1, <1>9, <2>1, <2>2 DEF Abort, TypeOK
<1>10. ASSUME NEW i \in Identifiers, Send(i) PROVE TypeOK'
  BY <1>1, <1>10, SendEffect DEF Send, Proceeds, TypeOK
<1>11. ASSUME NEW i \in Identifiers, RegisterThrows(i) PROVE TypeOK'
  BY <1>1, <1>11 DEF RegisterThrows, Fail, TypeOK, Failures
<1>12. ASSUME NEW i \in Identifiers, Close(i) PROVE TypeOK'
  <2>1. io \in IoMaps
    BY <1>1 DEF TypeOK
  <2> QED BY <1>1, <1>12, <2>1, EraseType DEF Close, TypeOK
<1> QED BY <1>3, <1>4, <1>5, <1>6, <1>7, <1>8, <1>9, <1>10, <1>11, <1>12 DEF UserOperation

\* Windows, the network and the packets of I/O keep the types.
LEMMA PacketType ==
  ASSUME Structure, NEW i \in Identifiers,
         \/ ClientArrives(i) \/ PeerActs(i)
         \/ \E k \in Kinds : CompleteIo(k, i)
         \/ AcceptPacket(i) \/ ConnectPacket(i) \/ ReceivePacket(i) \/ SendPacket(i)
  PROVE  TypeOK'
<1>1. TypeOK
  BY DEF Structure
<1> USE ContainerAssumption
<1>2. /\ "accept" \in Kinds /\ "connect" \in Kinds /\ "receive" \in Kinds /\ "send" \in Kinds
      /\ NoIdentifier = 0
  BY DEF Kinds, NoIdentifier
<1>3. /\ failure \in Failures
      /\ \A k \in Kinds, c \in {"none", "client", "system", "aborted"}, r \in BOOLEAN :
           [kind |-> k, socket |-> i, code |-> c, rescheduled |-> r] \in Failures
  BY <1>1 DEF TypeOK, Failures
<1>6. CASE ClientArrives(i)
  BY <1>1, <1>3, <1>6 DEF ClientArrives, TypeOK
<1>7. CASE PeerActs(i)
  BY <1>1, <1>3, <1>7 DEF PeerActs, TypeOK
<1>8. ASSUME NEW k \in Kinds, CompleteIo(k, i) PROVE TypeOK'
  <2>1. PICK result \in Results(k, i) :
          /\ io' = [io EXCEPT ![k][i] = result]
          /\ peer' = IF k \in {"accept", "connect"} /\ result = "done"
                     THEN [peer EXCEPT ![i] = "established"] ELSE peer
          /\ backlog' = IF k = "accept" /\ result \in {"done", "client"}
                        THEN [backlog EXCEPT ![acceptor[i]] = @ - 1] ELSE backlog
    BY <1>8 DEF CompleteIo
  <2>2. result \in {"done", "client", "system", "end"}
    BY <2>1 DEF Results, Kinds
  <2>3. k = "accept" => acceptor[i] \in Identifiers
    BY <1>1, <1>8 DEF CompleteIo, Structure, SocketsMatch, SocketMatches, TypeOK
  <2>4. k = "accept" /\ result \in {"done", "client"} => backlog[acceptor[i]] > 0
    BY <2>1 DEF Results
  <2>5. io' \in IoMaps
    BY <1>1, <2>1, <2>2, IoSet DEF IoWith, IoStates, TypeOK
  <2>6. backlog' \in [Identifiers -> 0 .. MaxBacklog]
    BY <1>1, <2>1, <2>3, <2>4 DEF TypeOK
  <2>7. peer' \in [Identifiers -> {"none", "listening", "fresh", "connecting", "established",
                               "ended", "reset"}]
    BY <1>1, <2>1 DEF TypeOK
  <2> QED BY <1>1, <1>3, <1>8, <2>5, <2>6, <2>7 DEF CompleteIo, TypeOK
<1>9. ASSUME NEW k \in Kinds, Packet(k, i) PROVE TypeOK'
  <2>1. io' = IoWith(io, k, i, "none")
    BY <1>9 DEF IoWith, Packet, PacketFailed, SocketNotFound
  <2>3. io' \in IoMaps
    BY <1>1, <2>1, IoSet DEF IoStates, TypeOK
  <2>2. failure' \in Failures /\ consumer' = "failing"
    BY <1>3, <1>9 DEF Packet, PacketFailed, SocketNotFound, Fail
  <2> QED BY <1>1, <1>9, <2>2, <2>3 DEF Packet, PacketFailed, SocketNotFound, TypeOK
<1>10. ASSUME AcceptThrows(i) \/ AcceptNotRescheduled(i) \/ AcceptWithoutReceive(i) \/ Accept(i)
       PROVE  TypeOK'
  <2>1. /\ acceptor[i] \in Identifiers /\ sequencer \in Identifiers
    BY <1>10, AcceptingHasIdentifiers
       DEF AcceptThrows, AcceptNotRescheduled, AcceptWithoutReceive, Accept
  <2>2. sequencer + 1 \in 1 .. MaxSockets + 1
    BY <2>1 DEF Identifiers
  <2>3. CASE AcceptThrows(i)
    <3>1. io' \in IoMaps /\ failure' \in Failures /\ consumer' = "failing"
      BY <1>1, <1>2, <1>3, <2>3, IoSet DEF IoWith, AcceptThrows, Fail, IoStates, TypeOK
    <3> QED BY <1>1, <2>3, <3>1 DEF AcceptThrows, TypeOK
  <2>4. CASE AcceptNotRescheduled(i)
    <3>1. PICK code \in AcceptErrors(acceptor[i]) :
            Fail("accept", i, code, FALSE) /\ ClientLost(acceptor[i], code)
      BY <2>4 DEF AcceptNotRescheduled
    <3>2. /\ code \in {"client", "system"}
          /\ code = "client" => backlog[acceptor[i]] > 0
      BY <3>1 DEF AcceptErrors
    <3>3. io' \in IoMaps
      BY <1>1, <1>2, <2>4, IoSet DEF IoWith, AcceptNotRescheduled, IoStates, TypeOK
    <3>5. failure' \in Failures /\ consumer' = "failing"
      BY <1>2, <3>1, <3>2, FailType
    <3>4. backlog' \in [Identifiers -> 0 .. MaxBacklog]
      <4>1. CASE code = "client"
        BY <1>1, <2>1, <3>1, <3>2, <4>1, BacklogType DEF ClientLost
      <4>2. CASE code # "client"
        BY <1>1, <3>1, <4>2 DEF ClientLost, TypeOK
      <4> QED BY <4>1, <4>2
    <3>6. failures' \in [Identifiers -> 0 .. MaxFailures - 1] /\ row' \in [Identifiers -> Nat]
      <4>1. Succeeds(acceptor[i])
        BY <2>4 DEF AcceptNotRescheduled
      <4> QED BY <1>1, <4>1, SucceedsType
    <3> QED BY <1>1, <2>2, <2>4, <3>3, <3>4, <3>5, <3>6 DEF AcceptNotRescheduled, TypeOK
  <2>5. CASE AcceptWithoutReceive(i)
    <3>1. \A c \in PostErrors(i) : c \in {"client", "system"}
      BY DEF PostErrors
    <3>2. failure' \in Failures /\ consumer' = "failing"
      BY <1>2, <1>3, <2>5, <3>1 DEF AcceptWithoutReceive, Fail
    <3>3. io' \in IoMaps
      BY <1>1, <1>2, <2>1, <2>5 DEF AcceptWithoutReceive, TypeOK, IoMaps
    <3> QED BY <1>1, <2>1, <2>2, <2>5, <3>2, <3>3
            DEF AcceptWithoutReceive, Succeeds, Pending, TypeOK
  <2>6. CASE Accept(i)
    <3>1. /\ failure' \in Failures
          /\ consumer' \in {"idle", "failing", "retrying", "stopped"}
      BY <1>1, <1>2, <1>3, <2>6 DEF Accept, ContinuesOr, Fail, TypeOK
    <3>2. io' \in IoMaps
      BY <1>1, <1>2, <2>1, <2>6 DEF Accept, TypeOK, IoMaps
    <3> QED BY <1>1, <2>1, <2>2, <2>6, <3>1, <3>2 DEF Accept, Succeeds, Pending, TypeOK
  <2> QED BY <1>10, <2>3, <2>4, <2>5, <2>6
<1>11. CASE Connected(i) \/ Receive(i)
  <2>1. /\ io' \in IoMaps
        /\ Proceeds(i, {"connect"}) \/ Proceeds(i, {"receive"})
        /\ stage' = stage \/ stage' = [stage EXCEPT ![i] = "open"]
    BY <1>1, <1>11, ConnectedEffect, ReceiveEffect DEF Receive
  <2> QED BY <1>1, <1>11, <2>1 DEF Connected, Receive, Proceeds, TypeOK
<1>13. CASE Sent(i)
  <2>1. io' \in IoMaps
    BY <1>1, <1>2, <1>13, IoSet DEF IoWith, Sent, IoStates, TypeOK
  <2>2. failure' \in Failures /\ consumer' \in {"idle", "failing", "retrying", "stopped"}
    BY <1>1, <1>2, <1>3, <1>13 DEF Sent, ContinuesOr, Fail, TypeOK
  <2> QED BY <1>1, <1>13, <2>1, <2>2 DEF Sent, TypeOK
<1>12. CASE PeerEnded(i)
  <2>1. [io EXCEPT !["receive"][i] = "none"] \in IoMaps
    BY <1>1, <1>2, IoSet DEF IoWith, IoStates, TypeOK
  <2> QED BY <1>1, <1>3, <1>12, <2>1, EraseType DEF PeerEnded, TypeOK
<1> QED BY <1>2, <1>6, <1>7, <1>8, <1>9, <1>10, <1>11, <1>12, <1>13
        DEF AcceptPacket, ConnectPacket, ReceivePacket, SendPacket, Packet

\* onFailure keeps the types.
LEMMA FailingType ==
  ASSUME Structure, Failing
  PROVE  TypeOK'
<1>1. TypeOK /\ Position /\ io \in IoMaps
  BY DEF Structure, TypeOK
<1> USE ContainerAssumption
<1>2. failure.kind \in Kinds \cup {"register", "none"}
  BY <1>1 DEF TypeOK, Failures
<1>3. NoFailure \in Failures /\ failure \in Failures
  BY <1>1 DEF NoFailure, Failures, TypeOK
<1>4. \A l \in Identifiers : Counted(l) \in Nat
  BY <1>1 DEF Counted, TypeOK
<1>5. CASE OnFailure
  <2>1. failure.socket \in Identifiers
        /\ (failure.kind = "accept" => acceptor[failure.socket] \in Identifiers)
    BY <1>1, <1>5 DEF OnFailure, Position, TypeOK, Failures
  <2>2. row' \in [Identifiers -> Nat]
    BY <1>1, <1>5, <2>1 DEF OnFailure, Retries, TypeOK
  <2>3. failure' \in Failures
        /\ consumer' \in {"idle", "failing", "retrying", "stopped"}
    BY <1>1, <1>3, <1>5 DEF OnFailure, Return, TypeOK
  <2> QED BY <1>1, <1>5, <2>1, <2>2, <2>3, EraseType DEF OnFailure, TypeOK
<1>6. CASE GiveUp
  <2>1. acceptor[failure.socket] \in Identifiers
    BY <1>6, RetryingHasIdentifier DEF GiveUp
  <2> QED BY <1>1, <1>3, <1>6, <2>1, EraseType DEF GiveUp, Return, TypeOK
<1>7. CASE RetryAccept \/ RetryFails
  <2>1. /\ acceptor[failure.socket] \in Identifiers /\ sequencer \in Identifiers
        /\ sequencer + 1 \in 1 .. MaxSockets + 1
    BY <1>7, RetryingHasIdentifier DEF RetryAccept, RetryFails, Identifiers
  <2>2. failures' \in [Identifiers -> 0 .. MaxFailures - 1]
    BY <1>1, <1>4, <1>7, <2>1 DEF RetryAccept, RetryFails, Limit, TypeOK
  <2>3. CASE RetryAccept
    <3>1. io' = IoWith(io, "accept", sequencer, "posted")
      BY <2>3 DEF IoWith, RetryAccept
    <3>2. io' \in IoMaps
      BY <1>1, <2>1, <3>1, IoSet DEF Kinds, IoStates, TypeOK
    <3> QED BY <1>1, <1>3, <2>1, <2>2, <2>3, <3>2
            DEF RetryAccept, Pending, Return, TypeOK
  <2>4. CASE RetryFails
    BY <1>1, <1>3, <2>1, <2>2, <2>4, EraseType DEF RetryFails, Return, TypeOK
  <2> QED BY <1>7, <2>3, <2>4
<1> QED BY <1>5, <1>6, <1>7 DEF Failing

\* Every step keeps the types.
LEMMA TypeStep ==
  ASSUME Structure, [Next]_vars
  PROVE  TypeOK'
<1>1. CASE UNCHANGED vars
  BY <1>1 DEF vars, Structure, TypeOK
<1> QED BY <1>1, UserOperationType, PacketType, FailingType DEF Next

-----------------------------------------------------------------------------
(* What is committed of the identifiers that are left.                     *)

\* The retry that is committed.
Retry == IF Unserved # NoIdentifier /\ kind[Unserved] = "listening" THEN 1 ELSE 0

\* Where no client and no accept is added, and the sequencer goes no further
\* than the accepts and the retry that are taken, the identifiers suffice.
LEMMA StillSuffices ==
  ASSUME TypeOK, TypeOK', IdentifiersSuffice,
         WaitingClients' \subseteq WaitingClients, LiveAccepts' \subseteq LiveAccepts,
         \/ sequencer' + Retry' <= sequencer + Retry
         \/ /\ LiveAccepts' # LiveAccepts
            /\ sequencer' + Retry' <= sequencer + Retry + 2
  PROVE  IdentifiersSuffice'
<1> DEFINE w == Cardinality(WaitingClients)
           a == Cardinality(LiveAccepts)
           w1 == Cardinality(WaitingClients')
           a1 == Cardinality(LiveAccepts')
           r == Retry
           r1 == Retry'
<1>1. /\ w \in Nat /\ a \in Nat /\ IsFiniteSet(WaitingClients) /\ IsFiniteSet(LiveAccepts)
      /\ sequencer \in Nat /\ MaxSockets \in Nat
  BY CountsAreNaturals
<1>2. w1 \in Nat /\ a1 \in Nat /\ w1 <= w /\ a1 <= a
  BY <1>1, FS_Subset, FS_CardinalityType
<1>3. LiveAccepts' # LiveAccepts => a1 # a
  BY <1>1, FS_Subset
<1>4. sequencer + (2 * w + 2 * a + r) <= MaxSockets + 1
  BY DEF IdentifiersSuffice, Committed, Retry
<1>5. IdentifiersSuffice' <=> sequencer' + (2 * w1 + 2 * a1 + r1) <= MaxSockets + 1
  BY DEF IdentifiersSuffice, Committed, Retry
<1>6. sequencer' \in Nat /\ r \in Nat /\ r1 \in Nat
  BY ContainerAssumption DEF TypeOK, Retry
<1>7. \/ sequencer' + r1 <= sequencer + r
      \/ a1 # a /\ sequencer' + r1 <= sequencer + r + 2
  BY <1>3
<1> HIDE DEF w, a, w1, a1, r, r1
<1>8. PICK m \in Nat, s \in Nat, s1 \in Nat, x \in Nat, x1 \in Nat, t \in Nat, t1 \in Nat :
        /\ m = MaxSockets + 1 /\ s = sequencer /\ s1 = sequencer' /\ x = r /\ x1 = r1
        /\ t = 2 * w + 2 * a /\ t1 = 2 * w1 + 2 * a1
  BY <1>1, <1>2, <1>6
<1>9. t1 <= t /\ (a1 # a => t1 + 2 <= t)
  BY <1>1, <1>2, <1>8
<1>10. s1 + (t1 + x1) <= m
  <2>1. s + (t + x) <= m
    BY <1>4, <1>8
  <2>2. \/ s1 + x1 <= s + x
        \/ t1 + 2 <= t /\ s1 + x1 <= s + x + 2
    BY <1>7, <1>8, <1>9
  <2> QED BY <1>9, <2>1, <2>2
<1> QED BY <1>5, <1>8, <1>10

\* A user opens a socket with the identifiers that are not set aside.
LEMMA OpensSuffices ==
  ASSUME TypeOK, TypeOK', NEW call, NEW m \in {1, 2}, Opens(call, m), sequencer' = sequencer + m,
         backlog' = backlog, LiveAccepts' \subseteq LiveAccepts, consumer' = consumer
  PROVE  IdentifiersSuffice'
<1> DEFINE w == Cardinality(WaitingClients)
           a == Cardinality(LiveAccepts)
           a1 == Cardinality(LiveAccepts')
<1>1. /\ w \in Nat /\ a \in Nat /\ IsFiniteSet(LiveAccepts)
      /\ sequencer \in Nat /\ MaxSockets \in Nat
  BY CountsAreNaturals
<1>2. a1 \in Nat /\ a1 <= a
  BY <1>1, FS_Subset, FS_CardinalityType
<1>3. Unserved = NoIdentifier /\ Unserved' = NoIdentifier
  BY DEF Opens, Unserved
<1>4. sequencer + (2 * w + 2 * a + 0) + m <= MaxSockets + 1
  BY <1>3, EnoughReserved DEF Opens, Committed
<1>5. IdentifiersSuffice' <=> sequencer + m + (2 * w + 2 * a1 + 0) <= MaxSockets + 1
  BY <1>3 DEF IdentifiersSuffice, Committed, WaitingClients
<1> HIDE DEF w, a, a1
<1> QED BY <1>1, <1>2, <1>4, <1>5

-----------------------------------------------------------------------------
(* Sockets that a step leaves alone.                                       *)

SameSocket(i) ==
  /\ kind'[i] = kind[i] /\ acceptor'[i] = acceptor[i] /\ peer'[i] = peer[i]
  /\ backlog'[i] = backlog[i] /\ stage'[i] = stage[i]
  /\ \A k \in Kinds : io'[k][i] = io[k][i]
  /\ acceptor[i] # NoIdentifier =>
       acceptor'[acceptor[i]] = acceptor[acceptor[i]] /\ kind'[acceptor[i]] = kind[acceptor[i]]

\* What is true of a socket alone stays true while nothing of it changes.
LEMMA SameSocketMatches ==
  ASSUME Structure, NEW i \in Identifiers, SameSocket(i)
  PROVE  /\ AcceptorListens(i)' /\ SocketMatches(i)'
         /\ ConnectionServed(i) => ConnectionServed(i)'
         /\ StageMatches(i) => StageMatches(i)'
<1>1. AcceptorListens(i) /\ SocketMatches(i)
  BY DEF Structure, SocketsMatch
<1>2. AcceptorListens(i)'
  BY <1>1 DEF AcceptorListens, SameSocket
<1>3. io'["accept"][i] = io["accept"][i] /\ io'["connect"][i] = io["connect"][i]
      /\ io'["receive"][i] = io["receive"][i] /\ io'["send"][i] = io["send"][i]
  BY DEF SameSocket, Kinds
<1>4. SocketMatches(i)'
  BY <1>1, <1>3 DEF SocketMatches, SameSocket
<1>5. ConnectionServed(i) => ConnectionServed(i)'
  BY <1>3 DEF ConnectionServed, SameSocket
<1>6. StageMatches(i) => StageMatches(i)'
  BY DEF StageMatches, SameSocket
<1> QED BY <1>2, <1>4, <1>5, <1>6

\* A socket is in order.
InOrder(i) ==
  /\ AcceptorListens(i) /\ SocketMatches(i)
  /\ i # Erasing => ConnectionServed(i)
  /\ consumer # "stopped" => StageMatches(i)

\* The invariants of single sockets are those of each socket.
LEMMA EachInOrder ==
  ASSUME Structure, NEW i \in Identifiers
  PROVE  InOrder(i)
BY DEF Structure, SocketsMatch, ConnectionsServed, StagesMatch, InOrder

\* They hold in the next state once each socket is in order there.
LEMMA AllInOrder ==
  ASSUME \A i \in Identifiers : InOrder(i)'
  PROVE  SocketsMatch' /\ ConnectionsServed' /\ StagesMatch'
BY DEF SocketsMatch, ConnectionsServed, StagesMatch, InOrder

\* A socket that a step leaves alone stays in order.
LEMMA SocketKept ==
  ASSUME Structure, NEW i \in Identifiers, SameSocket(i),
         i = Erasing => i = Erasing', consumer = "stopped" => consumer' = "stopped"
  PROVE  InOrder(i)'
<1>1. InOrder(i)
  BY EachInOrder
<1>2. /\ AcceptorListens(i)' /\ SocketMatches(i)'
      /\ ConnectionServed(i) => ConnectionServed(i)'
      /\ StageMatches(i) => StageMatches(i)'
  BY SameSocketMatches
<1> QED BY <1>1, <1>2 DEF InOrder

\* Identifiers that are not given out yet stay blank.
Untouched(i) ==
  /\ i >= sequencer /\ SameSocket(i)
  /\ failures'[i] = failures[i] /\ row'[i] = row[i] /\ failure'.socket # i
  /\ \A j \in Identifiers : acceptor'[j] # i

\* NotGenerated stays true when no identifier that is left was touched.
LEMMA BlankKept ==
  ASSUME Structure, \A i \in Identifiers : i >= sequencer' => Untouched(i)
  PROVE  NotGenerated'
<1>1. ASSUME NEW i \in Identifiers, i >= sequencer'
      PROVE  Blank(i)'
  <2>1. Untouched(i)
    BY <1>1
  <2>2. Blank(i)
    BY <2>1 DEF Untouched, Structure, NotGenerated
  <2> QED BY <2>1, <2>2 DEF Untouched, Blank, SameSocket
<1> QED BY <1>1 DEF NotGenerated, Untouched

-----------------------------------------------------------------------------
(* Sockets that users open.                                                *)

\* What is known of the next identifiers.
LEMMA NextIdentifiers ==
  ASSUME Structure, NEW call, NEW m \in {1, 2}, Opens(call, m)
  PROVE  /\ consumer = "idle" /\ sequencer \in Identifiers
         /\ m = 2 => sequencer + 1 \in Identifiers
         /\ sequencer + 1 \in Nat
         /\ \A i \in {sequencer, sequencer + 1} \cap Identifiers :
              /\ Blank(i)
              /\ \A j \in Identifiers : acceptor[j] # i
<1>1. sequencer + m <= MaxSockets + 1 /\ sequencer \in Nat /\ sequencer >= 1 /\ MaxSockets \in Nat
  BY OpensHasIdentifiers, ContainerAssumption DEF Structure, TypeOK
<1>2. sequencer \in Identifiers /\ (m = 2 => sequencer + 1 \in Identifiers) /\ sequencer + 1 \in Nat
  BY <1>1 DEF Identifiers
<1> QED BY <1>1, <1>2 DEF Structure, NotGenerated, Opens

\* An identifier that is used up without a socket keeps the structure.
LEMMA SpoilKeepsStructure ==
  ASSUME Structure, TypeOK', OpenFails \/ ListenRefused \/ ConnectRefused
  PROVE  Structure'
<1>1. PICK n \in Identifiers :
        /\ n = sequencer /\ consumer = "idle" /\ Blank(n) /\ sequencer' > sequencer
        /\ \E v \in {"failed", "closed"} : stage' = [stage EXCEPT ![n] = v]
        /\ UNCHANGED <<kind, acceptor, failures, io, peer, backlog, consumer, failure, row>>
  BY NextIdentifiers DEF OpenFails, ListenRefused, ConnectRefused, Identifiers
<1>2. /\ TypeOK
      /\ stage \in [Identifiers -> {"new", "opening", "open", "closed", "lost", "failed"}]
      /\ sequencer' \in Nat /\ sequencer \in Nat
  BY ContainerAssumption DEF Structure, TypeOK
<1>3. \A i \in Identifiers : i >= sequencer' => i # n /\ i >= sequencer
  BY <1>1, <1>2 DEF Identifiers
<1>4. IdentifiersSuffice'
  <2>1. LiveAccepts' = LiveAccepts
    BY <1>1 DEF LiveAccepts, Completed
  <2>2. CASE OpenFails
    <3>1. PICK call \in {"listen", "connect"} : Opens(call, 1)
      BY <2>2 DEF OpenFails
    <3> QED BY <1>1, <1>2, <2>1, <2>2, <3>1, OpensSuffices DEF OpenFails
  <2>3. CASE ListenRefused
    BY <1>1, <1>2, <2>1, <2>3, OpensSuffices DEF ListenRefused
  <2>4. CASE ConnectRefused
    BY <1>1, <1>2, <2>1, <2>4, OpensSuffices DEF ConnectRefused
  <2> QED BY <2>2, <2>3, <2>4
<1>5. \A i \in Identifiers \ {n} : SameSocket(i)
  BY <1>1, <1>2 DEF SameSocket
<1>6. NotGenerated'
  <2>1. \A i \in Identifiers : i >= sequencer =>
          (\A j \in Identifiers : acceptor[j] # i) /\ failure.socket # i
    BY DEF Structure, NotGenerated
  <2>2. \A i \in Identifiers : i >= sequencer' => Untouched(i)
    BY <1>1, <1>3, <1>5, <2>1 DEF Untouched
  <2> QED BY <2>2, BlankKept
<1>7. Position' /\ ListenersServed' /\ FailuresCounted'
  BY <1>1 DEF Structure, Position, ListenersServed, InFlight, Unserved, FailuresCounted,
     Uncounted, ClientError
<1>8. stage'[n] \notin {"opening", "open"} /\ kind'[n] = "none"
  BY <1>1, <1>2 DEF Blank
<1>9. AcceptorListens(n)' /\ SocketMatches(n)' /\ ConnectionServed(n)' /\ StageMatches(n)'
  <2>1. AcceptorListens(n) /\ SocketMatches(n)
    BY <1>1 DEF Structure, SocketsMatch
  <2> QED BY <1>1, <1>8, <2>1
          DEF AcceptorListens, SocketMatches, ConnectionServed, StageMatches
<1>10. SocketsMatch' /\ ConnectionsServed' /\ StagesMatch'
  <2>1. Erasing' = Erasing /\ consumer' = consumer
    BY <1>1 DEF Erasing
  <2>2. InOrder(n)'
    BY <1>9 DEF InOrder
  <2>3. \A i \in Identifiers : InOrder(i)'
    BY <1>5, <2>1, <2>2, SocketKept
  <2> QED BY <2>3, AllInOrder
<1> QED BY <1>4, <1>6, <1>7, <1>10 DEF Structure

\* A socket that connects keeps the structure.
LEMMA ConnectKeepsStructure ==
  ASSUME Structure, TypeOK', Connect
  PROVE  Structure'
<1>1. PICK n \in Identifiers :
        /\ n = sequencer /\ consumer = "idle" /\ Blank(n)
        /\ \A j \in Identifiers : acceptor[j] # n
  BY NextIdentifiers DEF Connect
<1>2. /\ TypeOK /\ io \in IoMaps /\ sequencer \in Nat
      /\ "connect" \in Kinds /\ "accept" \in Kinds /\ "receive" \in Kinds /\ "posted" \in IoStates
  BY ContainerAssumption DEF Structure, TypeOK, Kinds, IoStates
<1>3. io' = IoWith(io, "connect", n, "posted")
  BY <1>1 DEF Connect, IoWith
<1>4. /\ io'["connect"][n] = "posted"
      /\ \A k \in Kinds, j \in Identifiers : k # "connect" \/ j # n => io'[k][j] = io[k][j]
  BY <1>1, <1>2, <1>3, IoSet
<1>5. /\ kind'[n] = "client" /\ peer'[n] = "connecting" /\ stage'[n] = "opening"
      /\ \A j \in Identifiers : j # n => kind'[j] = kind[j] /\ peer'[j] = peer[j] /\ stage'[j] = stage[j]
      /\ sequencer' = sequencer + 1
      /\ UNCHANGED <<acceptor, failures, backlog, consumer, failure, row>>
  BY <1>1, <1>2 DEF Connect, TypeOK
<1>6. \A i \in Identifiers : i >= sequencer' => i # n /\ i >= sequencer
  BY <1>1, <1>2, <1>5 DEF Identifiers
<1>7. IdentifiersSuffice'
  <2>1. LiveAccepts' = LiveAccepts
    <3>1. \A j \in Identifiers : io'["accept"][j] = io["accept"][j]
      BY <1>2, <1>4
    <3>2. \A j \in Identifiers : io["accept"][j] # "none" => acceptor[j] \in Identifiers \ {n}
      BY <1>1, <1>2 DEF Structure, SocketsMatch, SocketMatches, TypeOK
    <3> QED BY <1>5, <3>1, <3>2 DEF LiveAccepts, Completed
  <2> QED BY <1>2, <1>5, <2>1, OpensSuffices DEF Connect
<1>9. ASSUME NEW i \in Identifiers \ {n} PROVE SameSocket(i)
  <2>1. acceptor[i] # NoIdentifier => acceptor[i] \in Identifiers \ {n}
    BY <1>1, <1>2 DEF TypeOK
  <2> QED BY <1>4, <1>5, <2>1 DEF SameSocket
<1>10. NotGenerated'
  <2>1. \A i \in Identifiers : i >= sequencer =>
          (\A j \in Identifiers : acceptor[j] # i) /\ failure.socket # i
    BY DEF Structure, NotGenerated
  <2>2. \A i \in Identifiers : i >= sequencer' => Untouched(i)
    BY <1>5, <1>6, <1>9, <2>1 DEF Untouched
  <2> QED BY <2>2, BlankKept
<1>11. Position' /\ Unserved' = Unserved /\ Unserved = NoIdentifier
  BY <1>1, <1>5 DEF Position, Unserved
<1>12. ListenersServed'
  <2>1. \A l \in Identifiers : InFlight(l)' = InFlight(l)
    BY <1>2, <1>4, <1>5 DEF InFlight
  <2> QED BY <1>5, <1>11, <2>1 DEF Structure, ListenersServed
<1>13. FailuresCounted'
  BY <1>1, <1>5 DEF Structure, FailuresCounted, Uncounted, ClientError
<1>14. AcceptorListens(n)' /\ SocketMatches(n)' /\ ConnectionServed(n)' /\ StageMatches(n)'
  <2>1. acceptor[n] = NoIdentifier /\ backlog[n] = 0
        /\ io["accept"][n] = "none" /\ io["receive"][n] = "none"
    BY <1>1, <1>2 DEF Blank
  <2>2. io'["accept"][n] = "none" /\ io'["receive"][n] = "none"
    BY <1>1, <1>2, <1>4, <2>1
  <2> QED BY <1>4, <1>5, <2>1, <2>2
          DEF AcceptorListens, SocketMatches, ConnectionServed, StageMatches
<1>15. SocketsMatch' /\ ConnectionsServed' /\ StagesMatch'
  <2>1. Erasing' = Erasing /\ consumer' = consumer
    BY <1>5 DEF Erasing
  <2>2. InOrder(n)'
    BY <1>14 DEF InOrder
  <2>3. \A i \in Identifiers : InOrder(i)'
    BY <1>9, <2>1, <2>2, SocketKept
  <2> QED BY <2>3, AllInOrder
<1> QED BY <1>7, <1>10, <1>11, <1>12, <1>13, <1>15 DEF Structure

\* A listening socket with its first accept keeps the structure, and so does
\* one whose callback threw, which leaves its pending accept behind.
LEMMA ListenKeepsStructure ==
  ASSUME Structure, TypeOK', Listen \/ ListenThrows
  PROVE  Structure'
<1>1. PICK l \in Identifiers, n \in Identifiers :
        /\ l = sequencer /\ n = sequencer + 1
        /\ consumer = "idle" /\ Blank(l) /\ Blank(n)
        /\ \A j \in Identifiers : acceptor[j] # l /\ acceptor[j] # n
  BY NextIdentifiers DEF Listen, ListenThrows
<1>2. /\ TypeOK /\ io \in IoMaps /\ sequencer \in Nat
      /\ "connect" \in Kinds /\ "accept" \in Kinds /\ "receive" \in Kinds
  BY ContainerAssumption DEF Structure, TypeOK, Kinds
<1>21. l # n /\ l # NoIdentifier /\ n # NoIdentifier
  BY <1>1, <1>2, ContainerAssumption DEF Identifiers, NoIdentifier
<1>3. PICK v \in {"posted", "aborted"} :
        /\ io' = IoWith(io, "accept", n, v)
        /\ v = "posted" => kind'[l] = "listening"
  <2>1. CASE Listen
    <3>1. io' = IoWith(io, "accept", n, "posted")
      BY <1>1, <2>1 DEF Listen, IoWith
    <3>2. kind'[l] = "listening"
      BY <1>1, <1>2, <1>21, <2>1 DEF Listen, TypeOK
    <3> QED BY <3>1, <3>2
  <2>2. CASE ListenThrows
    BY <1>1, <2>2 DEF ListenThrows, IoWith
  <2> QED BY <2>1, <2>2
<1>4. /\ io'["accept"][n] = v
      /\ \A k \in Kinds, j \in Identifiers : k # "accept" \/ j # n => io'[k][j] = io[k][j]
  <2>1. io \in IoMaps /\ "accept" \in Kinds /\ n \in Identifiers /\ v \in IoStates
        /\ io' = IoWith(io, "accept", n, v)
    BY <1>2, <1>3 DEF IoStates
  <2> QED BY <2>1, IoSet
<1>5. /\ sequencer' = sequencer + 2
      /\ acceptor' = [acceptor EXCEPT ![n] = l]
      /\ UNCHANGED <<failures, backlog, consumer, failure, row>>
  BY <1>1 DEF Listen, ListenThrows
<1>6. \A i \in Identifiers : i >= sequencer' => i # l /\ i # n /\ i >= sequencer
  BY <1>1, <1>2, <1>5 DEF Identifiers
<1>7. /\ \/ kind'[l] = "listening" /\ peer'[l] = "listening" /\ stage'[l] = "open"
         \/ kind'[l] = "none" /\ peer'[l] = "none" /\ stage'[l] = "closed"
      /\ kind'[n] = "pending" /\ peer'[n] = "fresh" /\ stage'[n] = stage[n]
      /\ \A j \in Identifiers \ {l, n} :
           /\ kind'[j] = kind[j] /\ peer'[j] = peer[j] /\ stage'[j] = stage[j]
  BY <1>1, <1>2, <1>21 DEF Listen, ListenThrows, TypeOK, Blank
<1>9. \E call : Opens(call, 2)
  BY DEF Listen, ListenThrows
<1>10. acceptor'[n] = l /\ \A j \in Identifiers : j # n => acceptor'[j] = acceptor[j]
  BY <1>1, <1>2, <1>5 DEF TypeOK
<1>11. ASSUME NEW i \in Identifiers \ {l, n} PROVE SameSocket(i)
  <2>1. acceptor[i] # NoIdentifier => acceptor[i] \in Identifiers \ {l, n}
    BY <1>1, <1>2 DEF TypeOK
  <2> QED BY <1>4, <1>5, <1>7, <1>10, <2>1 DEF SameSocket
<1>12. NotGenerated'
  <2>1. \A i \in Identifiers : i >= sequencer =>
          (\A j \in Identifiers : acceptor[j] # i) /\ failure.socket # i
    BY DEF Structure, NotGenerated
  <2>2. \A i \in Identifiers : i >= sequencer' => \A j \in Identifiers : acceptor'[j] # i
    BY <1>6, <1>10, <2>1
  <2>3. \A i \in Identifiers : i >= sequencer' => Untouched(i)
    BY <1>5, <1>6, <1>11, <2>1, <2>2 DEF Untouched
  <2> QED BY <2>3, BlankKept
<1>13. Position' /\ Unserved' = NoIdentifier /\ Unserved = NoIdentifier
  BY <1>1, <1>5 DEF Position, Unserved
<1>14. \A j \in Identifiers : j # n => io'["accept"][j] = io["accept"][j] /\ acceptor'[j] = acceptor[j]
  BY <1>2, <1>4, <1>10
<1>15. io["accept"][n] = "none" /\ io["connect"][n] = "none" /\ acceptor[l] = NoIdentifier
       /\ io["accept"][l] = "none" /\ io["connect"][l] = "none" /\ backlog[l] = 0 /\ backlog[n] = 0
       /\ stage[n] = "new" /\ row[l] = 0 /\ failures[l] = 0
  BY <1>1, <1>2 DEF Blank
<1>16. ListenersServed'
  <2>1. \A j \in Identifiers : j # l => InFlight(j)' = InFlight(j)
    BY <1>10, <1>14, <1>15 DEF InFlight
  <2>2. InFlight(l)' = {n}
    <3>1. io'["accept"][n] # "none" /\ acceptor'[n] = l
      BY <1>3, <1>4, <1>10
    <3>2. \A j \in Identifiers : j # n => acceptor'[j] # l
      BY <1>1, <1>14
    <3> QED BY <3>1, <3>2 DEF InFlight
  <2>3. ASSUME NEW j \in Identifiers, kind'[j] = "listening"
        PROVE  j # NoIdentifier /\ \E m \in Identifiers : InFlight(j)' = {m}
    <3>1. CASE j = l
      BY <1>21, <2>2, <3>1
    <3>2. CASE j # l
      <4>1. kind[j] = "listening" /\ j # NoIdentifier
        BY <1>7, <2>3, <3>2, ContainerAssumption DEF Identifiers, NoIdentifier
      <4> QED BY <1>13, <2>1, <3>2, <4>1 DEF Structure, ListenersServed
    <3> QED BY <3>1, <3>2
  <2> QED BY <1>13, <2>3 DEF ListenersServed
<1>17. FailuresCounted'
  <2>1. \A j \in Identifiers : Uncounted(j) = 0 /\ Uncounted(j)' = 0
    BY <1>1, <1>5 DEF Uncounted
  <2>2. \A j \in Identifiers : j # l /\ kind'[j] = "listening" => kind[j] = "listening"
    BY <1>7
  <2> QED BY <1>5, <1>15, <2>1, <2>2 DEF Structure, FailuresCounted
<1>18. AcceptorListens(l)' /\ SocketMatches(l)' /\ ConnectionServed(l)' /\ StageMatches(l)'
  <2>1. acceptor'[l] = NoIdentifier /\ io'["accept"][l] = "none" /\ io'["connect"][l] = "none"
        /\ backlog'[l] = 0
    BY <1>1, <1>2, <1>4, <1>5, <1>10, <1>15, <1>21
  <2> QED BY <1>7, <2>1
          DEF AcceptorListens, SocketMatches, ConnectionServed, StageMatches
<1>19. AcceptorListens(n)' /\ SocketMatches(n)' /\ ConnectionServed(n)' /\ StageMatches(n)'
  <2>1. acceptor'[l] = NoIdentifier /\ io'["connect"][n] = "none" /\ backlog'[n] = 0
        /\ kind'[l] \in {"none", "listening"}
    BY <1>1, <1>2, <1>4, <1>5, <1>7, <1>10, <1>15, <1>21
  <2>2. io'["receive"][n] = "none" /\ io'["send"][n] = "none"
    BY <1>1, <1>2, <1>4 DEF Blank, Kinds
  <2> QED BY <1>3, <1>4, <1>7, <1>10, <1>15, <1>21, <2>1, <2>2
          DEF AcceptorListens, SocketMatches, ConnectionServed, StageMatches
<1>20. SocketsMatch' /\ ConnectionsServed' /\ StagesMatch'
  <2>1. Erasing' = Erasing /\ consumer' = consumer
    BY <1>5 DEF Erasing
  <2>2. InOrder(l)' /\ InOrder(n)'
    BY <1>18, <1>19 DEF InOrder
  <2>3. \A i \in Identifiers : InOrder(i)'
    BY <1>11, <2>1, <2>2, SocketKept
  <2> QED BY <2>3, AllInOrder
<1>22. LiveAccepts' \subseteq LiveAccepts
  <2>1. ASSUME NEW j \in LiveAccepts' PROVE j \in LiveAccepts
    <3>1. /\ j \in Identifiers /\ io'["accept"][j] \notin {"none", "posted"}
          /\ kind'[acceptor'[j]] = "listening"
      BY <2>1 DEF LiveAccepts, Completed
    <3>2. v = "aborted" => kind'[l] = "none"
      <4>1. CASE Listen
        BY <1>1, <1>2, <1>3, <1>4, <4>1, IoSet DEF Listen, IoWith, IoMaps, TypeOK
      <4>2. CASE ListenThrows
        BY <1>1, <1>2, <1>15, <1>21, <4>2 DEF ListenThrows, TypeOK, Blank
      <4> QED BY <4>1, <4>2
    <3>3. j # n
      BY <1>3, <1>4, <1>10, <3>1, <3>2
    <3>4. acceptor[j] \in Identifiers \ {l, n}
      BY <1>1, <1>2, <1>14, <3>1, <3>3 DEF Structure, SocketsMatch, SocketMatches, TypeOK
    <3> QED BY <1>7, <1>14, <3>1, <3>3, <3>4 DEF LiveAccepts, Completed
  <2> QED BY <2>1
<1>23. IdentifiersSuffice'
  BY <1>2, <1>5, <1>9, <1>22, OpensSuffices
<1> QED BY <1>12, <1>13, <1>16, <1>17, <1>20, <1>23 DEF Structure

\* The abort leaves no socket, and nothing that is posted.
LEMMA AbortKeepsStructure ==
  ASSUME Structure, TypeOK', Abort
  PROVE  Structure'
<1>1. TypeOK /\ consumer = "idle" /\ consumer' = "stopped"
  BY DEF Structure, Abort, Idle
<1>2. \A i \in Identifiers :
        /\ kind'[i] = "none" /\ peer'[i] = "none" /\ backlog'[i] = 0
        /\ \A k \in Kinds : io'[k][i] = "none"
  BY DEF Abort
<1>3. UNCHANGED <<sequencer, acceptor, failures, failure, stage, row>>
  BY DEF Abort
<1>4. NotGenerated'
  BY <1>2, <1>3 DEF Structure, NotGenerated, Blank
<1>5. "accept" \in Kinds /\ "connect" \in Kinds /\ "receive" \in Kinds
  BY DEF Kinds
<1>6. SocketsMatch'
  <2>1. ASSUME NEW i \in Identifiers PROVE AcceptorListens(i)' /\ SocketMatches(i)'
    <3>1. AcceptorListens(i)
      BY DEF Structure, SocketsMatch
    <3>2. AcceptorListens(i)'
      BY <1>1, <1>2, <1>3, <3>1 DEF AcceptorListens, TypeOK
    <3>3. SocketMatches(i)'
      BY <1>2, <1>5 DEF SocketMatches
    <3> QED BY <3>2, <3>3
  <2> QED BY <2>1 DEF SocketsMatch
<1>7. Position' /\ ListenersServed' /\ FailuresCounted'
  BY <1>1, <1>2 DEF Position, ListenersServed, FailuresCounted
<1>8. ConnectionsServed' /\ StagesMatch'
  BY <1>1, <1>2 DEF ConnectionsServed, ConnectionServed, StagesMatch
<1>9. IdentifiersSuffice'
  <2>1. LiveAccepts' \subseteq LiveAccepts
    BY <1>2, <1>5 DEF LiveAccepts, Completed
  <2>2. WaitingClients' \subseteq WaitingClients
    <3>1. ASSUME NEW x \in WaitingClients' PROVE FALSE
      <4>1. x[1] \in Identifiers /\ x[2] \in Nat /\ x[2] >= 1 /\ x[2] <= backlog'[x[1]]
        BY <3>1, ContainerAssumption DEF WaitingClients
      <4> QED BY <1>2, <4>1
    <3> QED BY <3>1
  <2>3. Retry = 0 /\ Retry' = 0
    BY <1>1 DEF Retry, Unserved
  <2>4. sequencer' + Retry' <= sequencer + Retry
    BY <1>1, <1>3, <2>3, ContainerAssumption DEF TypeOK
  <2> QED BY <1>1, <2>1, <2>2, <2>4, StillSuffices DEF Structure
<1> QED BY <1>4, <1>6, <1>7, <1>8, <1>9 DEF Structure

-----------------------------------------------------------------------------
(* Windows and the network.                                                *)

\* What happens outside the program, which completes I/O and changes neither
\* the sockets of the container nor where the thread is.
LEMMA OutsideKeepsStructure ==
  ASSUME Structure, TypeOK', IdentifiersSuffice',
         UNCHANGED <<sequencer, kind, acceptor, failures, consumer, failure, stage, row>>,
         \A i \in Identifiers :
           /\ kind[i] = "none" => peer'[i] = "none"
           /\ peer'[i] = "listening" <=> peer[i] = "listening"
           /\ backlog'[i] > 0 => kind[i] = "listening"
           /\ \A k \in Kinds : /\ io'[k][i] = "none" <=> io[k][i] = "none"
                               /\ io'[k][i] = "posted" => io[k][i] = "posted"
  PROVE  Structure'
<1>1. TypeOK /\ \A i \in Identifiers : backlog'[i] \in Nat
  BY ContainerAssumption DEF Structure, TypeOK
<1>2. \A k \in {"accept", "connect", "receive", "send"}, i \in Identifiers :
        /\ io'[k][i] = "none" <=> io[k][i] = "none"
        /\ io'[k][i] = "posted" => io[k][i] = "posted"
  BY DEF Kinds
<1>3. NotGenerated'
  BY <1>1 DEF Structure, NotGenerated, Blank
<1>4. SocketsMatch'
  <2>1. ASSUME NEW i \in Identifiers PROVE AcceptorListens(i)' /\ SocketMatches(i)'
    <3>1. AcceptorListens(i) /\ SocketMatches(i)
      BY DEF Structure, SocketsMatch
    <3>2. AcceptorListens(i)'
      BY <3>1 DEF AcceptorListens
    <3>3. SocketMatches(i)'
      BY <1>2, <3>1 DEF SocketMatches
    <3> QED BY <3>2, <3>3
  <2> QED BY <2>1 DEF SocketsMatch
<1>5. Position' /\ FailuresCounted' /\ StagesMatch'
  BY <1>2 DEF Structure, Position, FailuresCounted, Uncounted, ClientError, StagesMatch, StageMatches
<1>6. ListenersServed'
  <2>1. \A l \in Identifiers : InFlight(l)' = InFlight(l)
    BY <1>2 DEF InFlight
  <2>2. Unserved' = Unserved
    BY DEF Unserved
  <2> QED BY <2>1, <2>2 DEF Structure, ListenersServed
<1>7. ConnectionsServed'
  <2>1. Erasing' = Erasing
    BY DEF Erasing
  <2>2. ASSUME NEW i \in Identifiers, ConnectionServed(i) PROVE ConnectionServed(i)'
    BY <1>2, <2>2 DEF ConnectionServed
  <2> QED BY <2>1, <2>2 DEF Structure, ConnectionsServed
<1> QED BY <1>3, <1>4, <1>5, <1>6, <1>7 DEF Structure

\* The same holds after a step.
LEMMA NextCounts ==
  /\ IsFiniteSet(WaitingClients') /\ Cardinality(WaitingClients') \in Nat
  /\ IsFiniteSet(LiveAccepts') /\ Cardinality(LiveAccepts') \in Nat
<1>1. IsFiniteSet(Identifiers) /\ IsFiniteSet(1 .. MaxBacklog)
  BY FS_Interval, ContainerAssumption DEF Identifiers
<1>2. IsFiniteSet(Identifiers \X (1 .. MaxBacklog))
  BY <1>1, FS_Product
<1>3. WaitingClients' \subseteq Identifiers \X (1 .. MaxBacklog) /\ LiveAccepts' \subseteq Identifiers
  BY DEF WaitingClients, Completed, LiveAccepts
<1> QED BY <1>1, <1>2, <1>3, FS_Subset, FS_CardinalityType

\* No more clients wait and accepts are completed than before, or one more
\* for which identifiers were left.
LEMMA CountsSuffice ==
  ASSUME Structure, TypeOK', sequencer' = sequencer, Retry' = Retry,
         LET before == Cardinality(WaitingClients) + Cardinality(LiveAccepts)
             after  == Cardinality(WaitingClients') + Cardinality(LiveAccepts')
         IN  after <= before \/ (after = before + 1 /\ IdentifiersLeft(2))
  PROVE  IdentifiersSuffice'
<1> DEFINE w == Cardinality(WaitingClients)
           a == Cardinality(LiveAccepts)
           w1 == Cardinality(WaitingClients')
           a1 == Cardinality(LiveAccepts')
           r == Retry
<1>1. /\ w \in Nat /\ a \in Nat /\ w1 \in Nat /\ a1 \in Nat /\ r \in Nat
      /\ sequencer \in Nat /\ MaxSockets \in Nat
  <2>1. /\ w \in Nat /\ a \in Nat /\ sequencer \in Nat /\ MaxSockets \in Nat
    BY CountsAreNaturals DEF Structure
  <2>2. w1 \in Nat /\ a1 \in Nat
    BY NextCounts
  <2> QED BY <2>1, <2>2 DEF Retry
<1>2. sequencer + (2 * w + 2 * a + r) <= MaxSockets + 1
  BY DEF Structure, IdentifiersSuffice, Committed, Retry
<1>3. IdentifiersLeft(2) => sequencer + (2 * w + 2 * a + r) + 2 <= MaxSockets + 1
  BY EnoughReserved DEF Structure, Committed, Retry
<1>4. IdentifiersSuffice' <=> sequencer + (2 * w1 + 2 * a1 + r) <= MaxSockets + 1
  BY DEF IdentifiersSuffice, Committed, Retry
<1>5. w1 + a1 <= w + a \/ (w1 + a1 = w + a + 1 /\ IdentifiersLeft(2))
  OBVIOUS
<1> HIDE DEF w, a, w1, a1, r
<1> QED BY <1>1, <1>2, <1>3, <1>4, <1>5

\* The peer of a connected socket ends or resets the connection.
LEMMA PeerActsKeepsStructure ==
  ASSUME Structure, TypeOK', NEW i \in Identifiers, PeerActs(i)
  PROVE  Structure'
<1>1. TypeOK
  BY DEF Structure
<1>2. /\ UNCHANGED <<sequencer, kind, acceptor, failures, io, backlog, consumer, failure, stage, row>>
      /\ peer[i] \in {"established", "ended"} /\ peer'[i] \in {"ended", "reset"}
      /\ \A j \in Identifiers : j # i => peer'[j] = peer[j]
  BY <1>1 DEF PeerActs, TypeOK
<1>3. \A j \in Identifiers : SocketMatches(j)
  BY DEF Structure, SocketsMatch
<1>4. IdentifiersSuffice'
  BY <1>2 DEF Structure, IdentifiersSuffice, Committed, WaitingClients, LiveAccepts, Completed,
     Unserved
<1>5. \A j \in Identifiers :
           /\ kind[j] = "none" => peer'[j] = "none"
           /\ peer'[j] = "listening" <=> peer[j] = "listening"
           /\ backlog'[j] > 0 => kind[j] = "listening"
           /\ \A k \in Kinds : /\ io'[k][j] = "none" <=> io[k][j] = "none"
                               /\ io'[k][j] = "posted" => io[k][j] = "posted"
  BY <1>2, <1>3 DEF SocketMatches
<1> QED BY <1>2, <1>4, <1>5, OutsideKeepsStructure

\* One client more waits, or one less.
LEMMA WaitingGrows ==
  ASSUME TypeOK, NEW l \in Identifiers, backlog[l] < MaxBacklog,
         backlog' = [backlog EXCEPT ![l] = @ + 1]
  PROVE  Cardinality(WaitingClients') = Cardinality(WaitingClients) + 1
<1>1. /\ \A j \in Identifiers : backlog[j] \in Nat
      /\ backlog'[l] = backlog[l] + 1 /\ \A j \in Identifiers : j # l => backlog'[j] = backlog[j]
  BY ContainerAssumption DEF TypeOK
<1> DEFINE x == <<l, backlog[l] + 1>>
<1>2. x \in Identifiers \X (1 .. MaxBacklog)
  BY <1>1, ContainerAssumption
<1>3. x \notin WaitingClients
  BY <1>1 DEF WaitingClients
<1>4. WaitingClients' = WaitingClients \cup {x}
  <2>1. ASSUME NEW j \in Identifiers, NEW m \in 1 .. MaxBacklog
        PROVE  m <= backlog'[j] <=> m <= backlog[j] \/ (j = l /\ m = backlog[l] + 1)
    BY <1>1, ContainerAssumption
  <2>2. ASSUME NEW j \in Identifiers, NEW m \in 1 .. MaxBacklog
        PROVE  <<j, m>> \in WaitingClients' <=> <<j, m>> \in WaitingClients \cup {x}
    BY <2>1 DEF WaitingClients
  <2> HIDE DEF x
  <2>3. /\ WaitingClients' \subseteq Identifiers \X (1 .. MaxBacklog)
        /\ WaitingClients \cup {x} \subseteq Identifiers \X (1 .. MaxBacklog)
    BY <1>2 DEF WaitingClients
  <2>4. ASSUME NEW y \in Identifiers \X (1 .. MaxBacklog)
        PROVE  y \in WaitingClients' <=> y \in WaitingClients \cup {x}
    BY <2>2
  <2> QED BY <2>3, <2>4
<1> HIDE DEF x
<1> QED BY <1>3, <1>4, CountsAreNaturals, FS_AddElement

\* A client that is taken from a backlog waits no more.
LEMMA WaitingShrinks ==
  ASSUME TypeOK, NEW l \in Identifiers, backlog[l] > 0,
         backlog' = [backlog EXCEPT ![l] = @ - 1]
  PROVE  /\ Cardinality(WaitingClients') = Cardinality(WaitingClients) - 1
         /\ WaitingClients' \subseteq WaitingClients
<1>1. /\ \A j \in Identifiers : backlog[j] \in Nat /\ backlog[j] <= MaxBacklog
      /\ backlog'[l] = backlog[l] - 1 /\ \A j \in Identifiers : j # l => backlog'[j] = backlog[j]
  BY ContainerAssumption DEF TypeOK
<1> DEFINE x == <<l, backlog[l]>>
<1>2. x \in Identifiers \X (1 .. MaxBacklog)
  BY <1>1, ContainerAssumption
<1>3. x \in WaitingClients
  BY <1>1, <1>2 DEF WaitingClients
<1>4. WaitingClients' = WaitingClients \ {x}
  <2>1. ASSUME NEW j \in Identifiers, NEW m \in 1 .. MaxBacklog
        PROVE  m <= backlog'[j] <=> m <= backlog[j] /\ ~(j = l /\ m = backlog[l])
    BY <1>1, ContainerAssumption
  <2>2. ASSUME NEW j \in Identifiers, NEW m \in 1 .. MaxBacklog
        PROVE  <<j, m>> \in WaitingClients' <=> <<j, m>> \in WaitingClients \ {x}
    BY <2>1 DEF WaitingClients
  <2> HIDE DEF x
  <2>3. /\ WaitingClients' \subseteq Identifiers \X (1 .. MaxBacklog)
        /\ WaitingClients \subseteq Identifiers \X (1 .. MaxBacklog)
    BY DEF WaitingClients
  <2>4. ASSUME NEW y \in Identifiers \X (1 .. MaxBacklog)
        PROVE  y \in WaitingClients' <=> y \in WaitingClients \ {x}
    BY <2>2
  <2> QED BY <2>3, <2>4
<1> HIDE DEF x
<1> QED BY <1>3, <1>4, CountsAreNaturals, FS_RemoveElement

\* A client arrives.
LEMMA ClientArrivesKeepsStructure ==
  ASSUME Structure, TypeOK', NEW l \in Identifiers, ClientArrives(l)
  PROVE  Structure'
<1>1. TypeOK /\ SocketMatches(l)
  BY DEF Structure, SocketsMatch
<1>2. /\ UNCHANGED <<sequencer, kind, acceptor, failures, io, peer, consumer, failure, stage, row>>
      /\ kind[l] = "listening" /\ IdentifiersLeft(2) /\ backlog[l] < MaxBacklog
      /\ backlog' = [backlog EXCEPT ![l] = @ + 1]
      /\ \A j \in Identifiers : j # l => backlog'[j] = backlog[j]
  BY <1>1 DEF ClientArrives, TypeOK, SocketMatches
<1>3. Cardinality(WaitingClients') = Cardinality(WaitingClients) + 1
  BY <1>1, <1>2, WaitingGrows
<1>4. LiveAccepts' = LiveAccepts /\ Retry' = Retry
  BY <1>2 DEF LiveAccepts, Completed, Retry, Unserved
<1>5. IdentifiersSuffice'
  <2>1. Cardinality(WaitingClients) \in Nat /\ Cardinality(LiveAccepts) \in Nat
    BY <1>1, CountsAreNaturals
  <2>2. Cardinality(WaitingClients') + Cardinality(LiveAccepts')
          = Cardinality(WaitingClients) + Cardinality(LiveAccepts) + 1
    BY <1>3, <1>4, <2>1
  <2> QED BY <1>2, <1>4, <2>2, CountsSuffice
<1>6. \A j \in Identifiers :
           /\ kind[j] = "none" => peer'[j] = "none"
           /\ peer'[j] = "listening" <=> peer[j] = "listening"
           /\ backlog'[j] > 0 => kind[j] = "listening"
           /\ \A k \in Kinds : /\ io'[k][j] = "none" <=> io[k][j] = "none"
                               /\ io'[k][j] = "posted" => io[k][j] = "posted"
  BY <1>2 DEF Structure, SocketsMatch, SocketMatches
<1> QED BY <1>2, <1>5, <1>6, OutsideKeepsStructure

\* An I/O is completed.
LEMMA CompleteIoKeepsStructure ==
  ASSUME Structure, TypeOK', NEW k \in Kinds, NEW i \in Identifiers, CompleteIo(k, i)
  PROVE  Structure'
<1>1. TypeOK /\ io \in IoMaps /\ "accept" \in Kinds
      /\ \A j \in Identifiers : AcceptorListens(j) /\ SocketMatches(j) /\ backlog[j] \in Nat
  BY ContainerAssumption DEF Structure, SocketsMatch, TypeOK, Kinds
<1>2. PICK result \in Results(k, i) :
       /\ io' = IoWith(io, k, i, result)
       /\ peer' = IF k \in {"accept", "connect"} /\ result = "done"
                  THEN [peer EXCEPT ![i] = "established"] ELSE peer
       /\ backlog' = IF k = "accept" /\ result \in {"done", "client"}
                     THEN [backlog EXCEPT ![acceptor[i]] = @ - 1] ELSE backlog
  BY DEF CompleteIo, IoWith
<1>3. /\ io[k][i] = "posted"
      /\ UNCHANGED <<sequencer, kind, acceptor, failures, consumer, failure, stage, row>>
  BY DEF CompleteIo
<1>4. /\ result \in {"done", "client", "system", "end"}
      /\ k = "accept" => result \in {"done", "client", "system"}
      /\ k = "accept" /\ result \in {"done", "client"} => backlog[acceptor[i]] > 0
      /\ k = "accept" /\ result = "system" => IdentifiersLeft(2)
  BY <1>2 DEF Results, Kinds
<1>5. /\ io'[k][i] = result
      /\ \A h \in Kinds, j \in Identifiers : h # k \/ j # i => io'[h][j] = io[h][j]
  <2>1. io \in IoMaps /\ k \in Kinds /\ i \in Identifiers /\ result \in IoStates
        /\ io' = IoWith(io, k, i, result)
    BY <1>1, <1>2, <1>4 DEF IoStates
  <2> QED BY <2>1, IoSet
<1>6. k = "accept" => kind[i] = "pending" /\ acceptor[i] \in Identifiers
                      /\ kind[acceptor[i]] = "listening"
  BY <1>1, <1>3 DEF SocketMatches, TypeOK
<1>7. k = "connect" => kind[i] = "client"
  BY <1>1, <1>3 DEF SocketMatches
<1>8. \A j \in Identifiers :
           /\ kind[j] = "none" => peer'[j] = "none"
           /\ peer'[j] = "listening" <=> peer[j] = "listening"
           /\ backlog'[j] > 0 => kind[j] = "listening"
           /\ \A h \in Kinds : /\ io'[h][j] = "none" <=> io[h][j] = "none"
                               /\ io'[h][j] = "posted" => io[h][j] = "posted"
  <2>1. ASSUME NEW j \in Identifiers
        PROVE  /\ kind[j] = "none" => peer'[j] = "none"
               /\ peer'[j] = "listening" <=> peer[j] = "listening"
    BY <1>1, <1>2, <1>6, <1>7 DEF SocketMatches, TypeOK
  <2>2. ASSUME NEW j \in Identifiers, backlog'[j] > 0 PROVE kind[j] = "listening"
    BY <1>1, <1>2, <1>6, <2>2 DEF SocketMatches, TypeOK
  <2>3. ASSUME NEW j \in Identifiers, NEW h \in Kinds
        PROVE  /\ io'[h][j] = "none" <=> io[h][j] = "none"
               /\ io'[h][j] = "posted" => io[h][j] = "posted"
    BY <1>3, <1>4, <1>5
  <2> QED BY <2>1, <2>2, <2>3
<1>9. Retry' = Retry
  BY <1>3 DEF Retry, Unserved
<1>10. /\ Cardinality(WaitingClients) \in Nat /\ Cardinality(LiveAccepts) \in Nat
       /\ IsFiniteSet(LiveAccepts)
  BY <1>1, CountsAreNaturals
<1>11. IdentifiersSuffice'
  <2>1. CASE k # "accept"
    <3>1. \A j \in Identifiers : io'["accept"][j] = io["accept"][j]
      BY <1>1, <1>5, <2>1
    <3>2. LiveAccepts' = LiveAccepts /\ WaitingClients' = WaitingClients
      BY <1>2, <1>3, <2>1, <3>1 DEF LiveAccepts, Completed, WaitingClients
    <3> QED BY <1>3, <1>9, <1>10, <3>2, CountsSuffice
  <2>2. CASE k = "accept"
    <3>1. LiveAccepts' = LiveAccepts \cup {i} /\ i \notin LiveAccepts
      BY <1>1, <1>3, <1>4, <1>5, <1>6, <2>2 DEF LiveAccepts, Completed
    <3>2. Cardinality(LiveAccepts') = Cardinality(LiveAccepts) + 1
      BY <1>10, <3>1, FS_AddElement
    <3>3. CASE result \in {"done", "client"}
      <4>1. Cardinality(WaitingClients') = Cardinality(WaitingClients) - 1
        BY <1>1, <1>2, <1>4, <1>6, <2>2, <3>3, WaitingShrinks
      <4>2. Cardinality(WaitingClients') + Cardinality(LiveAccepts')
              <= Cardinality(WaitingClients) + Cardinality(LiveAccepts)
        BY <1>10, <3>2, <4>1
      <4> QED BY <1>3, <1>9, <4>2, CountsSuffice
    <3>4. CASE result = "system"
      <4>1. WaitingClients' = WaitingClients
        BY <1>2, <3>4 DEF WaitingClients
      <4>2. Cardinality(WaitingClients') + Cardinality(LiveAccepts')
              = Cardinality(WaitingClients) + Cardinality(LiveAccepts) + 1
        BY <1>10, <3>2, <4>1
      <4> QED BY <1>3, <1>4, <1>9, <2>2, <3>4, <4>2, CountsSuffice
    <3> QED BY <1>4, <2>2, <3>3, <3>4
  <2> QED BY <2>1, <2>2
<1> QED BY <1>3, <1>8, <1>11, OutsideKeepsStructure

-----------------------------------------------------------------------------
(* Packets that change nothing but the I/O of their socket.                *)

\* What is done at socket i: the socket keeps what it lives by, or the
\* operation fails; an accept that was completed fails for good.
Handled(i) ==
  /\ consumer = "idle" /\ ~Blank(i)
  /\ UNCHANGED <<sequencer, kind, acceptor, failures, peer, backlog, row>>
  /\ IoElsewhere(i) /\ io'["connect"][i] \in {io["connect"][i], "none"}
  /\ \A j \in Identifiers : j # i => stage'[j] = stage[j]
  /\ StageMatches(i)'
  /\ \/ UNCHANGED <<consumer, failure>> /\ ConnectionServed(i)'
     \/ consumer' = "failing" /\ failure'.socket = i
  /\ IF consumer' = "failing" /\ failure'.kind = "accept"
     THEN /\ ~failure'.rescheduled
          /\ io["accept"][i] \notin {"none", "posted"} /\ io'["accept"][i] = "none"
          /\ \A k \in Kinds \ {"accept"} : io'[k][i] = io[k][i]
     ELSE io'["accept"][i] = io["accept"][i] /\ kind[i] # "pending"

\* It keeps the structure.
LEMMA HandledKeepsStructure ==
  ASSUME Structure, TypeOK', NEW i \in Identifiers, Handled(i)
  PROVE  Structure'
<1> DEFINE fails == consumer' = "failing" /\ failure'.kind = "accept"
<1>1. /\ TypeOK /\ AcceptorListens(i) /\ SocketMatches(i)
      /\ "accept" \in Kinds /\ "connect" \in Kinds
      /\ consumer = "idle" /\ Erasing = NoIdentifier /\ Unserved = NoIdentifier
      /\ \A j \in Identifiers : j # NoIdentifier
  BY ContainerAssumption
     DEF Structure, SocketsMatch, Kinds, Handled, Erasing, Unserved, Identifiers, NoIdentifier
<1>2. UNCHANGED <<sequencer, kind, acceptor, failures, peer, backlog, row>>
  BY DEF Handled
<1>3. /\ \A j \in Identifiers : j # i => io'["accept"][j] = io["accept"][j]
      /\ IF fails THEN /\ io["accept"][i] \notin {"none", "posted"} /\ io'["accept"][i] = "none"
                       /\ io'["receive"][i] = io["receive"][i] /\ io'["send"][i] = io["send"][i]
                       /\ ~failure'.rescheduled
         ELSE io'["accept"][i] = io["accept"][i] /\ kind[i] # "pending"
      /\ \/ UNCHANGED <<consumer, failure>>
         \/ consumer' = "failing" /\ failure'.socket = i
  BY <1>1 DEF Handled, IoElsewhere, Kinds
<1>4. fails => failure'.socket = i /\ acceptor[i] \in Identifiers /\ Unserved' = acceptor[i]
  BY <1>1, <1>2, <1>3 DEF SocketMatches, Unserved, TypeOK
<1>5. ~fails => Unserved' = NoIdentifier
  BY <1>1, <1>3 DEF Unserved
<1>6. ASSUME NEW j \in Identifiers, j # i PROVE SameSocket(j)
  BY <1>2, <1>6 DEF Handled, IoElsewhere, SameSocket
<1> HIDE DEF fails
<1>7. NotGenerated'
  <2>1. ASSUME NEW j \in Identifiers, j >= sequencer' PROVE Untouched(j)
    <3>1. j >= sequencer /\ Blank(j) /\ (\A m \in Identifiers : acceptor[m] # j) /\ failure.socket # j
      BY <1>2, <2>1 DEF Structure, NotGenerated
    <3>2. j # i
      BY <3>1 DEF Handled
    <3> QED BY <1>2, <1>3, <1>6, <3>1, <3>2 DEF Untouched
  <2> QED BY <2>1, BlankKept
<1>8. InOrder(i)'
  <2>1. AcceptorListens(i)'
    BY <1>1, <1>2 DEF AcceptorListens
  <2>2. SocketMatches(i)'
    BY <1>1, <1>2, <1>3 DEF SocketMatches, Handled
  <2>3. i # Erasing' => ConnectionServed(i)'
    BY DEF Handled, Erasing
  <2> QED BY <2>1, <2>2, <2>3 DEF InOrder, Handled
<1>9. SocketsMatch' /\ ConnectionsServed' /\ StagesMatch'
  <2>1. \A j \in Identifiers : InOrder(j)'
    BY <1>1, <1>6, <1>8, SocketKept
  <2> QED BY <2>1, AllInOrder
<1>10. Position'
  <2>1. consumer' = "failing" => io'["accept"][i] # "posted"
    BY <1>1, <1>3 DEF SocketMatches
  <2> QED BY <1>1, <1>2, <1>3, <1>4, <2>1 DEF Position, fails
<1>11. FailuresCounted'
  BY <1>1, <1>2, <1>3 DEF Structure, FailuresCounted, Uncounted
<1>12. ListenersServed'
  <2>1. ASSUME NEW l \in Identifiers, kind'[l] = "listening"
        PROVE  IF l = Unserved' THEN InFlight(l)' = {}
               ELSE \E n \in Identifiers : InFlight(l)' = {n}
    <3>1. PICK n \in Identifiers : InFlight(l) = {n}
      BY <1>1, <1>2, <2>1 DEF Structure, ListenersServed
    <3>2. CASE fails /\ l = acceptor[i]
      <4>1. i \in InFlight(l)
        BY <1>3, <3>2 DEF InFlight
      <4>2. InFlight(l)' = {}
        BY <1>2, <1>3, <3>1, <3>2, <4>1 DEF InFlight
      <4> QED BY <1>4, <3>2, <4>2
    <3>3. CASE ~(fails /\ l = acceptor[i])
      <4>1. InFlight(l)' = InFlight(l)
        BY <1>2, <1>3, <3>3 DEF InFlight
      <4>2. l # Unserved'
        BY <1>1, <1>4, <1>5, <3>3
      <4> QED BY <3>1, <4>1, <4>2
    <3> QED BY <3>2, <3>3
  <2> QED BY <2>1 DEF ListenersServed
<1>13. IdentifiersSuffice'
  <2>1. LiveAccepts' \subseteq LiveAccepts /\ WaitingClients' = WaitingClients
    BY <1>2, <1>3 DEF LiveAccepts, Completed, WaitingClients
  <2>2. Retry = 0 /\ sequencer \in Nat
    BY <1>1, ContainerAssumption DEF Retry, TypeOK
  <2>3. CASE fails /\ kind[acceptor[i]] = "listening"
    <3>1. i \in LiveAccepts /\ i \notin LiveAccepts'
      BY <1>3, <2>3 DEF LiveAccepts, Completed
    <3>2. PICK r \in {0, 1} : r = Retry'
      BY DEF Retry
    <3>3. sequencer' + Retry' <= sequencer + Retry + 2
      <4>1. sequencer + r <= sequencer + 0 + 2
        BY <2>2
      <4> QED BY <1>2, <2>2, <3>2, <4>1
    <3>4. LiveAccepts' # LiveAccepts
      BY <3>1
    <3>5. WaitingClients' \subseteq WaitingClients
      BY <2>1
    <3> QED BY <1>1, <2>1, <3>3, <3>4, <3>5, StillSuffices DEF Structure
  <2>4. CASE ~(fails /\ kind[acceptor[i]] = "listening")
    <3>1. Retry' = 0
      BY <1>2, <1>4, <1>5, <2>4 DEF Retry
    <3>2. sequencer' + Retry' <= sequencer + Retry
      BY <1>2, <2>2, <3>1
    <3> QED BY <1>1, <2>1, <3>2, StillSuffices DEF Structure
  <2> QED BY <2>3, <2>4
<1> QED BY <1>7, <1>9, <1>10, <1>11, <1>12, <1>13 DEF Structure

\* A socket in the container, or with I/O, is not blank; and while the thread
\* is idle every socket has what it lives by, and users know of it.
LEMMA AtIdle ==
  ASSUME Structure, consumer = "idle", NEW i \in Identifiers
  PROVE  /\ TypeOK /\ io \in IoMaps
         /\ "accept" \in Kinds /\ "connect" \in Kinds /\ "receive" \in Kinds /\ "send" \in Kinds
         /\ AcceptorListens(i) /\ SocketMatches(i) /\ ConnectionServed(i) /\ StageMatches(i)
         /\ Blank(i) => kind[i] = "none" /\ \A k \in Kinds : io[k][i] = "none"
<1>1. i # Erasing
  BY ContainerAssumption DEF Erasing, Identifiers, NoIdentifier
<1> QED BY <1>1 DEF Structure, SocketsMatch, ConnectionsServed, StagesMatch, Blank, TypeOK, Kinds

\* Sends, and registrations that throw.
LEMMA SendHandled ==
  ASSUME Structure, NEW i \in Identifiers, Send(i)
  PROVE  Handled(i)
<1>1. consumer = "idle" /\ kind[i] # "none"
  BY DEF Send, Idle, Known
<1>2. /\ TypeOK /\ StageMatches(i) /\ ConnectionServed(i) /\ ~Blank(i)
      /\ "accept" \in Kinds \ {"send"} /\ "connect" \in Kinds \ {"send"}
      /\ "receive" \in Kinds \ {"send"}
  BY <1>1, AtIdle
<1>3. UNCHANGED <<sequencer, kind, acceptor, failures, peer, backlog, row, stage>>
  BY DEF Send
<1>4. /\ IoElsewhere(i) /\ io'["accept"][i] = io["accept"][i]
      /\ io'["connect"][i] = io["connect"][i] /\ io'["receive"][i] = io["receive"][i]
      /\ Proceeds(i, {"send"})
  BY <1>2, SendEffect
<1>5. StageMatches(i)' /\ ConnectionServed(i)'
  BY <1>2, <1>3, <1>4 DEF StageMatches, ConnectionServed
<1>6. kind[i] # "pending"
  BY DEF Send, Known
<1> QED BY <1>1, <1>2, <1>3, <1>4, <1>5, <1>6 DEF Handled, Proceeds

\* A registration that throws changes nothing but where the thread is.
LEMMA RegisterHandled ==
  ASSUME Structure, NEW i \in Identifiers, RegisterThrows(i)
  PROVE  Handled(i)
<1>1. consumer = "idle" /\ kind[i] # "none"
  BY DEF RegisterThrows, Idle, Known
<1>2. StageMatches(i) /\ ~Blank(i)
  BY <1>1, AtIdle
<1>3. /\ UNCHANGED <<sequencer, kind, acceptor, failures, peer, backlog, row, stage, io>>
      /\ kind[i] # "pending"
  BY DEF RegisterThrows, Known
<1>4. StageMatches(i)'
  BY <1>2, <1>3 DEF StageMatches
<1>5. consumer' = "failing" /\ failure'.socket = i /\ failure'.kind = "register"
  BY DEF RegisterThrows, Fail
<1> QED BY <1>1, <1>2, <1>3, <1>4, <1>5 DEF Handled, IoElsewhere

\* Packets with an error, and packets for a socket that is gone.
LEMMA PacketHandled ==
  ASSUME Structure, NEW k \in Kinds, NEW i \in Identifiers,
         Packet(k, i) \/ (k = "accept" /\ AcceptThrows(i))
  PROVE  Handled(i)
<1>1. /\ consumer = "idle" /\ io[k][i] \notin {"none", "posted"}
      /\ io' = IoWith(io, k, i, "none")
      /\ UNCHANGED <<sequencer, kind, acceptor, failures, peer, backlog, row, stage>>
      /\ \E c : Fail(k, i, c, FALSE)
  BY DEF Packet, PacketFailed, SocketNotFound, AcceptThrows, Accepting, Idle, IoWith
<1>2. /\ io \in IoMaps /\ StageMatches(i) /\ ~Blank(i) /\ SocketMatches(i)
      /\ "accept" \in Kinds /\ "connect" \in Kinds
  BY <1>1, AtIdle
<1>3. /\ io'[k][i] = "none"
      /\ \A h \in Kinds, j \in Identifiers : h # k \/ j # i => io'[h][j] = io[h][j]
  <2>1. "none" \in IoStates
    BY DEF IoStates
  <2> QED BY <1>1, <1>2, <2>1, IoSet
<1>4. consumer' = "failing" /\ failure'.socket = i /\ failure'.kind = k /\ ~failure'.rescheduled
  BY <1>1 DEF Fail
<1>5. StageMatches(i)'
  BY <1>1, <1>2 DEF StageMatches
<1>6. IoElsewhere(i) /\ io'["connect"][i] \in {io["connect"][i], "none"}
  BY <1>2, <1>3 DEF IoElsewhere
<1>7. IF k = "accept"
      THEN /\ io["accept"][i] \notin {"none", "posted"} /\ io'["accept"][i] = "none"
           /\ \A h \in Kinds \ {"accept"} : io'[h][i] = io[h][i]
      ELSE io'["accept"][i] = io["accept"][i] /\ kind[i] # "pending"
  BY <1>1, <1>2, <1>3 DEF SocketMatches, Kinds
<1> QED BY <1>1, <1>2, <1>4, <1>5, <1>6, <1>7 DEF Handled

\* Connections that are made, and bytes that come.
LEMMA ConnectedHandled ==
  ASSUME Structure, NEW i \in Identifiers, Connected(i)
  PROVE  Handled(i)
<1>1. consumer = "idle" /\ kind[i] # "none" /\ io["connect"][i] = "done"
  BY DEF Connected, Idle
<1>2. TypeOK /\ StageMatches(i) /\ ~Blank(i) /\ SocketMatches(i) /\ ConnectionServed(i)
  BY <1>1, AtIdle
<1>3. UNCHANGED <<sequencer, kind, acceptor, failures, peer, backlog, row>>
  BY DEF Connected
<1>4. /\ IoElsewhere(i) /\ io'["connect"][i] = "none" /\ io'["accept"][i] = io["accept"][i]
      /\ Proceeds(i, {"connect"})
      /\ consumer' # "failing" => io'["receive"][i] = "posted" /\ stage'[i] = "open"
      /\ stage' = stage \/ stage' = [stage EXCEPT ![i] = "open"]
  BY <1>2, ConnectedEffect
<1>5. kind[i] = "client"
  BY <1>1, <1>2 DEF SocketMatches
<1>6. /\ stage'[i] \in {stage[i], "open"}
      /\ \A j \in Identifiers : j # i => stage'[j] = stage[j]
  BY <1>2, <1>4 DEF TypeOK
<1>7. StageMatches(i)'
  BY <1>2, <1>3, <1>5, <1>6 DEF StageMatches
<1>8. consumer' # "failing" => ConnectionServed(i)'
  BY <1>3, <1>4, <1>5 DEF ConnectionServed
<1> QED BY <1>1, <1>2, <1>3, <1>4, <1>5, <1>6, <1>7, <1>8 DEF Handled, Proceeds

\* A receive is posted again, or the operation failed.
LEMMA ReceiveHandled ==
  ASSUME Structure, NEW i \in Identifiers, Receive(i)
  PROVE  Handled(i)
<1>1. consumer = "idle" /\ kind[i] # "none" /\ io["receive"][i] = "done"
  BY DEF Receive, Idle
<1>2. TypeOK /\ StageMatches(i) /\ ~Blank(i) /\ ConnectionServed(i)
  BY <1>1, AtIdle
<1>3. UNCHANGED <<sequencer, kind, acceptor, failures, peer, backlog, row, stage>>
  BY DEF Receive
<1>4. /\ IoElsewhere(i) /\ io'["connect"][i] = io["connect"][i]
      /\ io'["accept"][i] = io["accept"][i]
      /\ Proceeds(i, {"receive"})
      /\ consumer' # "failing" => io'["receive"][i] = "posted"
  BY <1>2, ReceiveEffect
<1>5. StageMatches(i)'
  BY <1>2, <1>3 DEF StageMatches
<1>6. consumer' # "failing" => ConnectionServed(i)'
  BY <1>1, <1>2, <1>3, <1>4 DEF ConnectionServed
<1>7. kind[i] # "pending"
  BY <1>1, AtIdle DEF SocketMatches
<1> QED BY <1>1, <1>2, <1>3, <1>4, <1>5, <1>6, <1>7 DEF Handled, Proceeds

\* A send that is done, with all its bytes or with fewer.
LEMMA SentHandled ==
  ASSUME Structure, NEW i \in Identifiers, Sent(i)
  PROVE  Handled(i)
<1>1. /\ consumer = "idle" /\ io["send"][i] = "done"
      /\ UNCHANGED <<sequencer, kind, acceptor, failures, peer, backlog, row, stage>>
      /\ \/ UNCHANGED <<consumer, failure>>
         \/ consumer' = "failing" /\ failure'.socket = i /\ failure'.kind = "send"
      /\ io' = IoWith(io, "send", i, "none")
  BY DEF Sent, ContinuesOr, Fail, Idle, IoWith
<1>2. /\ io \in IoMaps /\ StageMatches(i) /\ ~Blank(i) /\ ConnectionServed(i)
      /\ "accept" \in Kinds /\ "connect" \in Kinds /\ "receive" \in Kinds /\ "send" \in Kinds
  BY <1>1, AtIdle
<1>3. \A h \in Kinds, j \in Identifiers : h # "send" \/ j # i => io'[h][j] = io[h][j]
  <2>1. "none" \in IoStates
    BY DEF IoStates
  <2> QED BY <1>1, <1>2, <2>1, IoSet
<1>4. /\ IoElsewhere(i) /\ io'["connect"][i] = io["connect"][i]
      /\ io'["accept"][i] = io["accept"][i] /\ io'["receive"][i] = io["receive"][i]
  BY <1>2, <1>3 DEF IoElsewhere
<1>5. StageMatches(i)' /\ ConnectionServed(i)'
  BY <1>1, <1>2, <1>4 DEF StageMatches, ConnectionServed
<1>6. kind[i] # "pending"
  BY <1>1, AtIdle DEF SocketMatches
<1> QED BY <1>1, <1>2, <1>4, <1>5, <1>6 DEF Handled

-----------------------------------------------------------------------------
(* Sockets that are erased.                                                *)

\* What eraseSocket does, socket by socket.
LEMMA EraseEffect ==
  ASSUME TypeOK, NEW e \in Identifiers, NEW posted \in IoMaps, EraseSocket(e, posted)
  PROVE  /\ kind'[e] = "none" /\ peer'[e] = "none" /\ backlog'[e] = 0
         /\ kind[e] \in {"none", "pending"} => stage'[e] = stage[e]
         /\ kind[e] \notin {"none", "pending"} => stage'[e] \in {"lost", "closed"}
         /\ \A j \in Identifiers : j # e =>
              /\ kind'[j] = kind[j] /\ peer'[j] = peer[j] /\ backlog'[j] = backlog[j]
              /\ stage'[j] = stage[j]
         /\ \A k \in Kinds, j \in Identifiers :
              io'[k][j] = IF posted[k][j] = "posted" /\ e = (IF k = "accept" THEN acceptor[j] ELSE j)
                          THEN "aborted" ELSE posted[k][j]
<1>1. /\ kind[e] \in {"none", "pending"} => stage'[e] = stage[e]
      /\ kind[e] \notin {"none", "pending"} => stage'[e] \in {"lost", "closed"}
      /\ \A j \in Identifiers : j # e => stage'[j] = stage[j]
  BY DEF EraseSocket, TypeOK
<1>4. \A k \in Kinds, j \in Identifiers :
              io'[k][j] = IF posted[k][j] = "posted" /\ e = (IF k = "accept" THEN acceptor[j] ELSE j)
                          THEN "aborted" ELSE posted[k][j]
  BY DEF EraseSocket, Cancelled
<1> QED BY <1>1, <1>4 DEF EraseSocket, TypeOK

\* Erasing a socket that has no accept posted keeps the structure.
LEMMA EraseKeepsStructure ==
  ASSUME Structure, TypeOK', NEW e \in Identifiers, NEW posted \in IoMaps, EraseSocket(e, posted),
         \A k \in Kinds, j \in Identifiers : k # "receive" \/ j # e => posted[k][j] = io[k][j],
         io["accept"][e] # "posted", ~(e >= sequencer), acceptor' = acceptor,
         Erasing \in {e, NoIdentifier}, Erasing' = NoIdentifier, consumer # "stopped",
         \A l \in Identifiers : l # e /\ kind[l] = "listening" => (l = Unserved' <=> l = Unserved),
         \A i \in Identifiers : i >= sequencer' =>
           /\ i >= sequencer /\ failures'[i] = failures[i] /\ row'[i] = row[i] /\ failure'.socket # i,
         Position', FailuresCounted', sequencer' + Retry' <= sequencer + Retry
  PROVE  Structure'
<1>1. /\ TypeOK /\ \A j \in Identifiers : j # NoIdentifier
      /\ "accept" \in Kinds /\ "connect" \in Kinds /\ "receive" \in Kinds /\ "send" \in Kinds
  BY ContainerAssumption DEF Structure, Kinds, Identifiers, NoIdentifier
<1>2. /\ kind'[e] = "none" /\ peer'[e] = "none" /\ backlog'[e] = 0
      /\ kind[e] \in {"none", "pending"} => stage'[e] = stage[e]
      /\ kind[e] \notin {"none", "pending"} => stage'[e] \in {"lost", "closed"}
      /\ \A j \in Identifiers : j # e =>
           /\ kind'[j] = kind[j] /\ peer'[j] = peer[j] /\ backlog'[j] = backlog[j]
           /\ stage'[j] = stage[j]
      /\ \A k \in Kinds, j \in Identifiers :
           io'[k][j] = IF posted[k][j] = "posted" /\ e = (IF k = "accept" THEN acceptor[j] ELSE j)
                       THEN "aborted" ELSE posted[k][j]
  BY <1>1, EraseEffect
<1>3. \A j \in Identifiers :
        /\ AcceptorListens(j) /\ SocketMatches(j) /\ StageMatches(j)
        /\ j # e => ConnectionServed(j)
        /\ io["accept"][j] # "none" => acceptor[j] \in Identifiers
  BY <1>1 DEF Structure, SocketsMatch, StagesMatch, ConnectionsServed, SocketMatches, TypeOK
<1>4. \A j \in Identifiers :
        /\ io'["accept"][j] = IF io["accept"][j] = "posted" /\ acceptor[j] = e THEN "aborted"
                              ELSE io["accept"][j]
        /\ io'["connect"][j] = IF io["connect"][j] = "posted" /\ j = e THEN "aborted"
                               ELSE io["connect"][j]
        /\ io'["send"][j] = IF io["send"][j] = "posted" /\ j = e THEN "aborted" ELSE io["send"][j]
        /\ j # e => io'["receive"][j] = io["receive"][j]
  BY <1>1, <1>2
<1>5. NotGenerated'
  <2>1. ASSUME NEW i \in Identifiers, i >= sequencer' PROVE Untouched(i)
    <3>1. /\ i >= sequencer /\ failures'[i] = failures[i] /\ row'[i] = row[i] /\ failure'.socket # i
          /\ Blank(i) /\ i # e /\ \A j \in Identifiers : acceptor[j] # i
      BY <2>1 DEF Structure, NotGenerated
    <3>2. \A k \in Kinds : io'[k][i] = io[k][i]
      BY <1>2, <3>1 DEF Blank
    <3>3. SameSocket(i)
      BY <1>2, <3>1, <3>2 DEF SameSocket, Blank
    <3> QED BY <3>1, <3>3 DEF Untouched
  <2> QED BY <2>1, BlankKept
<1>6. ASSUME NEW j \in Identifiers PROVE InOrder(j)'
  <2>1. AcceptorListens(j)'
    <3>1. AcceptorListens(j) /\ (acceptor[j] # NoIdentifier => acceptor[j] \in Identifiers)
      BY <1>1, <1>3 DEF TypeOK
    <3>2. acceptor[j] # NoIdentifier => kind'[acceptor[j]] \in {"none", kind[acceptor[j]]}
      BY <1>2, <3>1
    <3>3. kind'[j] \in {"none", kind[j]}
      BY <1>2
    <3> QED BY <3>1, <3>2, <3>3 DEF AcceptorListens
  <2>2. SocketMatches(j)'
    <3>1. CASE j = e
      <4>1. io'["accept"][e] # "posted" /\ io'["connect"][e] # "posted"
            /\ (io'["accept"][e] # "none" => io["accept"][e] # "none")
            /\ (io'["connect"][e] # "none" => io["connect"][e] # "none")
        BY <1>4
      <4> QED BY <1>2, <1>3, <3>1, <4>1 DEF SocketMatches
    <3>2. CASE j # e
      <4>1. io'["accept"][j] = "posted" => kind'[acceptor[j]] = kind[acceptor[j]]
        BY <1>2, <1>3, <1>4
      <4> QED BY <1>2, <1>3, <1>4, <3>2, <4>1 DEF SocketMatches
    <3> QED BY <3>1, <3>2
  <2>3. StageMatches(j)'
    BY <1>2, <1>3 DEF StageMatches
  <2>4. ConnectionServed(j)'
    BY <1>2, <1>3, <1>4 DEF ConnectionServed
  <2> QED BY <2>1, <2>2, <2>3, <2>4 DEF InOrder
<1>7. SocketsMatch' /\ ConnectionsServed' /\ StagesMatch'
  BY <1>6, AllInOrder
<1>8. ListenersServed'
  <2>1. ASSUME NEW l \in Identifiers, kind'[l] = "listening"
        PROVE  IF l = Unserved' THEN InFlight(l)' = {}
               ELSE \E n \in Identifiers : InFlight(l)' = {n}
    <3>1. l # e /\ kind[l] = "listening"
      BY <1>2, <2>1
    <3>2. InFlight(l)' = InFlight(l)
      BY <1>4 DEF InFlight
    <3> QED BY <3>1, <3>2 DEF Structure, ListenersServed
  <2> QED BY <2>1 DEF ListenersServed
<1>9. IdentifiersSuffice'
  <2>1. LiveAccepts' \subseteq LiveAccepts
    <3>1. ASSUME NEW j \in LiveAccepts' PROVE j \in LiveAccepts
      <4>1. /\ j \in Identifiers /\ io'["accept"][j] \notin {"none", "posted"}
            /\ kind'[acceptor[j]] = "listening"
        BY <3>1 DEF LiveAccepts, Completed
      <4>2. acceptor[j] # e /\ io["accept"][j] = io'["accept"][j]
        BY <1>2, <1>4, <4>1
      <4>3. kind[acceptor[j]] = "listening"
        BY <1>2, <1>3, <4>1, <4>2
      <4> QED BY <4>1, <4>2, <4>3 DEF LiveAccepts, Completed
    <3> QED BY <3>1
  <2>2. WaitingClients' \subseteq WaitingClients
    <3>1. ASSUME NEW x \in WaitingClients' PROVE x \in WaitingClients
      <4>1. x \in Identifiers \X (1 .. MaxBacklog) /\ x[2] <= backlog'[x[1]]
        BY <3>1 DEF WaitingClients
      <4>2. x[1] \in Identifiers /\ x[2] \in Nat /\ x[2] >= 1
        BY <4>1, ContainerAssumption
      <4>3. x[1] # e
        BY <1>2, <4>1, <4>2
      <4> QED BY <1>2, <4>1, <4>2, <4>3 DEF WaitingClients
    <3> QED BY <3>1
  <2> QED BY <1>1, <2>1, <2>2, StillSuffices DEF Structure
<1> QED BY <1>5, <1>7, <1>8, <1>9 DEF Structure

\* A socket that its user closes, or whose peer ended the stream.
LEMMA CloseKeepsStructure ==
  ASSUME Structure, TypeOK', NEW i \in Identifiers, Close(i) \/ PeerEnded(i)
  PROVE  Structure'
<1>1. /\ consumer = "idle"
      /\ UNCHANGED <<sequencer, acceptor, failures, consumer, failure, row>>
  BY DEF Close, PeerEnded, Idle
<1>2. /\ TypeOK /\ io \in IoMaps /\ SocketMatches(i)
      /\ Blank(i) => kind[i] = "none" /\ \A k \in Kinds : io[k][i] = "none"
      /\ "receive" \in Kinds
  BY <1>1, AtIdle
<1>3. PICK posted \in IoMaps :
        /\ EraseSocket(i, posted)
        /\ \A k \in Kinds, j \in Identifiers : k # "receive" \/ j # i => posted[k][j] = io[k][j]
  <2>1. CASE Close(i)
    BY <1>2, <2>1 DEF Close
  <2>2. CASE PeerEnded(i)
    <3>1. "none" \in IoStates
      BY DEF IoStates
    <3>2. /\ IoWith(io, "receive", i, "none") \in IoMaps
          /\ \A k \in Kinds, j \in Identifiers :
               k # "receive" \/ j # i => IoWith(io, "receive", i, "none")[k][j] = io[k][j]
      BY <1>2, <3>1, IoSet
    <3>3. EraseSocket(i, IoWith(io, "receive", i, "none"))
      BY <2>2 DEF PeerEnded, IoWith
    <3> QED BY <3>2, <3>3
  <2> QED BY <2>1, <2>2
<1>4. ~Blank(i) /\ io["accept"][i] # "posted"
  BY <1>2 DEF Close, PeerEnded, Known, SocketMatches
<1>5. ~(i >= sequencer)
  BY <1>4 DEF Structure, NotGenerated
<1>6. /\ Erasing = NoIdentifier /\ Erasing' = NoIdentifier
      /\ Unserved = NoIdentifier /\ Unserved' = NoIdentifier /\ Retry = 0 /\ Retry' = 0
  BY <1>1 DEF Erasing, Unserved, Retry
<1>7. Position'
  BY <1>1 DEF Position
<1>8. FailuresCounted'
  <2>1. \A l \in Identifiers : kind'[l] = "listening" => kind[l] = "listening"
    BY <1>2, <1>3, EraseEffect
  <2>2. \A l \in Identifiers : Uncounted(l) = 0 /\ Uncounted(l)' = 0
    BY <1>1 DEF Uncounted
  <2> QED BY <1>1, <2>1, <2>2 DEF Structure, FailuresCounted
<1>9. \A j \in Identifiers : j >= sequencer' =>
        /\ j >= sequencer /\ failures'[j] = failures[j] /\ row'[j] = row[j] /\ failure'.socket # j
  BY <1>1 DEF Structure, NotGenerated
<1>10. sequencer' + Retry' <= sequencer + Retry
  BY <1>1, <1>2, <1>6, ContainerAssumption DEF TypeOK
<1> QED BY <1>1, <1>3, <1>4, <1>5, <1>6, <1>7, <1>8, <1>9, <1>10, EraseKeepsStructure

-----------------------------------------------------------------------------
(* onFailure.                                                              *)

\* What is known of the socket of the operation that failed, and of its
\* listening socket.
LEMMA AtFailure ==
  ASSUME Structure, consumer \in {"failing", "retrying"}
  PROVE  /\ TypeOK /\ io \in IoMaps /\ failure.socket \in Identifiers
         /\ ~(failure.socket >= sequencer)
         /\ failure.kind = "accept" =>
              /\ acceptor[failure.socket] \in Identifiers
              /\ acceptor[failure.socket] # failure.socket
              /\ acceptor[acceptor[failure.socket]] = NoIdentifier
              /\ kind[acceptor[failure.socket]] \in {"none", "listening"}
              /\ io["accept"][acceptor[failure.socket]] = "none"
              /\ ~(acceptor[failure.socket] >= sequencer)
<1>1. TypeOK /\ Position /\ NotGenerated /\ SocketsMatch
  BY DEF Structure
<1>2. failure.socket \in Identifiers
  BY <1>1 DEF Position
<1>3. failure.kind = "accept" => acceptor[failure.socket] \in Identifiers
  BY <1>1, <1>2 DEF Position, TypeOK
<1>4. \A j \in Identifiers : j # NoIdentifier
  BY ContainerAssumption DEF Identifiers, NoIdentifier
<1>5. failure.kind = "accept" =>
        /\ acceptor[acceptor[failure.socket]] = NoIdentifier
        /\ kind[acceptor[failure.socket]] \in {"none", "listening"}
  BY <1>1, <1>2, <1>3, <1>4 DEF SocketsMatch, AcceptorListens
<1>6. failure.kind = "accept" => io["accept"][acceptor[failure.socket]] = "none"
  BY <1>1, <1>3, <1>5 DEF SocketsMatch, SocketMatches
<1>7. ~(failure.socket >= sequencer)
      /\ (failure.kind = "accept" => ~(acceptor[failure.socket] >= sequencer))
  BY <1>1, <1>2, <1>3 DEF NotGenerated
<1> QED BY <1>1, <1>2, <1>3, <1>4, <1>5, <1>6, <1>7 DEF TypeOK

\* NoFailure is about no socket.
LEMMA ReturnEffect ==
  ASSUME Return
  PROVE  /\ consumer' = "idle" /\ Erasing' = NoIdentifier /\ Unserved' = NoIdentifier /\ Retry' = 0
         /\ Position' /\ \A l : Uncounted(l)' = 0
         /\ \A i \in Identifiers : failure'.socket # i
BY ContainerAssumption
   DEF Return, NoFailure, Erasing, Unserved, Retry, Position, Uncounted, Identifiers, NoIdentifier

\* The socket of the operation is erased, and an accept goes on to be retried.
LEMMA OnFailureKeepsStructure ==
  ASSUME Structure, TypeOK', OnFailure
  PROVE  Structure'
<1>1. PICK e \in Identifiers : e = failure.socket
  BY AtFailure DEF OnFailure
<1>2. /\ consumer = "failing" /\ EraseSocket(e, io)
      /\ UNCHANGED <<sequencer, acceptor, failures>>
  BY <1>1 DEF OnFailure
<1>3. /\ TypeOK /\ io \in IoMaps /\ ~(e >= sequencer)
      /\ failure.kind = "accept" =>
              /\ acceptor[e] \in Identifiers /\ acceptor[e] # e
              /\ kind[acceptor[e]] \in {"none", "listening"}
              /\ ~(acceptor[e] >= sequencer)
      /\ io["accept"][e] # "posted"
      /\ Erasing = e
  BY <1>1, <1>2, AtFailure DEF Structure, Position, Erasing
<1>4. \A l \in Identifiers :
        /\ kind'[l] = IF l = e THEN "none" ELSE kind[l]
        /\ kind'[l] = "listening" => kind[l] = "listening"
  BY <1>2, <1>3, EraseEffect
<1>5. \A j \in Identifiers : j >= sequencer' => j >= sequencer /\ failures'[j] = failures[j]
                                               /\ failure.socket # j
  BY <1>2 DEF Structure, NotGenerated
<1>6. \A l \in Identifiers : kind[l] = "listening" => row[l] = failures[l]
  BY <1>2 DEF Structure, FailuresCounted, Uncounted, TypeOK
<1>7. CASE Retries
  <2>1. /\ consumer' = "retrying" /\ UNCHANGED failure
        /\ row' = IF ClientError THEN row ELSE [row EXCEPT ![acceptor[e]] = @ + 1]
        /\ failure.kind = "accept" /\ ~failure.rescheduled /\ kind[acceptor[e]] = "listening"
    BY <1>1, <1>3, <1>7 DEF OnFailure, Retries
  <2>2. Erasing' = NoIdentifier /\ Unserved' = acceptor[e] /\ Unserved = acceptor[e]
    BY <1>1, <1>2, <2>1 DEF Erasing, Unserved
  <2>3. kind'[acceptor[e]] = "listening"
    BY <1>3, <1>4, <2>1
  <2>4. Position'
    BY <1>1, <1>2, <1>3, <2>1, <2>3, ContainerAssumption
       DEF Position, Identifiers, NoIdentifier
  <2>5. FailuresCounted'
    <3>1. ASSUME NEW l \in Identifiers, kind'[l] = "listening"
          PROVE  row'[l] = failures'[l] + Uncounted(l)'
      <4>1. row[l] = failures[l] /\ failures'[l] = failures[l] /\ failures[l] \in Nat
        BY <1>2, <1>3, <1>4, <1>6, <3>1 DEF TypeOK
      <4>2. Uncounted(l)' = IF acceptor[e] = l /\ ~ClientError THEN 1 ELSE 0
        BY <1>1, <1>2, <2>1 DEF Uncounted, ClientError
      <4>3. row'[l] = IF acceptor[e] = l /\ ~ClientError THEN row[l] + 1 ELSE row[l]
        BY <1>3, <2>1 DEF TypeOK
      <4> QED BY <4>1, <4>2, <4>3
    <3> QED BY <3>1 DEF FailuresCounted
  <2>6. \A j \in Identifiers : j >= sequencer' =>
          /\ j >= sequencer /\ failures'[j] = failures[j] /\ row'[j] = row[j] /\ failure'.socket # j
    <3>1. ASSUME NEW j \in Identifiers, j >= sequencer' PROVE row'[j] = row[j]
      <4>1. j # acceptor[e]
        BY <1>3, <1>5, <2>1, <3>1
      <4> QED BY <1>3, <2>1, <4>1 DEF TypeOK
    <3> QED BY <1>5, <2>1, <3>1
  <2>7. sequencer' + Retry' <= sequencer + Retry
    <3>1. Retry' = Retry
      BY <2>1, <2>2, <2>3 DEF Retry
    <3>2. sequencer \in Nat /\ Retry \in Nat
      BY <1>3, ContainerAssumption DEF TypeOK, Retry
    <3> QED BY <1>2, <3>1, <3>2
  <2> QED BY <1>2, <1>3, <2>2, <2>4, <2>5, <2>6, <2>7, EraseKeepsStructure
<1>8. CASE ~Retries
  <2>1. Return /\ row' = row
    BY <1>8 DEF OnFailure
  <2>2. /\ consumer' = "idle" /\ Erasing' = NoIdentifier /\ Unserved' = NoIdentifier /\ Retry' = 0
        /\ Position' /\ \A l \in Identifiers : Uncounted(l)' = 0
        /\ \A i \in Identifiers : failure'.socket # i
    BY <2>1, ReturnEffect
  <2>3. \A l \in Identifiers : kind[l] = "listening" => l # Unserved /\ l # NoIdentifier
    BY <1>1, <1>2, <1>3, <1>8, ContainerAssumption
       DEF Unserved, Retries, Identifiers, NoIdentifier
  <2>4. FailuresCounted'
    BY <1>2, <1>3, <1>4, <1>6, <2>1, <2>2 DEF FailuresCounted, TypeOK
  <2>5. sequencer' + Retry' <= sequencer + Retry
    <3>1. sequencer \in Nat /\ Retry \in Nat
      BY <1>3, ContainerAssumption DEF TypeOK, Retry
    <3> QED BY <1>2, <2>2, <3>1
  <2>6. \A j \in Identifiers : j >= sequencer' =>
          /\ j >= sequencer /\ failures'[j] = failures[j] /\ row'[j] = row[j] /\ failure'.socket # j
    BY <1>5, <2>1, <2>2
  <2>7. \A l \in Identifiers : l # e /\ kind[l] = "listening" => (l = Unserved' <=> l = Unserved)
    BY <2>2, <2>3
  <2> QED BY <1>2, <1>3, <2>2, <2>4, <2>5, <2>6, <2>7, EraseKeepsStructure
<1> QED BY <1>7, <1>8

\* The listening socket is erased at the limit, or because the accept could
\* not be posted again.
LEMMA GiveUpKeepsStructure ==
  ASSUME Structure, TypeOK', GiveUp \/ RetryFails
  PROVE  Structure'
<1>1. PICK e \in Identifiers :
        /\ e = acceptor[failure.socket] /\ kind[e] = "listening" /\ sequencer \in Identifiers
  BY RetryingHasIdentifier DEF GiveUp, RetryFails
<1>2. /\ consumer = "retrying" /\ EraseSocket(e, io) /\ Return
      /\ acceptor' = acceptor /\ row' = row
      /\ failures' = failures \/ failures' = [failures EXCEPT ![e] = Counted(e)]
      /\ sequencer' \in {sequencer, sequencer + 1}
  BY <1>1 DEF GiveUp, RetryFails
<1>3. TypeOK /\ io \in IoMaps /\ Position /\ e # NoIdentifier /\ sequencer \in Nat
  BY ContainerAssumption DEF Structure, TypeOK, Identifiers, NoIdentifier
<1>4. io["accept"][e] # "posted" /\ ~(e >= sequencer) /\ Erasing = NoIdentifier
  BY <1>1, <1>2, <1>3, AtFailure DEF Position, Erasing
<1>5. Unserved = e /\ Retry = 1
  BY <1>1, <1>2, <1>3 DEF Unserved, Retry
<1>6. /\ consumer' = "idle" /\ Erasing' = NoIdentifier /\ Unserved' = NoIdentifier /\ Retry' = 0
      /\ Position' /\ \A l \in Identifiers : Uncounted(l)' = 0
      /\ \A i \in Identifiers : failure'.socket # i
  BY <1>2, ReturnEffect
<1>7. \A l \in Identifiers : l # e => failures'[l] = failures[l]
  BY <1>2, <1>3 DEF TypeOK
<1>8. FailuresCounted'
  <2>1. ASSUME NEW l \in Identifiers, kind'[l] = "listening"
        PROVE  row'[l] = failures'[l] + Uncounted(l)'
    <3>1. l # e /\ kind[l] = "listening"
      BY <1>2, <1>3, <2>1, EraseEffect
    <3>2. Uncounted(l) = 0
      BY <1>1, <3>1 DEF Uncounted
    <3> QED BY <1>2, <1>6, <1>7, <3>1, <3>2 DEF Structure, FailuresCounted
  <2> QED BY <2>1 DEF FailuresCounted
<1>9. \A j \in Identifiers : j >= sequencer' =>
        /\ j >= sequencer /\ failures'[j] = failures[j] /\ row'[j] = row[j] /\ failure'.socket # j
  <2>1. \A j \in Identifiers : j >= sequencer' => j >= sequencer
    BY <1>2, <1>3 DEF Identifiers
  <2> QED BY <1>2, <1>4, <1>6, <1>7, <2>1
<1>10. sequencer' + Retry' <= sequencer + Retry
  <2>1. sequencer' = sequencer \/ sequencer' = sequencer + 1
    BY <1>2
  <2>2. sequencer + 0 <= sequencer + 1 /\ sequencer + 1 + 0 <= sequencer + 1
    BY <1>3
  <2> QED BY <1>5, <1>6, <2>1, <2>2
<1>11. \A l \in Identifiers : l # e /\ kind[l] = "listening" => (l = Unserved' <=> l = Unserved)
  BY <1>5, <1>6, ContainerAssumption DEF Identifiers, NoIdentifier
<1>12. \A k \in Kinds, j \in Identifiers : k # "receive" \/ j # e => io[k][j] = io[k][j]
  OBVIOUS
<1> QED BY <1>2, <1>3, <1>4, <1>6, <1>8, <1>9, <1>10, <1>11, <1>12, EraseKeepsStructure

-----------------------------------------------------------------------------
(* The next accept.                                                        *)

\* The next socket waits for a client of a listening socket, for the one
\* that was accepted, or for the one that is unserved.
LEMMA PendingKeepsStructure ==
  ASSUME Structure, TypeOK', NEW l \in Identifiers, NEW n \in Identifiers,
         NEW x \in Identifiers \cup {NoIdentifier},
         n = sequencer, kind[l] = "listening", sequencer' = sequencer + 1,
         acceptor' = [acceptor EXCEPT ![n] = l], backlog' = backlog,
         kind'[n] = "pending", peer'[n] = "fresh", stage'[n] = stage[n],
         io'["accept"][n] = "posted",
         \A k \in Kinds \ {"accept"} : io'[k][n] = io[k][n],
         \A j \in Identifiers \ {n, x} :
           /\ kind'[j] = kind[j] /\ peer'[j] = peer[j] /\ stage'[j] = stage[j]
           /\ \A k \in Kinds : io'[k][j] = io[k][j],
         IF x = NoIdentifier THEN Unserved = l
         ELSE /\ Unserved = NoIdentifier /\ acceptor[x] = l
              /\ io["accept"][x] = "done" /\ io'["accept"][x] = "none"
              /\ InOrder(x)' /\ kind'[x] # "listening",
         Unserved' = NoIdentifier, Erasing = NoIdentifier, consumer' # "stopped", Position', FailuresCounted',
         \A j \in Identifiers : j >= sequencer' =>
           failures'[j] = failures[j] /\ row'[j] = row[j] /\ failure'.socket # j
  PROVE  Structure'
<1>1. /\ TypeOK /\ \A j \in Identifiers : j # NoIdentifier
      /\ "accept" \in Kinds /\ "connect" \in Kinds /\ "receive" \in Kinds /\ "send" \in Kinds
      /\ sequencer \in Nat
  <2>1. TypeOK
    BY DEF Structure
  <2>2. sequencer \in Nat
    BY <2>1, ContainerAssumption DEF TypeOK
  <2> QED BY <2>1, <2>2 DEF Kinds, Identifiers, NoIdentifier
<1>2. /\ Blank(n) /\ \A j \in Identifiers : acceptor[j] # n
      /\ failure.socket # n
  <2>1. n >= sequencer
    BY <1>1
  <2> QED BY <2>1 DEF Structure, NotGenerated
<1>3. acceptor'[n] = l /\ \A j \in Identifiers : j # n => acceptor'[j] = acceptor[j]
  BY <1>1 DEF TypeOK
<1>4. \A j \in Identifiers : AcceptorListens(j) /\ SocketMatches(j)
  BY DEF Structure, SocketsMatch
<1>5. /\ kind[n] = "none" /\ peer[n] = "none" /\ stage[n] = "new" /\ backlog[n] = 0
      /\ \A k \in Kinds : io[k][n] = "none"
      /\ l # n /\ x # n /\ x # l /\ acceptor[l] = NoIdentifier
  BY <1>1, <1>2, <1>4 DEF Blank, AcceptorListens
<1>6. kind'[l] = "listening" /\ acceptor'[l] = NoIdentifier
  BY <1>1, <1>3, <1>5
<1>7. ASSUME NEW j \in Identifiers \ {n, x} PROVE SameSocket(j)
  <2>1. ASSUME acceptor[j] # NoIdentifier
        PROVE  /\ acceptor'[acceptor[j]] = acceptor[acceptor[j]]
               /\ kind'[acceptor[j]] = kind[acceptor[j]]
    <3>1. acceptor[j] \in Identifiers /\ acceptor[j] # n
      BY <1>1, <1>2, <2>1 DEF TypeOK
    <3>2. acceptor[acceptor[j]] = NoIdentifier
      BY <1>4, <2>1 DEF AcceptorListens
    <3>3. acceptor[j] # x
      BY <1>1, <3>1, <3>2
    <3> QED BY <1>3, <3>1, <3>3
  <2> QED BY <1>3, <2>1 DEF SameSocket
<1>8. InOrder(n)'
  <2>1. io'["connect"][n] = "none" /\ io'["receive"][n] = "none" /\ io'["send"][n] = "none"
    BY <1>1, <1>5
  <2>2. AcceptorListens(n)'
    BY <1>1, <1>3, <1>6 DEF AcceptorListens
  <2>3. SocketMatches(n)'
    BY <1>1, <1>3, <1>5, <1>6, <2>1 DEF SocketMatches
  <2>4. ConnectionServed(n)' /\ StageMatches(n)'
    BY <1>5 DEF ConnectionServed, StageMatches
  <2> QED BY <2>2, <2>3, <2>4 DEF InOrder
<1>9. SocketsMatch' /\ ConnectionsServed' /\ StagesMatch'
  <2>1. consumer # "stopped"
    BY <1>1 DEF Structure, Position
  <2>2. \A j \in Identifiers : InOrder(j)'
    BY <1>1, <1>7, <1>8, <2>1, SocketKept
  <2> QED BY <2>2, AllInOrder
<1>10. NotGenerated'
  <2>1. ASSUME NEW j \in Identifiers, j >= sequencer' PROVE Untouched(j)
    <3>1. j >= sequencer /\ j # n
      BY <1>1, <2>1 DEF Identifiers
    <3>2. Blank(j) /\ \A m \in Identifiers : acceptor[m] # j
      BY <3>1 DEF Structure, NotGenerated
    <3>3. j # l /\ j # x
      BY <1>1, <3>2 DEF Blank
    <3>4. \A m \in Identifiers : acceptor'[m] # j
      BY <1>3, <3>2, <3>3
    <3> QED BY <1>7, <2>1, <3>1, <3>3, <3>4 DEF Untouched
  <2> QED BY <2>1, BlankKept
<1>11. \A j \in Identifiers \ {n, x} : io'["accept"][j] = io["accept"][j]
  BY <1>1
<1>12. InFlight(l)' = {n}
  <2>1. ASSUME NEW j \in InFlight(l) PROVE j = x
    <3>1. CASE x = NoIdentifier
      BY <2>1, <3>1 DEF Structure, ListenersServed
    <3>2. CASE x # NoIdentifier
      <4>1. PICK m \in Identifiers : InFlight(l) = {m}
        BY <1>1, <3>2 DEF Structure, ListenersServed
      <4>2. x \in InFlight(l)
        BY <3>2 DEF InFlight
      <4> QED BY <2>1, <4>1, <4>2
    <3> QED BY <3>1, <3>2
  <2>2. ASSUME NEW j \in Identifiers, j # n, j # x PROVE j \notin InFlight(l)'
    BY <1>3, <1>11, <2>1, <2>2 DEF InFlight
  <2>3. x \notin InFlight(l)'
    BY <1>1 DEF InFlight
  <2>4. n \in InFlight(l)'
    BY <1>3 DEF InFlight
  <2>5. InFlight(l)' \subseteq Identifiers
    BY DEF InFlight
  <2> QED BY <2>2, <2>3, <2>4, <2>5
<1>13. ListenersServed'
  <2>1. ASSUME NEW h \in Identifiers, kind'[h] = "listening"
        PROVE  h # Unserved' /\ \E m \in Identifiers : InFlight(h)' = {m}
    <3>1. CASE h = l
      BY <1>1, <1>12, <3>1
    <3>2. CASE h # l
      <4>1. h # n /\ h # x /\ kind[h] = "listening"
        BY <1>1, <2>1
      <4>2. InFlight(h)' = InFlight(h)
        <5>1. acceptor[n] # h /\ acceptor'[n] # h
          BY <1>1, <1>2, <1>3, <3>2 DEF Blank
        <5>2. x \in Identifiers => acceptor[x] # h /\ acceptor'[x] # h
          BY <1>1, <1>3, <1>5, <3>2
        <5>3. ASSUME NEW j \in Identifiers PROVE j \in InFlight(h)' <=> j \in InFlight(h)
          <6>1. CASE j \in {n, x}
            BY <5>1, <5>2, <6>1 DEF InFlight
          <6>2. CASE j \notin {n, x}
            BY <1>3, <1>11, <6>2 DEF InFlight
          <6> QED BY <6>1, <6>2
        <5> QED BY <5>3 DEF InFlight
      <4>3. h # Unserved
        BY <1>1, <3>2
      <4> QED BY <1>1, <4>1, <4>2, <4>3 DEF Structure, ListenersServed
    <3> QED BY <3>1, <3>2
  <2> QED BY <2>1 DEF ListenersServed
<1>14. LiveAccepts' \subseteq LiveAccepts \ {x}
  <2>1. ASSUME NEW j \in LiveAccepts' PROVE j \in LiveAccepts \ {x}
    <3>1. j \in Identifiers /\ io'["accept"][j] \notin {"none", "posted"} /\ kind'[acceptor'[j]] = "listening"
      BY <2>1 DEF LiveAccepts, Completed
    <3>2. j # n /\ j # x
      BY <1>1, <3>1
    <3>3. io["accept"][j] = io'["accept"][j] /\ acceptor'[j] = acceptor[j]
      BY <1>3, <1>11, <3>1, <3>2
    <3>4. acceptor[j] \in Identifiers
      BY <1>1, <1>4, <3>1, <3>3 DEF SocketMatches, TypeOK
    <3>5. kind[acceptor[j]] = "listening"
      <4>1. acceptor[j] # n /\ kind'[acceptor[j]] = "listening"
        BY <1>2, <3>1, <3>3, <3>4
      <4>2. acceptor[j] # x
        BY <1>1, <3>4, <4>1
      <4> QED BY <3>4, <4>1, <4>2
    <3> QED BY <3>1, <3>2, <3>3, <3>5 DEF LiveAccepts, Completed
  <2> QED BY <2>1
<1>15. IdentifiersSuffice'
  <2>1. Retry' = 0 /\ WaitingClients' = WaitingClients
    BY DEF Retry, WaitingClients
  <2>2. CASE x = NoIdentifier
    <3>1. Retry = 1
      BY <1>1, <2>2 DEF Retry
    <3>2. sequencer' + Retry' <= sequencer + Retry
      BY <1>1, <2>1, <3>1
    <3> QED BY <1>1, <1>14, <2>1, <3>2, StillSuffices DEF Structure
  <2>3. CASE x # NoIdentifier
    <3>1. Retry = 0
      BY <2>3 DEF Retry
    <3>2. sequencer' + Retry' <= sequencer + Retry + 2
      BY <1>1, <2>1, <3>1
    <3>3. x \in LiveAccepts
      BY <2>3 DEF LiveAccepts, Completed
    <3>4. LiveAccepts' # LiveAccepts
      BY <1>14, <3>3
    <3> QED BY <1>1, <1>14, <2>1, <3>2, <3>4, StillSuffices DEF Structure
  <2> QED BY <2>2, <2>3
<1> QED BY <1>9, <1>10, <1>13, <1>15 DEF Structure

\* The accept that is tried again.
LEMMA RetryAcceptKeepsStructure ==
  ASSUME Structure, TypeOK', RetryAccept
  PROVE  Structure'
<1>1. PICK l \in Identifiers, n \in Identifiers :
        /\ l = acceptor[failure.socket] /\ kind[l] = "listening" /\ n = sequencer
        /\ failure.socket \in Identifiers
  BY RetryingHasIdentifier DEF RetryAccept
<1>2. /\ TypeOK /\ io \in IoMaps /\ "accept" \in Kinds /\ "posted" \in IoStates
      /\ consumer = "retrying" /\ Return
      /\ sequencer \in Nat /\ l # NoIdentifier
  <2>1. TypeOK /\ io \in IoMaps /\ sequencer \in Nat
    BY ContainerAssumption DEF Structure, TypeOK
  <2>2. l # NoIdentifier
    BY ContainerAssumption DEF Identifiers, NoIdentifier
  <2>3. consumer = "retrying" /\ Return
    BY DEF RetryAccept
  <2> QED BY <2>1, <2>2, <2>3 DEF Kinds, IoStates
<1>3. /\ sequencer' = sequencer + 1 /\ acceptor' = [acceptor EXCEPT ![n] = l]
      /\ kind' = [kind EXCEPT ![n] = "pending"] /\ peer' = [peer EXCEPT ![n] = "fresh"]
      /\ io' = IoWith(io, "accept", n, "posted")
      /\ failures' = [failures EXCEPT ![l] = Counted(l)]
      /\ UNCHANGED <<backlog, stage, row>>
  BY <1>1 DEF RetryAccept, Pending, IoWith
<1>4. /\ kind'[n] = "pending" /\ peer'[n] = "fresh" /\ stage'[n] = stage[n]
      /\ \A j \in Identifiers \ {n} : kind'[j] = kind[j] /\ peer'[j] = peer[j] /\ stage'[j] = stage[j]
      /\ failures'[l] = Counted(l)
      /\ \A j \in Identifiers \ {l} : failures'[j] = failures[j]
  BY <1>2, <1>3 DEF TypeOK
<1>5. /\ io'["accept"][n] = "posted"
      /\ \A k \in Kinds, j \in Identifiers : k # "accept" \/ j # n => io'[k][j] = io[k][j]
  BY <1>2, <1>3, IoSet
<1>6. Unserved = l /\ Erasing = NoIdentifier
  BY <1>1, <1>2 DEF Unserved, Erasing
<1>7. /\ consumer' = "idle" /\ Erasing' = NoIdentifier /\ Unserved' = NoIdentifier /\ Retry' = 0
      /\ Position' /\ \A j \in Identifiers : Uncounted(j)' = 0
      /\ \A i \in Identifiers : failure'.socket # i
  BY <1>2, ReturnEffect
<1>8. FailuresCounted'
  <2>1. ASSUME NEW j \in Identifiers, kind'[j] = "listening"
        PROVE  row'[j] = failures'[j] + Uncounted(j)'
    <3>1. kind[j] = "listening" /\ failures[j] \in Nat /\ failures'[j] \in Nat
      <4>1. failures[j] \in Nat /\ failures'[j] \in Nat
        BY <1>2, ContainerAssumption DEF TypeOK
      <4> QED BY <1>4, <2>1, <4>1
    <3>2. row[j] = failures[j] + Uncounted(j)
      BY <3>1 DEF Structure, FailuresCounted
    <3>3. Uncounted(j) = IF j = l /\ ~ClientError THEN 1 ELSE 0
      BY <1>1, <1>2 DEF Uncounted
    <3>4. j = l => row[j] = Counted(j)
      BY <3>2, <3>3 DEF Counted
    <3>5. row'[j] = failures'[j]
      BY <1>3, <1>4, <3>1, <3>2, <3>3, <3>4
    <3> QED BY <1>7, <3>1, <3>5
  <2> QED BY <2>1 DEF FailuresCounted
<1>9. \A j \in Identifiers : j >= sequencer' =>
        failures'[j] = failures[j] /\ row'[j] = row[j] /\ failure'.socket # j
  <2>1. ~(l >= sequencer)
    BY <1>1, <1>2 DEF Structure, NotGenerated
  <2>2. \A j \in Identifiers : j >= sequencer' => j # l
    BY <1>2, <1>3, <2>1 DEF Identifiers
  <2> QED BY <1>3, <1>4, <1>7, <2>2
<1>10. /\ \A k \in Kinds \ {"accept"} : io'[k][n] = io[k][n]
       /\ \A j \in Identifiers \ {n, NoIdentifier} :
            /\ kind'[j] = kind[j] /\ peer'[j] = peer[j] /\ stage'[j] = stage[j]
            /\ \A k \in Kinds : io'[k][j] = io[k][j]
  BY <1>4, <1>5
<1>11. backlog' = backlog /\ consumer' # "stopped"
  BY <1>3, <1>7
<1> QED BY <1>1, <1>3, <1>4, <1>5, <1>6, <1>7, <1>8, <1>9, <1>10, <1>11, PendingKeepsStructure

\* What is known of a socket whose accept was completed, and of its
\* listening socket.
LEMMA AtAccept ==
  ASSUME Structure, NEW i \in Identifiers, Accepting(i)
  PROVE  /\ TypeOK /\ io \in IoMaps /\ consumer = "idle" /\ sequencer \in Identifiers
         /\ acceptor[i] \in Identifiers /\ kind[acceptor[i]] = "listening"
         /\ i # sequencer /\ acceptor[i] # sequencer /\ acceptor[i] # i
         /\ kind[i] = "pending" /\ stage[i] = "new" /\ peer[i] # "listening"
         /\ \A k \in Kinds \ {"accept"} : io[k][i] = "none"
         /\ io["accept"][i] = "done" /\ i \in LiveAccepts
         /\ Erasing = NoIdentifier /\ Unserved = NoIdentifier
         /\ "accept" \in Kinds /\ "connect" \in Kinds /\ "receive" \in Kinds /\ "send" \in Kinds
<1>1. consumer = "idle" /\ io["accept"][i] = "done" /\ kind[i] # "none"
  BY DEF Accepting, Idle
<1>2. /\ i \in LiveAccepts /\ acceptor[i] \in Identifiers /\ kind[acceptor[i]] = "listening"
      /\ sequencer \in Identifiers
  BY AcceptingHasIdentifiers
<1>3. /\ TypeOK /\ io \in IoMaps /\ SocketMatches(i) /\ StageMatches(i) /\ AcceptorListens(i)
      /\ "accept" \in Kinds /\ "connect" \in Kinds /\ "receive" \in Kinds /\ "send" \in Kinds
  BY <1>1, AtIdle
<1>4. kind[i] = "pending" /\ stage[i] = "new" /\ peer[i] # "listening"
  BY <1>1, <1>3 DEF SocketMatches, StageMatches
<1>5. \A k \in Kinds \ {"accept"} : io[k][i] = "none"
  BY <1>1, <1>2, <1>3, <1>4, ContainerAssumption DEF SocketMatches, Kinds, Identifiers, NoIdentifier
<1>6. Blank(sequencer)
  <2>1. sequencer >= sequencer
    BY <1>2 DEF Identifiers
  <2> QED BY <1>2, <2>1 DEF Structure, NotGenerated
<1>7. i # sequencer /\ acceptor[i] # sequencer /\ acceptor[i] # i
  BY <1>2, <1>4, <1>6 DEF Blank
<1> QED BY <1>1, <1>2, <1>3, <1>4, <1>5, <1>7 DEF Erasing, Unserved

\* The count of failures is set back.
LEMMA SucceedsEffect ==
  ASSUME TypeOK, NEW l \in Identifiers, Succeeds(l)
  PROVE  /\ failures'[l] = 0 /\ row'[l] = 0
         /\ \A j \in Identifiers : j # l => failures'[j] = failures[j] /\ row'[j] = row[j]
BY DEF Succeeds, TypeOK

\* A client is accepted, whether or not its receive can be posted.
LEMMA AcceptKeepsStructure ==
  ASSUME Structure, TypeOK', NEW i \in Identifiers, Accept(i) \/ AcceptWithoutReceive(i)
  PROVE  Structure'
<1>1. Accepting(i) /\ Succeeds(acceptor[i]) /\ Pending(acceptor[i]) /\ backlog' = backlog
  BY DEF Accept, AcceptWithoutReceive
<1>2. PICK l \in Identifiers, n \in Identifiers :
        /\ l = acceptor[i] /\ kind[l] = "listening" /\ n = sequencer
        /\ TypeOK /\ io \in IoMaps /\ consumer = "idle"
        /\ i # n /\ l # n /\ l # i
        /\ kind[i] = "pending" /\ stage[i] = "new" /\ peer[i] # "listening"
        /\ \A k \in Kinds \ {"accept"} : io[k][i] = "none"
        /\ io["accept"][i] = "done"
        /\ Erasing = NoIdentifier /\ Unserved = NoIdentifier
        /\ "accept" \in Kinds /\ "connect" \in Kinds /\ "receive" \in Kinds /\ "send" \in Kinds
  BY <1>1, AtAccept
<1>3. sequencer' = sequencer + 1 /\ acceptor' = [acceptor EXCEPT ![n] = l]
  BY <1>1, <1>2 DEF Pending
<1>4. /\ kind'[n] = "pending" /\ peer'[n] = "fresh" /\ stage'[n] = stage[n]
      /\ \A j \in Identifiers \ {n, i} : kind'[j] = kind[j] /\ peer'[j] = peer[j] /\ stage'[j] = stage[j]
      /\ peer'[i] = peer[i]
      /\ \/ kind'[i] = "accepted" /\ stage'[i] = "open"
         \/ kind'[i] = "pending" /\ stage'[i] = "new"
  <2>1. peer' = [peer EXCEPT ![n] = "fresh"]
    BY <1>2 DEF Accept, AcceptWithoutReceive
  <2>2. CASE Accept(i)
    <3>1. kind' = [kind EXCEPT ![i] = "accepted", ![n] = "pending"] /\ stage' = [stage EXCEPT ![i] = "open"]
      BY <1>2, <2>2 DEF Accept
    <3> QED BY <1>2, <2>1, <3>1 DEF TypeOK
  <2>3. CASE AcceptWithoutReceive(i)
    <3>1. kind' = [kind EXCEPT ![n] = "pending"] /\ stage' = stage
      BY <1>2, <2>3 DEF AcceptWithoutReceive
    <3> QED BY <1>2, <2>1, <3>1 DEF TypeOK
  <2> QED BY <2>2, <2>3
<1>5. /\ io'["accept"][n] = "posted" /\ io'["accept"][i] = "none"
      /\ \A k \in Kinds \ {"accept"} : io'[k][n] = io[k][n]
      /\ \A k \in Kinds \ {"accept", "receive"} : io'[k][i] = io[k][i]
      /\ io'["receive"][i] = IF kind'[i] = "accepted" THEN "posted" ELSE "none"
      /\ \A j \in Identifiers \ {n, i}, k \in Kinds : io'[k][j] = io[k][j]
  <2>1. \A k \in {"connect", "send"} : io[k][i] = "none"
    BY <1>2
  <2>2. CASE Accept(i)
    <3>1. io' = [io EXCEPT !["accept"][i] = "none", !["accept"][n] = "posted", !["receive"][i] = "posted"]
      BY <1>2, <2>2 DEF Accept
    <3>2. kind'[i] = "accepted"
      BY <1>2, <2>2 DEF Accept, TypeOK
    <3> QED BY <1>2, <3>1, <3>2 DEF IoMaps
  <2>3. CASE AcceptWithoutReceive(i)
    <3>1. io' = [io EXCEPT !["accept"][i] = "none", !["accept"][n] = "posted"]
      BY <1>2, <2>3 DEF AcceptWithoutReceive
    <3>2. kind'[i] = "pending" /\ io["receive"][i] = "none"
      BY <1>2, <2>3 DEF AcceptWithoutReceive, TypeOK
    <3> QED BY <1>2, <3>1, <3>2 DEF IoMaps
  <2> QED BY <2>2, <2>3
<1>6. /\ \/ consumer' = "idle" /\ failure' = failure /\ kind'[i] = "accepted"
         \/ /\ consumer' = "failing" /\ failure'.socket = i
            /\ failure'.kind = "accept" /\ failure'.rescheduled
  <2>1. CASE Accept(i)
    BY <1>2, <2>1 DEF Accept, ContinuesOr, Fail, TypeOK
  <2>2. CASE AcceptWithoutReceive(i)
    BY <2>2 DEF AcceptWithoutReceive, Fail
  <2> QED BY <2>1, <2>2
<1>7. Unserved' = NoIdentifier /\ Erasing' \in {i, NoIdentifier} /\ (kind'[i] = "pending" => i = Erasing')
  BY <1>4, <1>6 DEF Unserved, Erasing
<1>8. acceptor'[i] = l /\ acceptor'[n] = l /\ acceptor'[l] = acceptor[l] /\ kind'[l] = "listening"
  BY <1>2, <1>3, <1>4 DEF TypeOK
<1>9. /\ AcceptorListens(i) /\ AcceptorListens(l) /\ SocketMatches(i)
      /\ l # NoIdentifier
  BY ContainerAssumption DEF Structure, SocketsMatch, Identifiers, NoIdentifier
<1>10. InOrder(i)'
  <2>1. AcceptorListens(i)'
    BY <1>2, <1>4, <1>8, <1>9 DEF AcceptorListens
  <2>2. io'["connect"][i] = "none" /\ io'["send"][i] = "none"
    BY <1>2, <1>5
  <2>3. backlog'[i] = 0
    <3>1. backlog[i] \in Nat
      BY <1>2, ContainerAssumption DEF TypeOK
    <3> QED BY <1>1, <1>2, <1>9, <3>1 DEF SocketMatches
  <2>4. SocketMatches(i)'
    BY <1>2, <1>4, <1>5, <2>2, <2>3 DEF SocketMatches
  <2>5. i # Erasing' => ConnectionServed(i)'
    BY <1>4, <1>5, <1>7 DEF ConnectionServed
  <2>6. StageMatches(i)'
    BY <1>4 DEF StageMatches
  <2> QED BY <2>1, <2>4, <2>5, <2>6 DEF InOrder
<1>11. Position'
  BY <1>2, <1>5, <1>6, <1>8, <1>9 DEF Position
<1>12. /\ failures'[l] = 0 /\ row'[l] = 0
       /\ \A j \in Identifiers : j # l => failures'[j] = failures[j] /\ row'[j] = row[j]
  BY <1>1, <1>2, SucceedsEffect
<1>13. FailuresCounted'
  <2>1. \A j \in Identifiers : Uncounted(j) = 0 /\ Uncounted(j)' = 0
    BY <1>2, <1>6 DEF Uncounted
  <2>2. \A j \in Identifiers : kind'[j] = "listening" => kind[j] = "listening"
    BY <1>4
  <2> QED BY <1>12, <2>1, <2>2 DEF Structure, FailuresCounted
<1>14. \A j \in Identifiers : j >= sequencer' =>
         failures'[j] = failures[j] /\ row'[j] = row[j] /\ failure'.socket # j
  <2>1. ASSUME NEW j \in Identifiers, j >= sequencer'
        PROVE  j # l /\ j # i /\ failure.socket # j
    <3>1. j >= sequencer
      BY <1>2, <1>3, <2>1 DEF Identifiers
    <3> QED BY <1>2, <3>1 DEF Structure, NotGenerated, Blank
  <2> QED BY <1>6, <1>12, <2>1
<1>15. \A j \in Identifiers \ {n, i} :
           /\ kind'[j] = kind[j] /\ peer'[j] = peer[j] /\ stage'[j] = stage[j]
           /\ \A k \in Kinds : io'[k][j] = io[k][j]
  BY <1>4, <1>5
<1>16. /\ consumer' # "stopped" /\ kind'[i] # "listening" /\ i # NoIdentifier
       /\ backlog' = backlog
  BY <1>1, <1>4, <1>6, ContainerAssumption DEF Identifiers, NoIdentifier
<1> QED BY <1>2, <1>3, <1>4, <1>5, <1>7, <1>10, <1>11, <1>13, <1>14, <1>15, <1>16,
           PendingKeepsStructure

\* A client is accepted, and the next accept cannot be posted.
LEMMA NotRescheduledKeepsStructure ==
  ASSUME Structure, TypeOK', NEW i \in Identifiers, AcceptNotRescheduled(i)
  PROVE  Structure'
<1>1. /\ Accepting(i) /\ Succeeds(acceptor[i]) /\ sequencer' = sequencer + 1
      /\ UNCHANGED <<kind, acceptor, peer, stage>>
      /\ io' = IoWith(io, "accept", i, "none")
  BY DEF AcceptNotRescheduled, IoWith
<1>2. PICK l \in Identifiers :
        /\ l = acceptor[i] /\ kind[l] = "listening" /\ TypeOK /\ io \in IoMaps /\ consumer = "idle"
        /\ l # i /\ kind[i] = "pending" /\ stage[i] = "new" /\ sequencer \in Identifiers
        /\ io["accept"][i] = "done" /\ i \in LiveAccepts
        /\ Erasing = NoIdentifier /\ Unserved = NoIdentifier
        /\ "accept" \in Kinds /\ "connect" \in Kinds /\ "receive" \in Kinds /\ "send" \in Kinds
  BY <1>1, AtAccept
<1>3. PICK code \in AcceptErrors(l) : Fail("accept", i, code, FALSE) /\ ClientLost(l, code)
  BY <1>2 DEF AcceptNotRescheduled
<1>4. /\ consumer' = "failing" /\ failure'.kind = "accept" /\ failure'.socket = i
      /\ ~failure'.rescheduled
  BY <1>3 DEF Fail
<1>5. /\ WaitingClients' \subseteq WaitingClients
      /\ \A j \in Identifiers : j # l => backlog'[j] = backlog[j]
  <2>1. CASE code = "client"
    <3>1. backlog[l] > 0 /\ backlog' = [backlog EXCEPT ![l] = @ - 1]
      BY <1>3, <2>1 DEF AcceptErrors, ClientLost
    <3> QED BY <1>2, <3>1, WaitingShrinks DEF TypeOK
  <2>2. CASE code # "client"
    BY <1>3, <2>2 DEF ClientLost, WaitingClients
  <2> QED BY <2>1, <2>2
<1>6. /\ io'["accept"][i] = "none"
      /\ \A k \in Kinds, j \in Identifiers : k # "accept" \/ j # i => io'[k][j] = io[k][j]
  <2>1. io \in IoMaps /\ "accept" \in Kinds /\ "none" \in IoStates /\ io' = IoWith(io, "accept", i, "none")
    BY <1>1, <1>2 DEF IoStates
  <2> QED BY <2>1, IoSet
<1>7. /\ failures'[l] = 0 /\ row'[l] = 0
      /\ \A j \in Identifiers : j # l => failures'[j] = failures[j] /\ row'[j] = row[j]
  BY <1>1, <1>2, SucceedsEffect
<1>8. Erasing' = i /\ Unserved' = l /\ l # NoIdentifier /\ i # NoIdentifier
  BY <1>1, <1>2, <1>4, ContainerAssumption DEF Erasing, Unserved, Identifiers, NoIdentifier
<1>9. \A j \in Identifiers \ {i, l} : SameSocket(j)
  BY <1>1, <1>5, <1>6 DEF SameSocket
<1>10. \A j \in Identifiers : AcceptorListens(j) /\ SocketMatches(j) /\ StageMatches(j)
  BY <1>2 DEF Structure, SocketsMatch, StagesMatch
<1>11. ASSUME NEW j \in {i, l} PROVE InOrder(j)'
  <2>1. j \in Identifiers
    OBVIOUS
  <2>2. AcceptorListens(j)'
    BY <1>1, <1>10, <2>1 DEF AcceptorListens
  <2>3. /\ io'["connect"][j] = io["connect"][j] /\ io'["receive"][j] = io["receive"][j]
        /\ io'["send"][j] = io["send"][j] /\ io'["accept"][j] \in {"none", io["accept"][j]}
    BY <1>2, <1>6, <2>1
  <2>4. backlog'[j] > 0 => kind'[j] = "listening"
    BY <1>1, <1>2, <1>5, <1>10, <2>1 DEF SocketMatches
  <2>5. SocketMatches(j)'
    BY <1>1, <1>10, <2>1, <2>3, <2>4 DEF SocketMatches
  <2>6. StageMatches(j)'
    BY <1>1, <1>10, <2>1 DEF StageMatches
  <2>7. j # Erasing' => ConnectionServed(j)'
    BY <1>1, <1>2, <1>8 DEF ConnectionServed
  <2> QED BY <2>2, <2>5, <2>6, <2>7 DEF InOrder
<1>12. SocketsMatch' /\ ConnectionsServed' /\ StagesMatch'
  <2>1. \A j \in Identifiers : j # NoIdentifier
    BY ContainerAssumption DEF Identifiers, NoIdentifier
  <2>2. \A j \in Identifiers : InOrder(j)'
    BY <1>2, <1>9, <1>11, <2>1, SocketKept
  <2> QED BY <2>2, AllInOrder
<1>13. NotGenerated'
  <2>1. ASSUME NEW j \in Identifiers, j >= sequencer' PROVE Untouched(j)
    <3>1. j >= sequencer
      BY <1>1, <1>2, <2>1 DEF Identifiers
    <3>2. Blank(j) /\ (\A m \in Identifiers : acceptor[m] # j) /\ failure.socket # j
      BY <3>1 DEF Structure, NotGenerated
    <3>3. j # l /\ j # i
      BY <1>2, <3>2 DEF Blank
    <3> QED BY <1>1, <1>4, <1>7, <1>9, <3>1, <3>2, <3>3 DEF Untouched
  <2> QED BY <2>1, BlankKept
<1>14. Position'
  BY <1>1, <1>2, <1>4, <1>6, <1>8 DEF Position
<1>15. FailuresCounted'
  <2>1. \A j \in Identifiers : Uncounted(j) = 0 /\ Uncounted(j)' = 0
    BY <1>2, <1>4 DEF Uncounted
  <2> QED BY <1>1, <1>7, <2>1 DEF Structure, FailuresCounted
<1>16. ListenersServed'
  <2>1. ASSUME NEW h \in Identifiers, kind'[h] = "listening"
        PROVE  IF h = l THEN InFlight(h)' = {}
               ELSE \E m \in Identifiers : InFlight(h)' = {m}
    <3>1. PICK m \in Identifiers : InFlight(h) = {m}
      BY <1>1, <1>2, <1>8, <2>1, ContainerAssumption
         DEF Structure, ListenersServed, Identifiers, NoIdentifier
    <3>2. \A j \in Identifiers : j # i => (j \in InFlight(h)' <=> j \in InFlight(h))
      BY <1>1, <1>2, <1>6 DEF InFlight
    <3>3. i \notin InFlight(h)' /\ InFlight(h)' \subseteq Identifiers
      BY <1>6 DEF InFlight
    <3>4. i \in InFlight(h) <=> h = l
      BY <1>2 DEF InFlight
    <3>5. CASE h = l
      <4>1. m = i
        BY <3>1, <3>4, <3>5
      <4> QED BY <3>1, <3>2, <3>3, <3>5, <4>1
    <3>6. CASE h # l
      <4>1. InFlight(h)' = {m}
        BY <3>1, <3>2, <3>3, <3>4, <3>6
      <4> QED BY <3>6, <4>1
    <3> QED BY <3>5, <3>6
  <2> QED BY <1>8, <2>1 DEF ListenersServed
<1>17. IdentifiersSuffice'
  <2>1. LiveAccepts' \subseteq LiveAccepts /\ i \notin LiveAccepts'
    <3>1. \A j \in Identifiers : j # i => io'["accept"][j] = io["accept"][j]
      BY <1>2, <1>6
    <3> QED BY <1>1, <1>6, <3>1 DEF LiveAccepts, Completed
  <2>2. Retry = 0 /\ Retry' = 1
    BY <1>1, <1>2, <1>8 DEF Retry
  <2>3. sequencer' + Retry' <= sequencer + Retry + 2
    <3>1. sequencer \in Nat /\ sequencer + 1 + 1 <= sequencer + 0 + 2
      BY <1>2, ContainerAssumption DEF TypeOK
    <3> QED BY <1>1, <2>2, <3>1
  <2>4. LiveAccepts' # LiveAccepts
    BY <1>2, <2>1
  <2> QED BY <1>2, <1>5, <2>1, <2>3, <2>4, StillSuffices DEF Structure
<1> QED BY <1>12, <1>13, <1>14, <1>15, <1>16, <1>17 DEF Structure

-----------------------------------------------------------------------------
(* The inductive invariant is one.                                         *)

\* It holds before anything was opened.
LEMMA StructureInit ==
  ASSUME Init
  PROVE  Structure
<1> USE ContainerAssumption
<1>1. TypeOK
  <2>1. NoFailure \in Failures
    BY DEF NoFailure, Failures
  <2>2. failures \in [Identifiers -> 0 .. MaxFailures - 1] /\ backlog \in [Identifiers -> 0 .. MaxBacklog]
    BY DEF Init
  <2>3. io \in IoMaps
    BY DEF Init, IoMaps
  <2>4. sequencer \in 1 .. MaxSockets + 1
    BY DEF Init
  <2> QED BY <2>1, <2>2, <2>3, <2>4 DEF Init, TypeOK, NoIdentifier
<1>2. \A i \in Identifiers : Blank(i)
  BY DEF Init, Blank
<1>3. \A i \in Identifiers : i # NoIdentifier
  BY DEF Identifiers, NoIdentifier
<1>4. "accept" \in Kinds /\ "connect" \in Kinds /\ "receive" \in Kinds /\ "send" \in Kinds
  BY DEF Kinds
<1>5. NotGenerated
  BY <1>2, <1>3 DEF NotGenerated, Init, NoFailure, Blank
<1>6. SocketsMatch
  BY <1>2, <1>4 DEF SocketsMatch, AcceptorListens, SocketMatches, Blank
<1>7. Position /\ ListenersServed /\ FailuresCounted
  BY <1>2 DEF Init, Position, ListenersServed, FailuresCounted, Blank
<1>8. ConnectionsServed /\ StagesMatch
  BY <1>2 DEF ConnectionsServed, ConnectionServed, StagesMatch, StageMatches, Blank
<1>9. IdentifiersSuffice
  <2>1. LiveAccepts = {}
    BY <1>2, <1>4 DEF LiveAccepts, Completed, Blank
  <2>2. WaitingClients = {}
    <3>1. ASSUME NEW x \in WaitingClients PROVE FALSE
      <4>1. x[1] \in Identifiers /\ x[2] \in Nat /\ x[2] >= 1 /\ x[2] <= backlog[x[1]]
        BY <3>1 DEF WaitingClients
      <4> QED BY <1>2, <4>1 DEF Blank
    <3> QED BY <3>1
  <2>3. Unserved = NoIdentifier /\ sequencer = 1
    BY DEF Unserved, Init
  <2>4. Cardinality({}) = 0
    BY FS_EmptySet
  <2> QED BY <2>1, <2>2, <2>3, <2>4 DEF IdentifiersSuffice, Committed
<1> QED BY <1>1, <1>5, <1>6, <1>7, <1>8, <1>9 DEF Structure

\* Every step keeps the structure.
LEMMA StructureStep ==
  ASSUME Structure, [Next]_vars
  PROVE  Structure'
<1>1. TypeOK'
  BY TypeStep
<1>2. CASE UNCHANGED vars
  BY <1>2 DEF vars, Structure, TypeOK, NotGenerated, Blank, SocketsMatch, AcceptorListens,
     SocketMatches, Position, ListenersServed, InFlight, Unserved, ConnectionsServed, Erasing,
     ConnectionServed, FailuresCounted, Uncounted, ClientError, StagesMatch, StageMatches,
     IdentifiersSuffice, Committed, LiveAccepts, Completed, WaitingClients
<1>3. CASE UserOperation
  <2>1. ASSUME NEW i \in Identifiers, Send(i) \/ RegisterThrows(i) \/ Close(i) PROVE Structure'
    BY <1>1, <2>1, SendHandled, RegisterHandled, HandledKeepsStructure, CloseKeepsStructure
  <2> QED BY <1>1, <1>3, <2>1, SpoilKeepsStructure, ConnectKeepsStructure, ListenKeepsStructure,
             AbortKeepsStructure DEF UserOperation
<1>4. CASE Failing
  BY <1>1, <1>4, OnFailureKeepsStructure, GiveUpKeepsStructure, RetryAcceptKeepsStructure
     DEF Failing
<1>5. ASSUME NEW i \in Identifiers,
             \/ ClientArrives(i) \/ PeerActs(i)
             \/ \E k \in Kinds : CompleteIo(k, i)
      PROVE  Structure'
  BY <1>1, <1>5, ClientArrivesKeepsStructure, PeerActsKeepsStructure, CompleteIoKeepsStructure
<1>6. ASSUME NEW i \in Identifiers, AcceptPacket(i) PROVE Structure'
  <2>1. CASE Packet("accept", i) \/ AcceptThrows(i)
    <3>1. "accept" \in Kinds
      BY DEF Kinds
    <3> QED BY <1>1, <2>1, <3>1, PacketHandled, HandledKeepsStructure
  <2> QED BY <1>1, <1>6, <2>1, NotRescheduledKeepsStructure, AcceptKeepsStructure DEF AcceptPacket
<1>7. ASSUME NEW i \in Identifiers, ConnectPacket(i) \/ ReceivePacket(i) \/ SendPacket(i)
      PROVE  Structure'
  <2>1. ASSUME NEW k \in Kinds, Packet(k, i) PROVE Structure'
    BY <1>1, <2>1, PacketHandled, HandledKeepsStructure
  <2>2. CASE Connected(i) \/ Receive(i) \/ Sent(i)
    BY <1>1, <2>2, ConnectedHandled, ReceiveHandled, SentHandled, HandledKeepsStructure
  <2>3. CASE PeerEnded(i)
    BY <1>1, <2>3, CloseKeepsStructure
  <2>4. "connect" \in Kinds /\ "receive" \in Kinds /\ "send" \in Kinds
    BY DEF Kinds
  <2> QED BY <1>7, <2>1, <2>2, <2>3, <2>4 DEF ConnectPacket, ReceivePacket, SendPacket, Packet
<1> QED BY <1>2, <1>3, <1>4, <1>5, <1>6, <1>7 DEF Next

\* The inductive invariant always holds.
THEOREM StructureInvariant == Spec => []Structure
<1> QED BY StructureInit, StructureStep, PTL DEF Spec

\* The values each variable may take.
THEOREM TypeCorrect == Spec => []TypeOK
<1>1. Structure => TypeOK
  BY DEF Structure
<1> QED BY <1>1, StructureInvariant, PTL

\* Between two packets every socket has the I/O it lives by, in flight or in
\* the port, whatever failed before.
THEOREM SocketsAlwaysServed == Spec => []EverySocketServed
<1>1. Structure => EverySocketServed
  <2> SUFFICES ASSUME Structure, consumer = "idle", NEW i \in Identifiers
               PROVE  /\ kind[i] = "listening" =>
                           \E n \in Identifiers :
                             {j \in Identifiers : acceptor[j] = i /\ io["accept"][j] # "none"} = {n}
                      /\ ConnectionServed(i)
    BY DEF EverySocketServed, ConnectionServed
  <2>1. Erasing = NoIdentifier /\ Unserved = NoIdentifier /\ i # NoIdentifier
    BY ContainerAssumption DEF Erasing, Unserved, Identifiers, NoIdentifier
  <2> QED BY <2>1 DEF Structure, ConnectionsServed, ListenersServed, InFlight
<1> QED BY <1>1, StructureInvariant, PTL

-----------------------------------------------------------------------------
(* A listening socket ends at the limit.                                   *)

\* While an accept is retried, a listening socket goes at the limit, or after
\* another accept could not be posted.
LEMMA RetryEndsAtLimit ==
  ASSUME Structure, [Next]_vars, consumer = "retrying",
         NEW l \in Identifiers, kind[l] = "listening", kind'[l] = "none"
  PROVE  row[l] >= MaxFailures \/ sequencer' = sequencer + 1
<1>1. PICK e \in Identifiers : e = acceptor[failure.socket]
  BY RetryingHasIdentifier
<1>2. CASE GiveUp
  <2>1. EraseSocket(e, io) /\ Counted(e) >= MaxFailures
    BY <1>1, <1>2 DEF GiveUp, Limit
  <2>2. l = e
    BY <2>1 DEF EraseSocket, Structure, TypeOK
  <2>3. row[e] = failures[e] + Uncounted(e) /\ failures[e] \in Nat
    BY <2>2, ContainerAssumption DEF Structure, FailuresCounted, TypeOK
  <2>4. Counted(e) = failures[e] + Uncounted(e)
    BY <1>1 DEF Counted, Uncounted
  <2> QED BY <2>1, <2>2, <2>3, <2>4
<1>3. CASE RetryAccept
  <2>1. kind' = [kind EXCEPT ![sequencer] = "pending"]
    BY <1>3 DEF RetryAccept
  <2> QED BY <2>1 DEF Structure, TypeOK
<1>4. CASE RetryFails
  BY <1>4 DEF RetryFails
<1>5. CASE UserOperation \/ OnFailure \/ UNCHANGED vars
  BY <1>5 DEF UserOperation, OpenFails, Listen, ListenRefused, ListenThrows, Connect, ConnectRefused,
     Opens, Abort, Send, RegisterThrows, Close, Idle, OnFailure, vars
<1>6. ASSUME NEW i \in Identifiers, ClientArrives(i) \/ PeerActs(i) \/ \E k \in Kinds : CompleteIo(k, i)
      PROVE  FALSE
  BY <1>6 DEF ClientArrives, PeerActs, CompleteIo
<1>7. ASSUME NEW i \in Identifiers,
             AcceptPacket(i) \/ ConnectPacket(i) \/ ReceivePacket(i) \/ SendPacket(i)
      PROVE  FALSE
  BY <1>7 DEF AcceptPacket, ConnectPacket, ReceivePacket, SendPacket, Packet, PacketFailed,
     SocketNotFound, AcceptThrows, AcceptNotRescheduled, AcceptWithoutReceive, Accept, Accepting,
     Connected, Receive, PeerEnded, Sent, Idle
<1> QED BY <1>2, <1>3, <1>4, <1>5, <1>6, <1>7 DEF Next, Failing

\* A listening socket goes on only while fewer accepts than the limit failed
\* in a row, not counting those that clients cause, and an accept that failed
\* ends it only at the limit, or when another accept could not be posted.
THEOREM AcceptsEndOnlyAtLimit == Spec => AcceptsEndAtLimit
<1>1. Structure /\ Structure' /\ [Next]_vars =>
        [\A l \in Identifiers :
           kind[l] = "listening" =>
             /\ kind'[l] = "listening" /\ consumer' = "idle" => row'[l] < MaxFailures
             /\ consumer = "retrying" /\ kind'[l] = "none" =>
                  row[l] >= MaxFailures \/ sequencer' = sequencer + 1]_vars
  <2> SUFFICES ASSUME Structure, Structure', [Next]_vars, NEW l \in Identifiers, kind[l] = "listening"
               PROVE  /\ kind'[l] = "listening" /\ consumer' = "idle" => row'[l] < MaxFailures
                      /\ consumer = "retrying" /\ kind'[l] = "none" =>
                           row[l] >= MaxFailures \/ sequencer' = sequencer + 1
    OBVIOUS
  <2>1. ASSUME kind'[l] = "listening", consumer' = "idle" PROVE row'[l] < MaxFailures
    <3>1. Uncounted(l)' = 0
      BY <2>1 DEF Uncounted
    <3>2. row'[l] = failures'[l] + Uncounted(l)' /\ failures'[l] \in 0 .. MaxFailures - 1
      BY <2>1 DEF Structure, FailuresCounted, TypeOK
    <3> QED BY <3>1, <3>2, ContainerAssumption
  <2> QED BY <2>1, RetryEndsAtLimit
<1> QED BY <1>1, StructureInvariant, PTL DEF Spec, AcceptsEndAtLimit

-----------------------------------------------------------------------------
(* Users see the sockets as SocketLifecycle says.                          *)

\* The listening socket of a socket, as far as users know of it.
Told == [i \in Identifiers |-> IF stage[i] = "new" THEN NoIdentifier ELSE acceptor[i]]

LifecycleStep == [Lifecycle!LifecycleNext]_(Lifecycle!lifecycleVars)

\* What the refinement mapping makes of the actions of SocketLifecycle.
LEMMA LifecycleActions ==
  ASSUME NEW i \in Identifiers,
         \/ Told' = Told /\ stage' = stage
         \/ /\ stage[i] = "new" /\ Told' = Told
            /\ \E v \in {"failed", "closed", "open", "opening"} : stage' = [stage EXCEPT ![i] = v]
         \/ /\ stage[i] = "opening" /\ Told' = Told
            /\ stage' = [stage EXCEPT ![i] = "open"]
         \/ /\ stage[i] \in {"opening", "open"} /\ Told' = Told
            /\ stage' = [stage EXCEPT ![i] = IF Told[i] = NoIdentifier \/ stage[Told[i]] = "open"
                                             THEN "closed" ELSE "lost"]
         \/ \E l \in Identifiers :
              /\ stage[i] = "new" /\ stage[l] = "open" /\ Told[l] = NoIdentifier
              /\ stage' = [stage EXCEPT ![i] = "open"]
              /\ Told' = [Told EXCEPT ![i] = l]
  PROVE  LifecycleStep
BY DEF LifecycleStep, Told, Lifecycle!LifecycleNext, Lifecycle!lifecycleVars, Lifecycle!Spoil,
       Lifecycle!Refuse, Lifecycle!Listen, Lifecycle!Connect, Lifecycle!Connected, Lifecycle!Close,
       Lifecycle!Announced, Lifecycle!Accept

\* A step that tells users nothing stutters, whatever it does to a socket that
\* they do not know of.
LEMMA SilentStep ==
  ASSUME stage' = stage, \A i \in Identifiers : stage[i] # "new" => acceptor'[i] = acceptor[i]
  PROVE  LifecycleStep
<1>1. Told' = Told
  BY DEF Told
<1> QED BY <1>1 DEF LifecycleStep, Told, Lifecycle!lifecycleVars

\* A socket that a user opens is announced, or its failure is.
LEMMA OpensStep ==
  ASSUME Structure, NEW call, NEW m \in {1, 2}, Opens(call, m),
         NEW v \in {"failed", "closed", "open", "opening"},
         stage' = [stage EXCEPT ![sequencer] = v],
         \/ acceptor' = acceptor
         \/ m = 2 /\ acceptor' = [acceptor EXCEPT ![sequencer + 1] = sequencer]
  PROVE  LifecycleStep
<1>1. PICK n \in Identifiers : n = sequencer /\ Blank(n)
  BY NextIdentifiers
<1>2. m = 2 => sequencer + 1 \in Identifiers /\ Blank(sequencer + 1)
  BY NextIdentifiers
<1>3. TypeOK /\ n # n + 1
  BY DEF Structure, Identifiers
<1>4. \A i \in Identifiers : (i # n /\ stage[i] # "new") => acceptor'[i] = acceptor[i]
  <2>1. m = 2 => \A i \in Identifiers : stage[i] # "new" => i # sequencer + 1
    BY <1>2 DEF Blank
  <2> QED BY <1>3, <2>1 DEF TypeOK
<1>5. acceptor'[n] = NoIdentifier /\ stage[n] = "new"
  BY <1>1, <1>2, <1>3 DEF TypeOK, Blank
<1>6. stage'[n] = v /\ \A i \in Identifiers : i # n => stage'[i] = stage[i]
  BY <1>1, <1>3 DEF TypeOK
<1>7. Told' = Told
  BY <1>4, <1>5, <1>6 DEF Told
<1> QED BY <1>1, <1>5, <1>7, LifecycleActions

\* The end of a socket is told as SocketLifecycle says: that of an accepted
\* one unless its listening socket is gone, that of a pending one never.
LEMMA CloseStep ==
  ASSUME Structure, consumer # "stopped", NEW e \in Identifiers, NEW posted, EraseSocket(e, posted),
         acceptor' = acceptor
  PROVE  LifecycleStep
<1>1. CASE kind[e] \in {"none", "pending"}
  BY <1>1, SilentStep DEF EraseSocket
<1>2. CASE kind[e] \notin {"none", "pending"}
  <2>1. /\ TypeOK /\ AcceptorListens(e)
        /\ \A i \in Identifiers : StageMatches(i)
    BY DEF Structure, SocketsMatch, StagesMatch
  <2>2. stage[e] \in {"opening", "open"}
    BY <1>2, <2>1 DEF StageMatches, TypeOK
  <2>3. stage' = [stage EXCEPT ![e] = IF Orphaned(e) THEN "lost" ELSE "closed"]
    BY <1>2 DEF EraseSocket
  <2>4. Told[e] = acceptor[e]
    BY <2>2 DEF Told
  <2>5. Orphaned(e) <=> ~ (Told[e] = NoIdentifier \/ stage[Told[e]] = "open")
    <3>1. CASE acceptor[e] = NoIdentifier
      BY <2>4, <3>1 DEF Orphaned
    <3>2. CASE acceptor[e] # NoIdentifier
      <4>1. acceptor[e] \in Identifiers /\ kind[acceptor[e]] \in {"none", "listening"}
        BY <2>1, <3>2 DEF TypeOK, AcceptorListens
      <4>2. kind[acceptor[e]] = "none" <=> stage[acceptor[e]] # "open"
        BY <2>1, <4>1 DEF StageMatches
      <4> QED BY <2>4, <3>2, <4>2 DEF Orphaned
    <3> QED BY <3>1, <3>2
  <2>6. \A i \in Identifiers : stage'[i] = "new" <=> stage[i] = "new"
    BY <2>1, <2>2, <2>3 DEF TypeOK
  <2>7. Told' = Told
    BY <2>6 DEF Told
  <2>8. stage' = [stage EXCEPT ![e] = IF Told[e] = NoIdentifier \/ stage[Told[e]] = "open"
                                      THEN "closed" ELSE "lost"]
    BY <2>3, <2>5
  <2> QED BY <2>2, <2>7, <2>8, LifecycleActions
<1> QED BY <1>1, <1>2

\* A client that came is told to the user once its socket is ready for it, and
\* the next socket that waits is not.
LEMMA AcceptStep ==
  ASSUME Structure, NEW i \in Identifiers, Accept(i) \/ AcceptWithoutReceive(i)
  PROVE  LifecycleStep
<1>1. PICK l \in Identifiers, n \in Identifiers :
        /\ l = acceptor[i] /\ kind[l] = "listening" /\ n = sequencer /\ consumer = "idle"
        /\ TypeOK /\ stage[i] = "new" /\ i # n /\ l # n /\ l # i
  <2>1. Accepting(i)
    BY DEF Accept, AcceptWithoutReceive
  <2> QED BY <2>1, AtAccept
<1>2. acceptor' = [acceptor EXCEPT ![n] = l] /\ stage[n] = "new"
  <2>1. n >= sequencer
    BY <1>1 DEF Identifiers
  <2>2. stage[n] = "new"
    BY <2>1 DEF Structure, NotGenerated, Blank
  <2> QED BY <1>1, <2>2 DEF Accept, AcceptWithoutReceive, Pending
<1>3. CASE AcceptWithoutReceive(i)
  <2>1. stage' = stage
    BY <1>3 DEF AcceptWithoutReceive
  <2> QED BY <1>1, <1>2, <2>1, SilentStep DEF TypeOK
<1>4. CASE Accept(i)
  <2>1. stage' = [stage EXCEPT ![i] = "open"]
    BY <1>4 DEF Accept
  <2>2. stage[l] = "open" /\ acceptor[l] = NoIdentifier
    BY <1>1, AtIdle DEF StageMatches, AcceptorListens
  <2>3. Told[l] = NoIdentifier
    BY <2>2 DEF Told
  <2>4. \A j \in Identifiers : Told'[j] = IF j = i THEN l ELSE Told[j]
    <3>1. \A j \in Identifiers \ {i, n} : stage'[j] = stage[j] /\ acceptor'[j] = acceptor[j]
      BY <1>1, <1>2, <2>1 DEF TypeOK
    <3>2. stage'[n] = "new" /\ stage'[i] = "open" /\ acceptor'[i] = l
      BY <1>1, <1>2, <2>1 DEF TypeOK
    <3> QED BY <1>1, <1>2, <3>1, <3>2 DEF Told
  <2>5. Told' = [Told EXCEPT ![i] = l]
    BY <2>4 DEF Told
  <2> QED BY <1>1, <2>1, <2>2, <2>3, <2>5, LifecycleActions
<1> QED BY <1>3, <1>4

\* That a connection was made is told to the user once.
LEMMA ConnectedStep ==
  ASSUME Structure, NEW i \in Identifiers, Connected(i)
  PROVE  LifecycleStep
<1>1. consumer = "idle" /\ io["connect"][i] = "done" /\ kind[i] # "none" /\ acceptor' = acceptor
  BY DEF Connected, Idle
<1>2. TypeOK /\ SocketMatches(i) /\ ConnectionServed(i)
  BY <1>1, AtIdle
<1>3. stage[i] = "opening"
  BY <1>1, <1>2 DEF SocketMatches, ConnectionServed
<1>4. CASE stage' = stage
  BY <1>1, <1>4, SilentStep
<1>5. CASE stage' = [stage EXCEPT ![i] = "open"]
  <2>1. \A j \in Identifiers : stage'[j] = "new" <=> stage[j] = "new"
    BY <1>2, <1>3, <1>5 DEF TypeOK
  <2>2. Told' = Told
    BY <1>1, <2>1 DEF Told
  <2> QED BY <1>3, <1>5, <2>2, LifecycleActions
<1> QED BY <1>4, <1>5 DEF Connected

\* Every step is a step of SocketLifecycle or a stutter.
LEMMA NextLifecycle ==
  ASSUME Structure, [Next]_vars
  PROVE  LifecycleStep
<1>1. CASE UserOperation
  <2>1. CASE OpenFails
    <3>1. PICK call \in {"listen", "connect"} : Opens(call, 1)
      BY <2>1 DEF OpenFails
    <3>2. stage' = [stage EXCEPT ![sequencer] = "failed"] /\ acceptor' = acceptor
      BY <2>1 DEF OpenFails
    <3> QED BY <3>1, <3>2, OpensStep
  <2>2. CASE Listen \/ ListenRefused \/ ListenThrows
    <3>1. /\ Opens("listen", 2)
          /\ \E v \in {"closed", "open"} : stage' = [stage EXCEPT ![sequencer] = v]
          /\ \/ acceptor' = acceptor
             \/ acceptor' = [acceptor EXCEPT ![sequencer + 1] = sequencer]
      BY <2>2 DEF Listen, ListenRefused, ListenThrows
    <3> QED BY <3>1, OpensStep
  <2>3. CASE Connect \/ ConnectRefused
    <3>1. /\ Opens("connect", 1) /\ acceptor' = acceptor
          /\ \E v \in {"closed", "opening"} : stage' = [stage EXCEPT ![sequencer] = v]
      BY <2>3 DEF Connect, ConnectRefused
    <3> QED BY <3>1, OpensStep
  <2>4. CASE Abort
    BY <2>4, SilentStep DEF Abort
  <2>5. ASSUME NEW i \in Identifiers, Send(i) \/ RegisterThrows(i) PROVE LifecycleStep
    BY <2>5, SilentStep DEF Send, RegisterThrows
  <2>6. ASSUME NEW i \in Identifiers, Close(i) PROVE LifecycleStep
    BY <2>6, CloseStep DEF Close, Idle
  <2> QED BY <1>1, <2>1, <2>2, <2>3, <2>4, <2>5, <2>6 DEF UserOperation
<1>2. CASE Failing
  <2>1. CASE OnFailure
    BY <2>1, AtFailure, CloseStep DEF OnFailure
  <2>2. CASE GiveUp \/ RetryFails
    BY <2>2, RetryingHasIdentifier, CloseStep DEF GiveUp, RetryFails
  <2>3. CASE RetryAccept
    <3>1. PICK n \in Identifiers : n = sequencer /\ Blank(n)
      BY <2>3, RetryingHasIdentifier DEF RetryAccept, Structure, NotGenerated, Identifiers
    <3>2. /\ stage' = stage /\ TypeOK
          /\ acceptor' = [acceptor EXCEPT ![n] = acceptor[failure.socket]]
      BY <2>3, <3>1 DEF RetryAccept, Pending, Structure
    <3> QED BY <3>1, <3>2, SilentStep DEF TypeOK, Blank
  <2> QED BY <1>2, <2>1, <2>2, <2>3 DEF Failing
<1>3. ASSUME NEW i \in Identifiers,
             ClientArrives(i) \/ PeerActs(i) \/ \E k \in Kinds : CompleteIo(k, i)
      PROVE  LifecycleStep
  BY <1>3, SilentStep DEF ClientArrives, PeerActs, CompleteIo
<1>4. ASSUME NEW i \in Identifiers,
             \/ \E k \in Kinds : PacketFailed(k, i) \/ SocketNotFound(k, i)
             \/ AcceptThrows(i) \/ AcceptNotRescheduled(i) \/ Receive(i) \/ Sent(i)
      PROVE  LifecycleStep
  BY <1>4, SilentStep
     DEF PacketFailed, SocketNotFound, AcceptThrows, AcceptNotRescheduled, Receive, Sent
<1>5. ASSUME NEW i \in Identifiers, PeerEnded(i) PROVE LifecycleStep
  BY <1>5, CloseStep DEF PeerEnded, Idle
<1>6. ASSUME NEW i \in Identifiers,
             AcceptPacket(i) \/ ConnectPacket(i) \/ ReceivePacket(i) \/ SendPacket(i)
      PROVE  LifecycleStep
  <2>1. "accept" \in Kinds /\ "connect" \in Kinds /\ "receive" \in Kinds /\ "send" \in Kinds
    BY DEF Kinds
  <2> QED BY <1>4, <1>5, <1>6, <2>1, AcceptStep, ConnectedStep
          DEF AcceptPacket, ConnectPacket, ReceivePacket, SendPacket, Packet
<1>7. CASE UNCHANGED vars
  BY <1>7, SilentStep DEF vars
<1> QED BY <1>1, <1>2, <1>3, <1>6, <1>7 DEF Next

\* The connection callback tells users of every socket what SocketLifecycle
\* allows, and nothing of a socket that waits for a client, or of the end of an
\* accepted one whose listening socket is gone.
THEOREM LifecycleImplemented == Spec => ImplementsLifecycle
<1>1. Init => Lifecycle!LifecycleInit
  BY DEF Init, Lifecycle!LifecycleInit
<1>2. Structure /\ [Next]_vars => [Lifecycle!LifecycleNext]_(Lifecycle!lifecycleVars)
  BY NextLifecycle DEF LifecycleStep
<1> QED BY <1>1, <1>2, StructureInvariant, PTL DEF Spec, ImplementsLifecycle, Lifecycle!LifecycleSpec
=============================================================================
