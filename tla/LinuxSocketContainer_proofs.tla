--------------------- MODULE LinuxSocketContainer_proofs ---------------------
(***************************************************************************)
(* Proofs, for every number of sockets, descriptors and bytes, that the    *)
(* maps of the container agree with the kernel, that the bytes of every    *)
(* socket reach the wire in order, that no edge-triggered event is used up *)
(* with work left, and that users see the sockets as SocketLifecycle says. *)
(***************************************************************************)
EXTENDS LinuxSocketContainer, QueueLemmas, FiniteSetTheorems

-----------------------------------------------------------------------------
(* The inductive invariant: the structure of the container.                *)

\* Every client that waits has an identifier left to be accepted with.
ClientsHaveIdentifiers == sequencer + Cardinality(WaitingClients) <= MaxSockets + 1

\* What the consumer thread is at.
Position ==
  /\ consumer = "waiting" => batch = <<>>
  /\ consumer = "accepting" => current \in Identifiers /\ type[current] = "listening"
  /\ consumer = "erasing" => current \in Identifiers /\ type[current] # "none"

\* A socket has a descriptor while it is in the container, and buffers only then.
Present(i) == type[i] # "none"
PresentHasDescriptor ==
  \A i \in Identifiers :
    IF Present(i) THEN descriptor[i] \in Descriptors
    ELSE descriptor[i] = NoDescriptor /\ outgoing[i] = <<>> /\ wire[i] = <<>>

\* An identifier that was not generated yet is nobody's.
NotGenerated ==
  \A i \in Identifiers :
    i >= sequencer =>
      /\ type[i] = "none" /\ stage[i] = "new" /\ listening[i] = NoIdentifier
      /\ \A j \in Identifiers : listening[j] # i

\* What the kernel says of the descriptor of a socket of each type.
KernelMatches(i) ==
  LET k == kernel[descriptor[i]] IN
  /\ type[i] = "listening" <=> k.state = "listening"
  /\ k.backlog > 0 => k.state = "listening"
  /\ k.input \/ k.end \/ k.space > 0 => k.state \in {"established", "reset"}
  /\ type[i] = "connecting" /\ k.state = "established" => k.space = MaxSpace

\* What each socket is subscribed to, and which have bytes left to send.
SubscriptionMatches(i) ==
  /\ type[i] = "listening" => interest[descriptor[i]] = {"in"} /\ outgoing[i] = <<>>
  /\ type[i] = "connecting" => interest[descriptor[i]] = {"out"} /\ outgoing[i] = <<>>
  /\ Connected(i) => "in" \in interest[descriptor[i]]
  /\ Connected(i) /\ outgoing[i] # <<>> /\ ~Broken(kernel[descriptor[i]])
       => "out" \in interest[descriptor[i]]

SocketsMatch == \A i \in Identifiers : Present(i) => KernelMatches(i) /\ SubscriptionMatches(i)

Structure ==
  /\ TypeOK
  /\ ClientsHaveIdentifiers
  /\ Position
  /\ PresentHasDescriptor
  /\ NotGenerated
  /\ MapsAgree
  /\ SocketsMatch

-----------------------------------------------------------------------------
(* The inductive invariant: events that are still to be handled.           *)

\* Something is going to look at the socket with one of these events.
Covered(i, events) ==
  \/ descriptor[i] \in ready
  \/ consumer \in {"accepting", "erasing"} /\ current = i
  \/ \E n \in DOMAIN batch :
       batch[n].descriptor = descriptor[i] /\ batch[n].events \cap events # {}

WorkCovered(i) ==
  LET k == kernel[descriptor[i]] IN
  /\ Broken(k) => Covered(i, {"err"})
  /\ type[i] # "connecting" /\ (k.backlog > 0 \/ k.input \/ k.end) => Covered(i, {"in", "err"})
  /\ type[i] = "connecting" /\ k.state = "established" => Covered(i, {"out", "err"})
  /\ outgoing[i] # <<>> /\ k.space > 0 => Covered(i, {"out", "err"})

EdgesCovered == \A i \in Identifiers : Present(i) => WorkCovered(i)

\* An event without an error in the batch is of a connection that was made,
\* unless it was reported for an earlier socket.
EventsMeanConnected ==
  \A i \in Identifiers \ reused, n \in DOMAIN batch :
    type[i] = "connecting" /\ batch[n].descriptor = descriptor[i] /\ "err" \notin batch[n].events
      => kernel[descriptor[i]].state \in {"established", "reset"}

-----------------------------------------------------------------------------
(* The inductive invariant: what users were told.                          *)
StageMatches ==
  \A i \in Identifiers :
    /\ Present(i) <=> stage[i] \in {"opening", "open"}
    /\ type[i] = "connecting" <=> stage[i] = "opening"
    /\ Present(i) => (type[i] = "accepted" <=> listening[i] # NoIdentifier)
    /\ listening[i] # NoIdentifier => type[listening[i]] \in {"none", "listening"}

-----------------------------------------------------------------------------
(* Facts about sets, descriptors and the kernel.                           *)

\* open(2) returns the lowest descriptor that is free, and there is one while
\* fewer than the limit are open.
LEMMA LowestFreeIsFree ==
  ASSUME FreeDescriptors # {}
  PROVE  LowestFree \in Descriptors /\ kernel[LowestFree].state = "free"
<1>1. FreeDescriptors \in SUBSET (1 .. MaxDescriptors) /\ MaxDescriptors \in Nat
  BY ContainerAssumption DEF FreeDescriptors, Descriptors
<1>2. \E f \in FreeDescriptors : \A g \in FreeDescriptors : f <= g
  BY <1>1, SmallestElement
<1>3. LowestFree \in FreeDescriptors
  BY <1>2 DEF LowestFree
<1> QED BY <1>3 DEF FreeDescriptors

\* The descriptor of a socket in the container is its own, and open.
LEMMA OwnsDescriptor ==
  ASSUME TypeOK, PresentHasDescriptor, MapsAgree, NEW i \in Identifiers, Present(i)
  PROVE  /\ descriptor[i] \in Descriptors
         /\ socketOf[descriptor[i]] = i
         /\ kernel[descriptor[i]] \in KernelStates
         /\ kernel[descriptor[i]].state # "free"
         /\ i # NoIdentifier
         /\ \A j \in Identifiers : Present(j) /\ descriptor[j] = descriptor[i] => j = i
<1>1. descriptor[i] \in Descriptors /\ i # NoIdentifier
  BY DEF PresentHasDescriptor, Identifiers, NoIdentifier
<1>2. socketOf[descriptor[i]] = i
  BY DEF MapsAgree, Present
<1>3. kernel[descriptor[i]] \in KernelStates
  BY <1>1 DEF TypeOK
<1>4. kernel[descriptor[i]].state # "free"
  BY <1>1, <1>2 DEF MapsAgree
<1>5. \A j \in Identifiers : Present(j) => socketOf[descriptor[j]] = j
  BY DEF MapsAgree, Present
<1> QED BY <1>1, <1>2, <1>3, <1>4, <1>5

\* A descriptor that is free belongs to nobody.
LEMMA FreeBelongsToNobody ==
  ASSUME TypeOK, PresentHasDescriptor, MapsAgree, NEW f \in Descriptors, kernel[f].state = "free"
  PROVE  /\ socketOf[f] = NoIdentifier
         /\ kernel[f] = Free
         /\ interest[f] = {}
         /\ f \notin ready
         /\ \A j \in Identifiers : Present(j) => descriptor[j] # f
<1>1. socketOf[f] = NoIdentifier
  BY DEF MapsAgree
<1>2. kernel[f] = Free /\ interest[f] = {} /\ f \notin ready
  BY <1>1 DEF MapsAgree
<1>3. ASSUME NEW j \in Identifiers, Present(j) PROVE descriptor[j] # f
  BY <1>3, OwnsDescriptor
<1> QED BY <1>1, <1>2, <1>3

\* What is true of a SOCKET that was just made.
LEMMA FreshState ==
  ASSUME NEW s \in {"listening", "connecting", "established", "failed"}
  PROVE  /\ Fresh(s) \in KernelStates
         /\ Fresh(s).state = s /\ Fresh(s).backlog = 0
         /\ Fresh(s).input = FALSE /\ Fresh(s).end = FALSE
         /\ Fresh(s).space = IF s = "established" THEN MaxSpace ELSE 0
<1>1. /\ Free \in KernelStates
      /\ Free.backlog = 0 /\ Free.input = FALSE /\ Free.end = FALSE
  BY ContainerAssumption DEF Free, KernelStates
<1>2. (IF s = "established" THEN MaxSpace ELSE 0) \in 0 .. MaxSpace
  BY ContainerAssumption
<1> QED BY <1>1, <1>2 DEF Fresh, KernelStates

\* What a step of the kernel makes of the state of a descriptor, and whom it
\* wakes.
KernelMoves(f, k) ==
  LET k0 == kernel[f] IN
  /\ ready \subseteq ready' /\ ready' \subseteq ready \cup {f}
  /\ k0.state # "free" /\ k.state # "free" /\ ~Broken(k0)
  /\ k0.state = "listening" <=> k.state = "listening"
  /\ k0.state \in {"established", "reset"} => k.state \in {"established", "reset"}
  /\ \/ k.backlog = 0 \/ k.backlog = k0.backlog
     \/ k.backlog = k0.backlog + 1 /\ k.state = "listening" /\ IdentifiersLeft
  /\ k.input \/ k.end \/ k.space > 0 =>
       \/ k.state \in {"established", "reset"}
       \/ (k0.input \/ k0.end \/ k0.space > 0) /\ k0.state \notin {"established", "reset"}
  /\ k.state = "established" =>
       k.space = MaxSpace \/ (k0.state = "established" /\ k.space = k0.space)
  /\ Broken(k) => f \in ready'
  /\ k.backlog > 0 \/ k.input \/ k.end =>
       \/ k0.backlog > 0 \/ k0.input \/ k0.end
       \/ "in" \in interest[f] => f \in ready'
  /\ k.state = "established" =>
       k0.state = "established" \/ ("out" \in interest[f] => f \in ready')
  /\ k.space > 0 => k0.space > 0 \/ ("out" \in interest[f] => f \in ready')

\* What a step of a peer does to the state of one SOCKET.
LEMMA KernelStepEffect ==
  ASSUME TypeOK, NEW f \in Descriptors, KernelStep(f)
  PROVE  \E k \in KernelStates :
           kernel' = [kernel EXCEPT ![f] = k] /\ KernelMoves(f, k)
<1> DEFINE k0 == kernel[f]
<1>1. /\ k0 = kernel[f]
      /\ k0 \in KernelStates
      /\ k0.backlog \in Nat /\ k0.space \in Nat
  BY ContainerAssumption DEF TypeOK, KernelStates
<1>2. ASSUME NEW k \in KernelStates, NEW e, Wake(f, k, e)
      PROVE  /\ kernel' = [kernel EXCEPT ![f] = k]
             /\ ready \subseteq ready' /\ ready' \subseteq ready \cup {f}
             /\ e = "err" => f \in ready'
             /\ e \in interest[f] => f \in ready'
  BY <1>2 DEF Wake
<1>3. PeerActs(f) \/ PeerReads(f) \/ ConnectionSettles(f)
  BY DEF KernelStep
<1> HIDE DEF k0
<1>4. CASE /\ k0.state = "listening" /\ k0.backlog < MaxBacklog /\ IdentifiersLeft
           /\ Wake(f, [k0 EXCEPT !.backlog = @ + 1], "in")
  <2> DEFINE k == [k0 EXCEPT !.backlog = @ + 1]
  <2>1. k \in KernelStates
    BY <1>1, <1>4, ContainerAssumption DEF KernelStates
  <2>2. /\ k.state = "listening" /\ k.backlog = k0.backlog + 1
        /\ k.input = k0.input /\ k.end = k0.end /\ k.space = k0.space
    BY <1>1, <1>4 DEF KernelStates
  <2>3. Wake(f, k, "in")
    BY <1>4
  <2> HIDE DEF k
  <2>4. KernelMoves(f, k)
    BY <1>1, <1>2, <1>4, <2>1, <2>2, <2>3 DEF KernelMoves, Broken
  <2> QED BY <1>2, <2>1, <2>3, <2>4
<1>5. CASE /\ k0.state = "established" /\ ~k0.input /\ ~k0.end
           /\ Wake(f, [k0 EXCEPT !.input = TRUE], "in")
  <2> DEFINE k == [k0 EXCEPT !.input = TRUE]
  <2>1. k \in KernelStates
    BY <1>1, <1>5, ContainerAssumption DEF KernelStates
  <2>2. k.state = "established" /\ k.backlog = k0.backlog /\ k.input /\ k.space = k0.space
    BY <1>1, <1>5 DEF KernelStates
  <2>3. Wake(f, k, "in")
    BY <1>5
  <2> HIDE DEF k
  <2>4. KernelMoves(f, k)
    BY <1>1, <1>2, <1>5, <2>1, <2>2, <2>3 DEF KernelMoves, Broken
  <2> QED BY <1>2, <2>1, <2>3, <2>4
<1>6. CASE /\ k0.state = "established" /\ ~k0.end
           /\ Wake(f, [k0 EXCEPT !.end = TRUE], "in")
  <2> DEFINE k == [k0 EXCEPT !.end = TRUE]
  <2>1. k \in KernelStates
    BY <1>1, <1>6, ContainerAssumption DEF KernelStates
  <2>2. k.state = "established" /\ k.backlog = k0.backlog /\ k.space = k0.space
    BY <1>1, <1>6 DEF KernelStates
  <2>3. Wake(f, k, "in")
    BY <1>6
  <2> HIDE DEF k
  <2>4. KernelMoves(f, k)
    BY <1>1, <1>2, <1>6, <2>1, <2>2, <2>3 DEF KernelMoves, Broken
  <2> QED BY <1>2, <2>1, <2>3, <2>4
<1>7. CASE /\ k0.state = "established"
           /\ Wake(f, [k0 EXCEPT !.state = "reset"], "err")
  <2> DEFINE k == [k0 EXCEPT !.state = "reset"]
  <2>1. k \in KernelStates
    BY <1>1, <1>7, ContainerAssumption DEF KernelStates
  <2>2. /\ k.state = "reset" /\ k.backlog = k0.backlog
        /\ k.input = k0.input /\ k.end = k0.end /\ k.space = k0.space
    BY <1>1, <1>7 DEF KernelStates
  <2>3. Wake(f, k, "err")
    BY <1>7
  <2> HIDE DEF k
  <2>4. KernelMoves(f, k)
    BY <1>1, <1>2, <1>7, <2>1, <2>2, <2>3 DEF KernelMoves, Broken
  <2> QED BY <1>2, <2>1, <2>3, <2>4
<1>8. CASE /\ k0.state = "established"
           /\ Wake(f, [k0 EXCEPT !.space = MaxSpace], "out")
  <2> DEFINE k == [k0 EXCEPT !.space = MaxSpace]
  <2>1. k \in KernelStates
    BY <1>1, <1>8, ContainerAssumption DEF KernelStates
  <2>2. /\ k.state = "established" /\ k.backlog = k0.backlog
        /\ k.input = k0.input /\ k.end = k0.end /\ k.space = MaxSpace
    BY <1>1, <1>8 DEF KernelStates
  <2>3. Wake(f, k, "out")
    BY <1>8
  <2> HIDE DEF k
  <2>4. KernelMoves(f, k)
    BY <1>1, <1>2, <1>8, <2>1, <2>2, <2>3 DEF KernelMoves, Broken
  <2> QED BY <1>2, <2>1, <2>3, <2>4
<1>9. CASE k0.state = "connecting" /\ Wake(f, Fresh("established"), "out")
  <2> DEFINE k == Fresh("established")
  <2>1. /\ k \in KernelStates
        /\ k.state = "established" /\ k.backlog = 0 /\ ~k.input /\ ~k.end
        /\ k.space = MaxSpace
    BY FreshState
  <2> HIDE DEF k
  <2>2. KernelMoves(f, k)
    BY <1>1, <1>2, <1>9, <2>1, ContainerAssumption DEF KernelMoves, Broken, k
  <2> QED BY <1>2, <1>9, <2>1, <2>2 DEF k
<1>10. CASE k0.state = "connecting" /\ Wake(f, Fresh("failed"), "err")
  <2> DEFINE k == Fresh("failed")
  <2>1. /\ k \in KernelStates
        /\ k.state = "failed" /\ k.backlog = 0 /\ ~k.input /\ ~k.end
        /\ k.space = 0
    BY FreshState
  <2> HIDE DEF k
  <2>2. KernelMoves(f, k)
    BY <1>1, <1>2, <1>10, <2>1, ContainerAssumption DEF KernelMoves, Broken, k
  <2> QED BY <1>2, <1>10, <2>1, <2>2 DEF k
<1> QED BY <1>1, <1>3, <1>4, <1>5, <1>6, <1>7, <1>8, <1>9, <1>10
         DEF PeerActs, PeerReads, ConnectionSettles

-----------------------------------------------------------------------------
(* Clients that wait: one more, one less, or none more.                    *)

\* The clients that wait are finitely many.
LEMMA WaitingIsFinite ==
  ASSUME NEW S \in SUBSET (Descriptors \X (1 .. MaxBacklog))
  PROVE  IsFiniteSet(S) /\ Cardinality(S) \in Nat
<1>1. IsFiniteSet(Descriptors) /\ IsFiniteSet(1 .. MaxBacklog)
  BY FS_Interval, ContainerAssumption DEF Descriptors
<1>2. IsFiniteSet(Descriptors \X (1 .. MaxBacklog))
  BY <1>1, FS_Product
<1> QED BY <1>2, FS_Subset, FS_CardinalityType

\* A client that is accepted is one client less that waits.
LEMMA WaitingShrinks ==
  ASSUME TypeOK, kernel' \in [Descriptors -> KernelStates],
         \A f \in Descriptors : kernel'[f].backlog <= kernel[f].backlog
  PROVE  /\ Cardinality(WaitingClients) \in Nat
         /\ Cardinality(WaitingClients') \in Nat
         /\ Cardinality(WaitingClients') <= Cardinality(WaitingClients)
<1>1. \A f \in Descriptors : kernel[f].backlog \in Nat /\ kernel'[f].backlog \in Nat
  BY ContainerAssumption DEF TypeOK, KernelStates
<1>2. WaitingClients' \subseteq WaitingClients
  <2>1. ASSUME NEW w \in WaitingClients' PROVE w \in WaitingClients
    <3>1. w[1] \in Descriptors /\ w[2] \in 1 .. MaxBacklog /\ w[2] <= kernel'[w[1]].backlog
      BY <2>1 DEF WaitingClients
    <3>2. w[2] <= kernel[w[1]].backlog
      BY <3>1, <1>1, ContainerAssumption
    <3> QED BY <2>1, <3>2 DEF WaitingClients
  <2> QED BY <2>1
<1>3. /\ WaitingClients \in SUBSET (Descriptors \X (1 .. MaxBacklog))
      /\ WaitingClients' \in SUBSET (Descriptors \X (1 .. MaxBacklog))
  BY DEF WaitingClients
<1>4. IsFiniteSet(WaitingClients) /\ Cardinality(WaitingClients) \in Nat
      /\ Cardinality(WaitingClients') \in Nat
  BY <1>3, WaitingIsFinite
<1> QED BY <1>2, <1>4, FS_Subset

\* A client that arrives is one client more that waits.
LEMMA WaitingGrows ==
  ASSUME TypeOK, NEW f \in Descriptors, NEW k \in KernelStates,
         kernel' = [kernel EXCEPT ![f] = k], k.backlog = kernel[f].backlog + 1
  PROVE  /\ Cardinality(WaitingClients) \in Nat
         /\ Cardinality(WaitingClients') = Cardinality(WaitingClients) + 1
<1> DEFINE w0 == <<f, k.backlog>>
<1>1. /\ \A g \in Descriptors : kernel[g].backlog \in Nat
      /\ kernel'[f] = k /\ \A g \in Descriptors : g # f => kernel'[g] = kernel[g]
      /\ k.backlog \in 1 .. MaxBacklog
  BY ContainerAssumption DEF TypeOK, KernelStates
<1>2. /\ w0 \in Descriptors \X (1 .. MaxBacklog)
      /\ w0 \notin WaitingClients /\ w0 \in WaitingClients'
  BY <1>1, ContainerAssumption DEF WaitingClients
<1>3. ASSUME NEW w \in Descriptors \X (1 .. MaxBacklog)
      PROVE  w \in WaitingClients' <=> w \in WaitingClients \cup {w0}
  <2>1. w[1] \in Descriptors /\ w[2] \in 1 .. MaxBacklog /\ w = <<w[1], w[2]>>
    OBVIOUS
  <2>2. CASE w[1] = f
    <3>1. w[2] <= k.backlog <=> w[2] <= kernel[f].backlog \/ w[2] = k.backlog
      BY <1>1, <2>1, ContainerAssumption
    <3> QED BY <1>1, <2>1, <2>2, <3>1 DEF WaitingClients
  <2>3. CASE w[1] # f
    BY <1>1, <2>1, <2>3 DEF WaitingClients
  <2> QED BY <2>2, <2>3
<1>4. WaitingClients' = WaitingClients \cup {w0}
  BY <1>2, <1>3 DEF WaitingClients
<1>5. IsFiniteSet(WaitingClients) /\ Cardinality(WaitingClients) \in Nat
  BY WaitingIsFinite DEF WaitingClients
<1> QED BY <1>2, <1>4, <1>5, FS_AddElement

\* Accepting takes a client away.
LEMMA WaitingAccepted ==
  ASSUME TypeOK, NEW f \in Descriptors, kernel[f].backlog > 0,
         kernel' \in [Descriptors -> KernelStates],
         \A g \in Descriptors : kernel'[g].backlog <= kernel[g].backlog,
         kernel'[f].backlog = kernel[f].backlog - 1
  PROVE  /\ Cardinality(WaitingClients) \in Nat /\ Cardinality(WaitingClients') \in Nat
         /\ Cardinality(WaitingClients') + 1 <= Cardinality(WaitingClients)
<1> DEFINE w0 == <<f, kernel[f].backlog>>
<1>1. \A g \in Descriptors : kernel[g].backlog \in 0 .. MaxBacklog /\ kernel'[g].backlog \in 0 .. MaxBacklog
  BY DEF TypeOK, KernelStates
<1>2. w0 \in WaitingClients /\ w0 \notin WaitingClients'
  BY <1>1, ContainerAssumption DEF WaitingClients
<1>3. WaitingClients' \subseteq WaitingClients \ {w0}
  <2>1. ASSUME NEW w \in WaitingClients' PROVE w \in WaitingClients
    <3>1. w[1] \in Descriptors /\ w[2] \in 1 .. MaxBacklog /\ w[2] <= kernel'[w[1]].backlog
      BY <2>1 DEF WaitingClients
    <3>2. w[2] <= kernel[w[1]].backlog
      BY <3>1, <1>1, ContainerAssumption
    <3> QED BY <2>1, <3>2 DEF WaitingClients
  <2> QED BY <2>1, <1>2
<1>4. /\ WaitingClients \in SUBSET (Descriptors \X (1 .. MaxBacklog))
      /\ WaitingClients' \in SUBSET (Descriptors \X (1 .. MaxBacklog))
  BY DEF WaitingClients
<1>5. IsFiniteSet(WaitingClients) /\ Cardinality(WaitingClients) \in Nat
      /\ Cardinality(WaitingClients') \in Nat
  BY <1>4, WaitingIsFinite
<1>6. /\ IsFiniteSet(WaitingClients \ {w0})
      /\ Cardinality(WaitingClients \ {w0}) = Cardinality(WaitingClients) - 1
  BY <1>2, <1>5, FS_RemoveElement
<1>7. Cardinality(WaitingClients') <= Cardinality(WaitingClients \ {w0})
  BY <1>3, <1>6, FS_Subset
<1> QED BY <1>5, <1>6, <1>7

-----------------------------------------------------------------------------
(* The structure of the container, kept by each kind of step.              *)

\* The peers keep the structure.
LEMMA KernelStepKeepsStructure ==
  ASSUME Structure, NEW f \in Descriptors, KernelStep(f)
  PROVE  Structure'
<1>1. /\ TypeOK /\ ClientsHaveIdentifiers /\ Position /\ PresentHasDescriptor
      /\ NotGenerated /\ MapsAgree /\ SocketsMatch
  BY DEF Structure
<1>2. PICK k \in KernelStates : kernel' = [kernel EXCEPT ![f] = k] /\ KernelMoves(f, k)
  BY <1>1, KernelStepEffect
<1>3. UNCHANGED <<sequencer, type, listening, descriptor, socketOf, stage, reused, interest,
                  outgoing, wire, written, batch, consumer, current, premature>>
  BY DEF KernelStep, container
<1>4. /\ kernel' \in [Descriptors -> KernelStates]
      /\ kernel'[f] = k
      /\ \A g \in Descriptors : g # f => kernel'[g] = kernel[g]
      /\ kernel[f] \in KernelStates
  BY <1>1, <1>2 DEF TypeOK
<1>5. /\ ready \subseteq ready' /\ ready' \subseteq ready \cup {f}
      /\ kernel[f].state # "free" /\ k.state # "free"
  BY <1>2 DEF KernelMoves
<1>6. TypeOK'
  BY <1>1, <1>3, <1>4, <1>5 DEF TypeOK
<1>7. ClientsHaveIdentifiers'
  <2>1. sequencer \in Nat
    BY <1>1, ContainerAssumption DEF TypeOK
  <2>2. CASE k.backlog = 0 \/ k.backlog = kernel[f].backlog
    <3>1. \A g \in Descriptors : kernel[g].backlog \in Nat
      BY <1>1, ContainerAssumption DEF TypeOK, KernelStates
    <3>2. \A g \in Descriptors : kernel'[g].backlog <= kernel[g].backlog
      BY <3>1, <2>2, <1>4
    <3>3. /\ Cardinality(WaitingClients) \in Nat /\ Cardinality(WaitingClients') \in Nat
          /\ Cardinality(WaitingClients') <= Cardinality(WaitingClients)
      BY <1>1, <1>4, <3>2, WaitingShrinks
    <3> QED BY <1>1, <1>3, <2>1, <3>3, ContainerAssumption DEF ClientsHaveIdentifiers
  <2>3. CASE k.backlog = kernel[f].backlog + 1 /\ IdentifiersLeft
    <3>1. /\ Cardinality(WaitingClients) \in Nat
          /\ Cardinality(WaitingClients') = Cardinality(WaitingClients) + 1
      BY <1>1, <1>2, <2>3, WaitingGrows
    <3> QED BY <1>3, <2>1, <2>3, <3>1, ContainerAssumption DEF ClientsHaveIdentifiers, IdentifiersLeft
  <2> QED BY <1>2, <2>2, <2>3 DEF KernelMoves
<1>8. Position' /\ PresentHasDescriptor' /\ NotGenerated'
  BY <1>1, <1>3 DEF Position, PresentHasDescriptor, NotGenerated, Present
<1>9. MapsAgree'
  <2>1. socketOf[f] # NoIdentifier
    BY <1>1, <1>5 DEF MapsAgree, Free
  <2> QED BY <1>1, <1>3, <1>4, <1>5, <2>1 DEF MapsAgree
<1>10. SocketsMatch'
  <2> SUFFICES ASSUME NEW i \in Identifiers, Present(i)
               PROVE  KernelMatches(i)' /\ SubscriptionMatches(i)'
    BY <1>3 DEF SocketsMatch, Present
  <2>1. descriptor[i] \in Descriptors /\ KernelMatches(i) /\ SubscriptionMatches(i)
    BY <1>1 DEF SocketsMatch, PresentHasDescriptor
  <2>2. CASE descriptor[i] # f
    BY <1>3, <1>4, <2>1, <2>2 DEF KernelMatches, SubscriptionMatches, Connected
  <2>3. CASE descriptor[i] = f
    <3> DEFINE k0 == kernel[f]
    <3>0. k0.backlog \in Nat /\ k0.space \in Nat /\ k.backlog \in Nat /\ k.space \in Nat
      BY <1>4, ContainerAssumption DEF KernelStates
    <3>1. KernelMatches(i)'
      BY <1>2, <1>3, <1>4, <2>1, <2>3, <3>0 DEF KernelMatches, KernelMoves
    <3>2. ~Broken(k0)
      BY <1>2 DEF KernelMoves
    <3>3. SubscriptionMatches(i)'
      BY <1>3, <1>4, <2>1, <2>3, <3>2 DEF SubscriptionMatches, Connected
    <3> QED BY <3>1, <3>3
  <2> QED BY <2>2, <2>3
<1> QED BY <1>6, <1>7, <1>8, <1>9, <1>10 DEF Structure

\* Steps that move the consumer thread and nothing else of the container.
LEMMA ControlKeepsStructure ==
  ASSUME Structure, Position',
         UNCHANGED <<container, interest, outgoing, wire, written, kernel, premature>>,
         ready' \subseteq ready, batch' \in Seq(BatchEvents),
         consumer' \in {"waiting", "handling", "tasks", "accepting", "erasing", "stopped"},
         current' \in Identifiers \cup {NoIdentifier}
  PROVE  Structure'
<1>1. /\ TypeOK /\ ClientsHaveIdentifiers /\ PresentHasDescriptor
      /\ NotGenerated /\ MapsAgree /\ SocketsMatch
  BY DEF Structure
<1>2. UNCHANGED <<sequencer, type, listening, descriptor, socketOf, stage, reused>>
  BY DEF container
<1>3. TypeOK'
  BY <1>1, <1>2 DEF TypeOK
<1>4. ClientsHaveIdentifiers'
  BY <1>1, <1>2 DEF ClientsHaveIdentifiers, WaitingClients
<1>5. PresentHasDescriptor' /\ NotGenerated' /\ MapsAgree'
  BY <1>1, <1>2 DEF PresentHasDescriptor, NotGenerated, MapsAgree, Present
<1>6. SocketsMatch'
  BY <1>1, <1>2 DEF SocketsMatch, Present, KernelMatches, SubscriptionMatches, Connected
<1> QED BY <1>3, <1>4, <1>5, <1>6 DEF Structure

\* EPOLL_CTL_ADD and EPOLL_CTL_MOD change interest and readiness, of one
\* descriptor.
LEMMA SubscribeEffect ==
  ASSUME TypeOK, NEW f \in Descriptors, NEW k \in KernelStates, NEW events \in SUBSET {"in", "out"},
         Subscribe(f, k, events)
  PROVE  /\ interest' \in [Descriptors -> SUBSET {"in", "out"}]
         /\ interest'[f] = events
         /\ \A g \in Descriptors : g # f => interest'[g] = interest[g]
         /\ ready \subseteq ready' /\ ready' \subseteq ready \cup {f} /\ ready' \subseteq Descriptors
         /\ Broken(k) => f \in ready'
         /\ "in" \in events /\ (k.backlog > 0 \/ k.input \/ k.end) => f \in ready'
         /\ "out" \in events /\ k.state = "established" /\ k.space > 0 => f \in ready'
<1>1. /\ Broken(k) => "err" \in Events(k, events)
      /\ "in" \in events /\ (k.backlog > 0 \/ k.input \/ k.end) => "in" \in Events(k, events)
      /\ "out" \in events /\ k.state = "established" /\ k.space > 0 => "out" \in Events(k, events)
  BY DEF Events
<1>2. ready' = IF Events(k, events) # {} THEN ready \cup {f} ELSE ready
  BY DEF Subscribe
<1>3. interest' = [interest EXCEPT ![f] = events]
  BY DEF Subscribe
<1>4. /\ interest' \in [Descriptors -> SUBSET {"in", "out"}]
      /\ interest'[f] = events
      /\ \A g \in Descriptors : g # f => interest'[g] = interest[g]
  BY <1>3 DEF TypeOK
<1>5. /\ ready \subseteq ready' /\ ready' \subseteq ready \cup {f} /\ ready' \subseteq Descriptors
      /\ Events(k, events) # {} => f \in ready'
  BY <1>2 DEF TypeOK
<1> QED BY <1>1, <1>4, <1>5

\* The new sockets of listen, connect and accept.  The last takes a client
\* from the listening socket before.
NewSocket(socketType, k, events) ==
  /\ k \in KernelStates
  /\ k.backlog = 0 /\ ~k.input /\ ~k.end
  /\ \/ socketType = "listening" /\ k.state = "listening" /\ events = {"in"} /\ k.space = 0
     \/ socketType = "connecting" /\ k.state = "connecting" /\ events = {"out"} /\ k.space = 0
     \/ socketType = "connecting" /\ k.state = "established" /\ events = {"out"} /\ k.space = MaxSpace
     \/ socketType = "accepted" /\ k.state = "established" /\ events = {"in"} /\ k.space = MaxSpace

SameButBacklog(k0, k) ==
  /\ k.state = k0.state /\ k.input = k0.input /\ k.end = k0.end /\ k.space = k0.space
  /\ k.backlog <= k0.backlog
  /\ k0 = Free => k = Free

\* insertSocket keeps the structure: the socket enters both maps at a
\* descriptor and an identifier that nobody has.
LEMMA InsertKeepsStructure ==
  ASSUME Structure, sequencer \in Identifiers, sequencer' = sequencer + 1,
         NEW f \in Descriptors, kernel[f].state = "free",
         NEW socketType, NEW acceptor \in Identifiers \cup {NoIdentifier}, NEW k, NEW events,
         acceptor # NoIdentifier => Present(acceptor),
         NewSocket(socketType, k, events),
         InsertSocket(sequencer, f, socketType, acceptor, k, events),
         kernel' \in [Descriptors -> KernelStates], kernel'[f] = k,
         \A g \in Descriptors : g # f => SameButBacklog(kernel[g], kernel'[g]),
         NEW told, stage' = [stage EXCEPT ![sequencer] = told], told \in {"opening", "open"},
         UNCHANGED <<outgoing, wire, written, premature>>,
         batch' = batch, Position',
         consumer' \in {"tasks", "accepting", "erasing"},
         current' \in Identifiers \cup {NoIdentifier},
         ClientsHaveIdentifiers'
  PROVE  Structure'
<1>1. /\ TypeOK /\ PresentHasDescriptor /\ NotGenerated /\ MapsAgree /\ SocketsMatch
  BY DEF Structure
<1>2. /\ type' = [type EXCEPT ![sequencer] = socketType]
      /\ listening' = [listening EXCEPT ![sequencer] = acceptor]
      /\ descriptor' = [descriptor EXCEPT ![sequencer] = f]
      /\ socketOf' = [socketOf EXCEPT ![f] = sequencer]
      /\ reused' \in {reused, reused \cup {sequencer}}
      /\ Subscribe(f, k, events)
  BY DEF InsertSocket
<1>3. /\ k \in KernelStates
      /\ socketType \in {"listening", "connecting", "accepted"}
      /\ events \in SUBSET {"in", "out"} /\ events # {}
  BY DEF NewSocket
<1>4. /\ interest' \in [Descriptors -> SUBSET {"in", "out"}]
      /\ interest'[f] = events
      /\ \A g \in Descriptors : g # f => interest'[g] = interest[g]
      /\ ready' \subseteq ready \cup {f} /\ ready' \subseteq Descriptors
  BY <1>1, <1>2, <1>3, SubscribeEffect
<1>5. /\ socketOf[f] = NoIdentifier
      /\ \A j \in Identifiers : Present(j) => descriptor[j] # f
  BY <1>1, FreeBelongsToNobody
<1>6. /\ type[sequencer] = "none" /\ outgoing[sequencer] = <<>> /\ wire[sequencer] = <<>>
      /\ \A j \in Identifiers : listening[j] # sequencer
      /\ sequencer \in Nat /\ sequencer >= sequencer /\ sequencer # NoIdentifier
  <2>1. sequencer \in Nat /\ sequencer >= sequencer /\ sequencer # NoIdentifier
    BY DEF Identifiers, NoIdentifier
  <2> QED BY <1>1, <2>1 DEF NotGenerated, PresentHasDescriptor, Present
<1>7. /\ type'[sequencer] = socketType /\ listening'[sequencer] = acceptor
      /\ descriptor'[sequencer] = f /\ socketOf'[f] = sequencer
      /\ \A i \in Identifiers : i # sequencer =>
           type'[i] = type[i] /\ listening'[i] = listening[i] /\ descriptor'[i] = descriptor[i]
             /\ stage'[i] = stage[i]
      /\ \A g \in Descriptors : g # f => socketOf'[g] = socketOf[g]
  BY <1>1, <1>2 DEF TypeOK
<1>8. TypeOK'
  <2>1. sequencer' \in 1 .. MaxSockets + 1
    BY ContainerAssumption DEF Identifiers
  <2>2. /\ type' \in [Identifiers -> {"none", "listening", "connecting", "connected", "accepted"}]
        /\ listening' \in [Identifiers -> Identifiers \cup {NoIdentifier}]
        /\ descriptor' \in [Identifiers -> Descriptors \cup {NoDescriptor}]
        /\ socketOf' \in [Descriptors -> Identifiers \cup {NoIdentifier}]
        /\ stage' \in [Identifiers -> {"new", "opening", "open", "closed", "lost", "failed"}]
        /\ reused' \subseteq Identifiers
    BY <1>1, <1>2, <1>3 DEF TypeOK
  <2> QED BY <1>1, <1>4, <2>1, <2>2 DEF TypeOK
<1>9. PresentHasDescriptor'
  BY <1>1, <1>3, <1>6, <1>7 DEF PresentHasDescriptor, Present
<1>10. NotGenerated'
  <2> SUFFICES ASSUME NEW i \in Identifiers, i >= sequencer + 1
               PROVE  /\ type'[i] = "none" /\ stage'[i] = "new" /\ listening'[i] = NoIdentifier
                      /\ \A j \in Identifiers : listening'[j] # i
    BY DEF NotGenerated
  <2>1. i >= sequencer /\ i # sequencer
    BY <1>6 DEF Identifiers
  <2>2. acceptor # i
    BY <1>1, <2>1 DEF NotGenerated, Present, NoIdentifier, Identifiers
  <2> QED BY <1>1, <1>7, <2>1, <2>2 DEF NotGenerated
<1>11. MapsAgree'
  <2>1. ASSUME NEW i \in Identifiers, type'[i] # "none" PROVE socketOf'[descriptor'[i]] = i
    BY <1>1, <1>5, <1>7, <2>1 DEF MapsAgree, Present, PresentHasDescriptor
  <2>2. kernel'[f].state # "free" /\ interest'[f] # {} /\ type'[socketOf'[f]] # "none"
        /\ descriptor'[socketOf'[f]] = f
    BY <1>3, <1>4, <1>7 DEF NewSocket
  <2>3. ASSUME NEW g \in Descriptors, g # f
        PROVE  IF socketOf'[g] = NoIdentifier
               THEN kernel'[g] = Free /\ interest'[g] = {} /\ g \notin ready'
               ELSE /\ type'[socketOf'[g]] # "none"
                    /\ descriptor'[socketOf'[g]] = g
                    /\ kernel'[g].state # "free"
                    /\ interest'[g] # {}
    <3>1. /\ socketOf'[g] = socketOf[g] /\ interest'[g] = interest[g]
          /\ g \in ready' => g \in ready
          /\ SameButBacklog(kernel[g], kernel'[g])
      BY <1>4, <1>7, <2>3
    <3>2. CASE socketOf[g] = NoIdentifier
      BY <1>1, <3>1, <3>2 DEF MapsAgree, SameButBacklog
    <3>3. CASE socketOf[g] # NoIdentifier
      <4>1. /\ socketOf[g] \in Identifiers /\ type[socketOf[g]] # "none"
            /\ descriptor[socketOf[g]] = g
            /\ kernel[g].state # "free" /\ interest[g] # {}
        BY <1>1, <3>3 DEF MapsAgree, TypeOK
      <4>2. socketOf[g] # sequencer
        BY <1>6, <4>1
      <4> QED BY <1>7, <3>1, <3>3, <4>1, <4>2 DEF SameButBacklog
    <3> QED BY <3>2, <3>3
  <2> QED BY <1>6, <1>7, <2>1, <2>2, <2>3 DEF MapsAgree
<1>12. SocketsMatch'
  <2> SUFFICES ASSUME NEW i \in Identifiers, type'[i] # "none"
               PROVE  KernelMatches(i)' /\ SubscriptionMatches(i)'
    BY DEF SocketsMatch, Present
  <2>1. CASE i = sequencer
    <3>1. outgoing'[i] = <<>> /\ kernel'[descriptor'[i]] = k /\ interest'[descriptor'[i]] = events
          /\ type'[i] = socketType
      BY <1>4, <1>6, <1>7, <2>1
    <3>2. KernelMatches(i)'
      BY <3>1, ContainerAssumption DEF KernelMatches, NewSocket
    <3>3. SubscriptionMatches(i)'
      BY <3>1 DEF SubscriptionMatches, Connected, NewSocket
    <3> QED BY <3>2, <3>3
  <2>2. CASE i # sequencer
    <3> DEFINE g == descriptor[i]
    <3>1. Present(i) /\ type'[i] = type[i] /\ descriptor'[i] = g
      BY <1>7, <2>2 DEF Present
    <3>2. /\ g \in Descriptors /\ g # f /\ interest'[g] = interest[g]
          /\ SameButBacklog(kernel[g], kernel'[g])
          /\ KernelMatches(i) /\ SubscriptionMatches(i)
      BY <1>1, <1>4, <1>5, <3>1 DEF PresentHasDescriptor, SocketsMatch
    <3>3. kernel[g].backlog \in Nat /\ kernel'[g].backlog \in Nat
      <4>1. kernel[g] \in KernelStates /\ kernel'[g] \in KernelStates
        BY <1>1, <3>2 DEF TypeOK
      <4> QED BY <4>1, ContainerAssumption DEF KernelStates
    <3>4. KernelMatches(i)'
      BY <3>1, <3>2, <3>3 DEF KernelMatches, SameButBacklog
    <3>5. SubscriptionMatches(i)'
      BY <3>1, <3>2 DEF SubscriptionMatches, Connected, SameButBacklog, Broken
    <3> QED BY <3>4, <3>5
  <2> QED BY <2>1, <2>2
<1> QED BY <1>8, <1>9, <1>10, <1>11, <1>12 DEF Structure

\* What sendBytes does: some of the bytes that are left and of the new ones go
\* to the kernel, the others stay in the buffer, only if the kernel has no space.
SendOutcome(i, bytes, k) ==
  LET f    == descriptor[i]
      left == kernel'[f]
  IN /\ wire' \in [Identifiers -> Seq(1 .. MaxBytes)]
     /\ outgoing' \in [Identifiers -> Seq(1 .. MaxBytes)]
     /\ \A j \in Identifiers : j # i => wire'[j] = wire[j] /\ outgoing'[j] = outgoing[j]
     /\ wire'[i] \o outgoing'[i] = (wire[i] \o outgoing[i]) \o bytes
     /\ interest' \in [Descriptors -> SUBSET {"in", "out"}]
     /\ kernel' \in [Descriptors -> KernelStates]
     /\ \A g \in Descriptors : g # f => interest'[g] = interest[g] /\ kernel'[g] = kernel[g]
     /\ "in" \in interest'[f]
     /\ left.state = k.state /\ left.backlog = k.backlog
     /\ left.input = k.input /\ left.end = k.end /\ left.space <= k.space
     /\ outgoing'[i] # <<>> => left.space = 0 /\ "out" \in interest'[f]
     /\ Broken(left) \/ left.backlog > 0 \/ left.input \/ left.end => f \in ready'
     /\ ready \subseteq ready' /\ ready' \subseteq ready \cup {f} /\ ready' \subseteq Descriptors

\* What send does to the buffer, the wire and the kernel.
LEMMA SendEffect ==
  ASSUME TypeOK, NEW i \in Identifiers, descriptor[i] \in Descriptors,
         NEW bytes \in Seq(1 .. MaxBytes), NEW k \in KernelStates, SendBytes(i, bytes, k)
  PROVE  SendOutcome(i, bytes, k)
<1> DEFINE f    == descriptor[i]
           all  == outgoing[i] \o bytes
           sent == IF Len(all) < k.space THEN Len(all) ELSE k.space
           left == [k EXCEPT !.space = @ - sent]
           done == SubSeq(all, 1, sent)
           rest == SubSeq(all, sent + 1, Len(all))
           events == IF sent = Len(all) THEN {"in"} ELSE {"in", "out"}
<1>1. /\ wire' = [wire EXCEPT ![i] = @ \o done]
      /\ outgoing' = [outgoing EXCEPT ![i] = rest]
      /\ kernel' = [kernel EXCEPT ![f] = left]
      /\ Subscribe(f, left, events)
  BY DEF SendBytes
<1>2. /\ outgoing[i] \in Seq(1 .. MaxBytes) /\ wire[i] \in Seq(1 .. MaxBytes)
      /\ all \in Seq(1 .. MaxBytes) /\ Len(all) \in Nat
  <2>1. outgoing[i] \in Seq(1 .. MaxBytes) /\ wire[i] \in Seq(1 .. MaxBytes)
    BY DEF TypeOK
  <2>2. all \in Seq(1 .. MaxBytes)
    BY <2>1, ConcatProperties
  <2> QED BY <2>1, <2>2, LenProperties
<1>3. f \in Descriptors /\ f = descriptor[i]
  OBVIOUS
<1>4. k.space \in 0 .. MaxSpace
  BY DEF KernelStates
<1> HIDE DEF f, all
<1>5. /\ sent \in 0 .. Len(all) /\ sent <= k.space
      /\ sent # Len(all) => sent = k.space
  BY <1>2, <1>4, ContainerAssumption
<1>6. /\ left \in KernelStates
      /\ left.state = k.state /\ left.backlog = k.backlog
      /\ left.input = k.input /\ left.end = k.end /\ left.space = k.space - sent
  <2> HIDE DEF sent
  <2>1. k.space - sent \in 0 .. MaxSpace
    BY <1>4, <1>5, <1>2, ContainerAssumption
  <2> QED BY <2>1 DEF KernelStates
<1> HIDE DEF sent, left
<1>7. /\ done \in Seq(1 .. MaxBytes) /\ rest \in Seq(1 .. MaxBytes)
      /\ done \o rest = all
      /\ sent = Len(all) => rest = <<>>
  <2>1. CASE sent \in 1 .. Len(all)
    <3>1. /\ done \in Seq(1 .. MaxBytes) /\ rest \in Seq(1 .. MaxBytes)
          /\ done \o rest = all
      BY <1>2, <2>1, SplitQueue
    <3>2. sent = Len(all) => rest = <<>>
      BY <1>2, SubSeqEmpty
    <3> QED BY <3>1, <3>2
  <2>2. CASE sent = 0
    <3>1. done = <<>>
      BY <2>2, SubSeqEmpty
    <3>2. rest = all
      <4>1. sent + 1 = 1
        BY <2>2
      <4> QED BY <4>1, <1>2, SubSeqFull
    <3>3. sent = Len(all) => rest = <<>>
      BY <1>2, SubSeqEmpty
    <3>4. <<>> \in Seq(1 .. MaxBytes) /\ <<>> \o all = all
      BY <1>2, EmptySeq, ConcatEmptySeq
    <3> QED BY <1>2, <3>1, <3>2, <3>3, <3>4
  <2>3. sent = 0 \/ sent \in 1 .. Len(all)
    BY <1>2, <1>5
  <2> HIDE DEF done, rest, events
  <2> QED BY <2>1, <2>2, <2>3
<1> HIDE DEF done, rest
<1>8. /\ wire'[i] = wire[i] \o done /\ outgoing'[i] = rest
      /\ wire' \in [Identifiers -> Seq(1 .. MaxBytes)]
      /\ outgoing' \in [Identifiers -> Seq(1 .. MaxBytes)]
      /\ \A j \in Identifiers : j # i => wire'[j] = wire[j] /\ outgoing'[j] = outgoing[j]
  <2>1. wire[i] \o done \in Seq(1 .. MaxBytes)
    BY <1>2, <1>7, ConcatProperties
  <2> QED BY <1>1, <1>7, <2>1 DEF TypeOK
<1>9. wire'[i] \o outgoing'[i] = (wire[i] \o outgoing[i]) \o bytes
  <2> DEFINE T == 1 .. MaxBytes
             w == wire[i]
             o == outgoing[i]
             b == bytes
  <2>1. /\ w \in Seq(T) /\ o \in Seq(T) /\ b \in Seq(T) /\ done \in Seq(T) /\ rest \in Seq(T)
    BY <1>2, <1>7
  <2>2. done \o rest = o \o b
    BY <1>7 DEF all
  <2> HIDE DEF T, w, o, b
  <2>3. (w \o done) \o rest = w \o (done \o rest)
    BY <2>1, ConcatAssociative
  <2>4. (w \o o) \o b = w \o (o \o b)
    BY <2>1, ConcatAssociative
  <2> QED BY <1>8, <2>2, <2>3, <2>4 DEF w, o, b
<1>10. /\ kernel' \in [Descriptors -> KernelStates]
       /\ kernel'[f] = left
       /\ \A g \in Descriptors : g # f => kernel'[g] = kernel[g]
  BY <1>1, <1>3, <1>6 DEF TypeOK
<1>11. events \in SUBSET {"in", "out"} /\ "in" \in events
       /\ (sent # Len(all) => "out" \in events)
  OBVIOUS
<1> HIDE DEF events
<1>12. /\ interest' \in [Descriptors -> SUBSET {"in", "out"}]
       /\ interest'[f] = events
       /\ \A g \in Descriptors : g # f => interest'[g] = interest[g]
       /\ ready \subseteq ready' /\ ready' \subseteq ready \cup {f} /\ ready' \subseteq Descriptors
       /\ Broken(left) => f \in ready'
       /\ left.backlog > 0 \/ left.input \/ left.end => f \in ready'
  BY <1>1, <1>3, <1>6, <1>11, SubscribeEffect
<1>13. outgoing'[i] # <<>> => left.space = 0 /\ "out" \in events
  <2>1. rest # <<>> => sent # Len(all)
    BY <1>7
  <2> QED BY <2>1, <1>4, <1>5, <1>6, <1>8, <1>11
<1>14. left.space <= k.space
  BY <1>2, <1>4, <1>5, <1>6
<1> QED BY <1>3, <1>6, <1>8, <1>9, <1>10, <1>11, <1>12, <1>13, <1>14 DEF SendOutcome

\* LinuxSocket::send and the subscription after it keep the structure.
LEMMA SendKeepsStructure ==
  ASSUME Structure, NEW i \in Identifiers, Connected(i), NEW bytes \in Seq(1 .. MaxBytes),
         NEW k \in KernelStates, SendBytes(i, bytes, k),
         LET k0 == kernel[descriptor[i]] IN
           /\ k.state = k0.state /\ k.backlog = k0.backlog /\ k.space = k0.space
           /\ k.input => k0.input
           /\ k.end => k0.end,
         written' \in [Identifiers -> 0 .. MaxBytes],
         UNCHANGED <<container, premature>>, Position', batch' \in Seq(BatchEvents),
         consumer' \in {"handling", "tasks"}, current' \in Identifiers \cup {NoIdentifier}
  PROVE  Structure'
<1>1. /\ TypeOK /\ ClientsHaveIdentifiers /\ PresentHasDescriptor
      /\ NotGenerated /\ MapsAgree /\ SocketsMatch
  BY DEF Structure
<1>2. UNCHANGED <<sequencer, type, listening, descriptor, socketOf, stage, reused>>
  BY DEF container
<1> DEFINE f    == descriptor[i]
           left == kernel'[f]
<1>3. /\ Present(i) /\ type[i] # "connecting" /\ type[i] # "listening"
      /\ f \in Descriptors /\ socketOf[f] = i /\ kernel[f] \in KernelStates
      /\ kernel[f].state # "free"
      /\ \A j \in Identifiers : Present(j) /\ descriptor[j] = f => j = i
      /\ KernelMatches(i)
  BY <1>1, OwnsDescriptor DEF Connected, Present, SocketsMatch
<1>4. /\ wire' \in [Identifiers -> Seq(1 .. MaxBytes)]
      /\ outgoing' \in [Identifiers -> Seq(1 .. MaxBytes)]
      /\ \A j \in Identifiers : j # i => wire'[j] = wire[j] /\ outgoing'[j] = outgoing[j]
      /\ interest' \in [Descriptors -> SUBSET {"in", "out"}]
      /\ \A g \in Descriptors : g # f => interest'[g] = interest[g] /\ kernel'[g] = kernel[g]
      /\ "in" \in interest'[f]
      /\ kernel' \in [Descriptors -> KernelStates]
      /\ left.state = k.state /\ left.backlog = k.backlog
      /\ left.input = k.input /\ left.end = k.end /\ left.space <= k.space
      /\ outgoing'[i] # <<>> => "out" \in interest'[f]
      /\ ready' \subseteq ready \cup {f} /\ ready' \subseteq Descriptors
  <2>1. TypeOK /\ descriptor[i] \in Descriptors
    BY <1>1, <1>3
  <2>2. SendOutcome(i, bytes, k)
    BY <2>1, SendEffect
  <2> QED BY <2>2 DEF SendOutcome
<1>5. /\ left.state = kernel[f].state /\ left.backlog = kernel[f].backlog
      /\ left.space <= kernel[f].space
      /\ left.input => kernel[f].input
      /\ left.end => kernel[f].end
  BY <1>4
<1>6. left \in KernelStates
  BY <1>3, <1>4
<1> HIDE DEF f, left
<1>7. TypeOK'
  BY <1>1, <1>2, <1>4 DEF TypeOK
<1>8. ClientsHaveIdentifiers'
  <2>1. \A g \in Descriptors : kernel'[g].backlog = kernel[g].backlog
    BY <1>3, <1>4, <1>5 DEF left
  <2>2. WaitingClients' = WaitingClients
    BY <2>1 DEF WaitingClients
  <2> QED BY <1>1, <1>2, <2>2 DEF ClientsHaveIdentifiers
<1>9. PresentHasDescriptor' /\ NotGenerated'
  <2>1. NotGenerated'
    BY <1>1, <1>2 DEF NotGenerated
  <2>2. \A j \in Identifiers : ~Present(j) => outgoing'[j] = outgoing[j] /\ wire'[j] = wire[j]
    BY <1>3, <1>4
  <2>3. PresentHasDescriptor'
    BY <1>1, <1>2, <2>2 DEF PresentHasDescriptor, Present
  <2> QED BY <2>1, <2>3
<1>10. MapsAgree'
  <2>1. kernel'[f].state # "free" /\ interest'[f] # {}
    BY <1>3, <1>4, <1>5 DEF left
  <2> QED BY <1>1, <1>2, <1>3, <1>4, <2>1, OwnsDescriptor DEF MapsAgree, NoIdentifier, Identifiers
<1>11. SocketsMatch'
  <2> SUFFICES ASSUME NEW j \in Identifiers, Present(j)
               PROVE  KernelMatches(j)' /\ SubscriptionMatches(j)'
    BY <1>2 DEF SocketsMatch, Present
  <2>1. descriptor[j] \in Descriptors /\ KernelMatches(j) /\ SubscriptionMatches(j)
    BY <1>1 DEF SocketsMatch, PresentHasDescriptor
  <2>2. CASE j # i
    <3>1. descriptor[j] # f
      BY <1>3, <2>2
    <3> QED BY <1>2, <1>4, <2>1, <2>2, <3>1
            DEF KernelMatches, SubscriptionMatches, Connected
  <2>3. CASE j = i
    <3>1. descriptor'[j] = f /\ type'[j] = type[j] /\ kernel'[f] = left
      BY <1>2, <2>3 DEF f, left
    <3>2. /\ left.space \in Nat /\ kernel[f].space \in Nat
          /\ left.backlog \in Nat /\ kernel[f].backlog \in Nat
      BY <1>3, <1>6, ContainerAssumption DEF KernelStates
    <3>3. KernelMatches(j)'
      BY <1>3, <1>5, <2>3, <3>1, <3>2 DEF KernelMatches, f
    <3>4. SubscriptionMatches(j)'
      BY <1>3, <1>4, <2>3, <3>1 DEF SubscriptionMatches
    <3> QED BY <3>3, <3>4
  <2> QED BY <2>2, <2>3
<1> QED BY <1>7, <1>8, <1>9, <1>10, <1>11 DEF Structure

\* eraseSocket keeps the structure.
LEMMA EraseKeepsStructure ==
  ASSUME Structure, NEW i \in Identifiers, EraseSocket(i), Position', batch' = batch,
         consumer' \in {"handling", "tasks"}, current' \in Identifiers \cup {NoIdentifier}
  PROVE  Structure'
<1>1. /\ TypeOK /\ ClientsHaveIdentifiers /\ PresentHasDescriptor
      /\ NotGenerated /\ MapsAgree /\ SocketsMatch
  BY DEF Structure
<1> DEFINE f == descriptor[i]
<1>2. /\ Present(i) /\ f \in Descriptors /\ socketOf[f] = i /\ kernel[f] \in KernelStates
      /\ \A j \in Identifiers : Present(j) /\ descriptor[j] = f => j = i
  BY <1>1, OwnsDescriptor DEF EraseSocket, Present
<1>3. /\ interest' = [interest EXCEPT ![f] = {}]
      /\ ready' = ready \ {f}
      /\ socketOf' = [socketOf EXCEPT ![f] = NoIdentifier]
      /\ type' = [type EXCEPT ![i] = "none"]
      /\ descriptor' = [descriptor EXCEPT ![i] = NoDescriptor]
      /\ kernel' = [kernel EXCEPT ![f] = Free]
      /\ outgoing' = [outgoing EXCEPT ![i] = <<>>]
      /\ wire' = [wire EXCEPT ![i] = <<>>]
      /\ written' = [written EXCEPT ![i] = 0]
      /\ UNCHANGED <<sequencer, listening, premature, reused>>
      /\ \E told \in {"closed", "lost"} : stage' = [stage EXCEPT ![i] = told]
  BY DEF EraseSocket
<1> HIDE DEF f
<1>4. Free \in KernelStates /\ Free.backlog = 0 /\ Free.state = "free"
  BY ContainerAssumption DEF Free, KernelStates
<1>5. /\ kernel' \in [Descriptors -> KernelStates] /\ kernel'[f] = Free
      /\ interest'[f] = {} /\ socketOf'[f] = NoIdentifier /\ f \notin ready'
      /\ \A g \in Descriptors : g # f =>
           /\ kernel'[g] = kernel[g] /\ interest'[g] = interest[g] /\ socketOf'[g] = socketOf[g]
           /\ g \in ready' <=> g \in ready
      /\ type'[i] = "none" /\ descriptor'[i] = NoDescriptor
      /\ outgoing'[i] = <<>> /\ wire'[i] = <<>>
      /\ \A j \in Identifiers : j # i =>
           /\ type'[j] = type[j] /\ descriptor'[j] = descriptor[j]
           /\ outgoing'[j] = outgoing[j] /\ wire'[j] = wire[j] /\ stage'[j] = stage[j]
  BY <1>1, <1>2, <1>3, <1>4 DEF TypeOK
<1>6. TypeOK'
  <2>1. <<>> \in Seq(1 .. MaxBytes)
    BY EmptySeq
  <2>2. /\ outgoing' \in [Identifiers -> Seq(1 .. MaxBytes)]
        /\ wire' \in [Identifiers -> Seq(1 .. MaxBytes)]
        /\ written' \in [Identifiers -> 0 .. MaxBytes]
    BY <1>1, <1>3, <2>1, ContainerAssumption DEF TypeOK
  <2>3. /\ type' \in [Identifiers -> {"none", "listening", "connecting", "connected", "accepted"}]
        /\ descriptor' \in [Identifiers -> Descriptors \cup {NoDescriptor}]
        /\ socketOf' \in [Descriptors -> Identifiers \cup {NoIdentifier}]
        /\ interest' \in [Descriptors -> SUBSET {"in", "out"}]
        /\ stage' \in [Identifiers -> {"new", "opening", "open", "closed", "lost", "failed"}]
        /\ ready' \subseteq Descriptors
    BY <1>1, <1>3 DEF TypeOK
  <2> QED BY <1>1, <1>3, <1>5, <2>2, <2>3 DEF TypeOK
<1>7. ClientsHaveIdentifiers'
  <2>1. \A g \in Descriptors : kernel[g].backlog \in Nat
    BY <1>1, ContainerAssumption DEF TypeOK, KernelStates
  <2>2. \A g \in Descriptors : kernel'[g].backlog <= kernel[g].backlog
    BY <1>2, <1>4, <1>5, <2>1
  <2>3. /\ Cardinality(WaitingClients) \in Nat /\ Cardinality(WaitingClients') \in Nat
        /\ Cardinality(WaitingClients') <= Cardinality(WaitingClients)
    BY <1>1, <1>5, <2>2, WaitingShrinks
  <2>4. sequencer' = sequencer /\ sequencer \in Nat
    BY <1>1, <1>3, ContainerAssumption DEF TypeOK
  <2> QED BY <1>1, <2>3, <2>4, ContainerAssumption DEF ClientsHaveIdentifiers
<1>8. PresentHasDescriptor'
  BY <1>1, <1>5 DEF PresentHasDescriptor, Present
<1>9. NotGenerated'
  <2>1. i < sequencer
    BY <1>1, <1>2, ContainerAssumption DEF NotGenerated, Present, TypeOK, Identifiers
  <2> QED BY <1>1, <1>3, <1>5, <2>1, ContainerAssumption DEF NotGenerated, TypeOK, Identifiers
<1>10. MapsAgree'
  <2>1. ASSUME NEW j \in Identifiers, type'[j] # "none" PROVE socketOf'[descriptor'[j]] = j
    <3>1. j # i /\ Present(j)
      BY <1>5, <2>1 DEF Present
    <3>2. descriptor[j] \in Descriptors /\ descriptor[j] # f /\ socketOf[descriptor[j]] = j
      BY <1>1, <1>2, <3>1, OwnsDescriptor
    <3> QED BY <1>5, <3>1, <3>2
  <2>2. ASSUME NEW g \in Descriptors, g # f, socketOf[g] # NoIdentifier
        PROVE  socketOf[g] \in Identifiers /\ socketOf[g] # i
    <3>1. socketOf[g] \in Identifiers /\ descriptor[socketOf[g]] = g
      BY <1>1, <2>2 DEF MapsAgree, TypeOK
    <3> QED BY <2>2, <3>1 DEF f
  <2>3. ASSUME NEW g \in Descriptors, g # f
        PROVE  IF socketOf'[g] = NoIdentifier
               THEN kernel'[g] = Free /\ interest'[g] = {} /\ g \notin ready'
               ELSE /\ type'[socketOf'[g]] # "none"
                    /\ descriptor'[socketOf'[g]] = g
                    /\ kernel'[g].state # "free"
                    /\ interest'[g] # {}
    BY <1>1, <1>5, <2>2, <2>3 DEF MapsAgree
  <2> QED BY <1>5, <2>1, <2>3 DEF MapsAgree
<1>11. SocketsMatch'
  <2> SUFFICES ASSUME NEW j \in Identifiers, type'[j] # "none"
               PROVE  KernelMatches(j)' /\ SubscriptionMatches(j)'
    BY DEF SocketsMatch, Present
  <2>1. j # i /\ Present(j)
    BY <1>5 DEF Present
  <2>2. descriptor[j] \in Descriptors /\ descriptor[j] # f
    BY <1>1, <1>2, <2>1 DEF PresentHasDescriptor
  <2>3. KernelMatches(j) /\ SubscriptionMatches(j)
    BY <1>1, <2>1 DEF SocketsMatch
  <2>4. /\ type'[j] = type[j] /\ outgoing'[j] = outgoing[j] /\ descriptor'[j] = descriptor[j]
        /\ kernel'[descriptor[j]] = kernel[descriptor[j]]
        /\ interest'[descriptor[j]] = interest[descriptor[j]]
    BY <1>5, <2>1, <2>2
  <2> QED BY <2>3, <2>4 DEF KernelMatches, SubscriptionMatches, Connected
<1> QED BY <1>6, <1>7, <1>8, <1>9, <1>10, <1>11 DEF Structure

\* An event that is handled is one of the batch, for a socket that is there.
LEMMA HandledEvent ==
  ASSUME Structure, NEW i \in Identifiers, NEW events, Handling(i, events)
  PROVE  /\ Present(i)
         /\ consumer = "handling"
         /\ batch \in Seq(BatchEvents) /\ batch # <<>>
         /\ batch' = Tail(batch) /\ batch' \in Seq(BatchEvents)
         /\ Head(batch).descriptor = descriptor[i] /\ Head(batch).events = events
<1>1. batch \in Seq(BatchEvents) /\ batch # <<>>
  BY DEF Handling, Structure, TypeOK
<1>2. Tail(batch) \in Seq(BatchEvents)
  BY <1>1, HeadTailProperties
<1>3. Present(i)
  BY DEF Handling, Structure, PresentHasDescriptor
<1> QED BY <1>1, <1>2, <1>3 DEF Handling

\* A connecting socket that becomes connected keeps the structure.
LEMMA HandleConnectingKeepsStructure ==
  ASSUME Structure, NEW i \in Identifiers, HandleConnecting(i)
  PROVE  Structure'
<1>1. /\ TypeOK /\ ClientsHaveIdentifiers /\ PresentHasDescriptor
      /\ NotGenerated /\ MapsAgree /\ SocketsMatch
  BY DEF Structure
<1> DEFINE f == descriptor[i]
<1>2. /\ type[i] = "connecting"
      /\ type' = [type EXCEPT ![i] = "connected"]
      /\ Subscribe(f, kernel[f], {"in"})
      /\ stage' = [stage EXCEPT ![i] = "open"]
      /\ premature' \in {premature, premature \cup {i}}
      /\ \/ consumer' = "handling" /\ current' = NoIdentifier
         \/ consumer' = "erasing" /\ current' = i
      /\ UNCHANGED <<sequencer, listening, descriptor, socketOf, outgoing, wire, written, kernel, reused>>
  BY DEF HandleConnecting, Return, Throw
<1>3. batch' \in Seq(BatchEvents)
  BY HandledEvent DEF HandleConnecting
<1>4. /\ Present(i) /\ f \in Descriptors /\ socketOf[f] = i /\ kernel[f] \in KernelStates
      /\ \A j \in Identifiers : Present(j) /\ descriptor[j] = f => j = i
      /\ KernelMatches(i) /\ SubscriptionMatches(i)
  BY <1>1, <1>2, OwnsDescriptor DEF Present, SocketsMatch
<1>5. /\ interest' \in [Descriptors -> SUBSET {"in", "out"}]
      /\ interest'[f] = {"in"}
      /\ \A g \in Descriptors : g # f => interest'[g] = interest[g]
      /\ ready' \subseteq ready \cup {f} /\ ready' \subseteq Descriptors
  BY <1>1, <1>2, <1>4, SubscribeEffect
<1> HIDE DEF f
<1>6. /\ type'[i] = "connected" /\ stage'[i] = "open"
      /\ \A j \in Identifiers : j # i => type'[j] = type[j] /\ stage'[j] = stage[j]
      /\ type' \in [Identifiers -> {"none", "listening", "connecting", "connected", "accepted"}]
      /\ stage' \in [Identifiers -> {"new", "opening", "open", "closed", "lost", "failed"}]
  BY <1>1, <1>2 DEF TypeOK
<1>7. TypeOK'
  BY <1>1, <1>2, <1>3, <1>5, <1>6 DEF TypeOK
<1>8. ClientsHaveIdentifiers'
  BY <1>1, <1>2 DEF ClientsHaveIdentifiers, WaitingClients
<1>9. Position'
  BY <1>2, <1>6 DEF Position
<1>10. PresentHasDescriptor'
  BY <1>1, <1>2, <1>4, <1>6 DEF PresentHasDescriptor, Present
<1>11. NotGenerated'
  BY <1>1, <1>2, <1>4, <1>6 DEF NotGenerated, Present
<1>12. MapsAgree'
  <2>1. \A j \in Identifiers : type'[j] # "none" <=> type[j] # "none"
    BY <1>4, <1>6 DEF Present
  <2>2. \A g \in Descriptors : socketOf[g] # NoIdentifier => socketOf[g] \in Identifiers
    BY <1>1 DEF TypeOK
  <2>3. \A g \in Descriptors : g # f => (g \in ready' => g \in ready)
    BY <1>5
  <2>4. f # NoDescriptor /\ socketOf[f] # NoIdentifier
    BY <1>4 DEF Identifiers, NoIdentifier, Descriptors, NoDescriptor
  <2> QED BY <1>1, <1>2, <1>4, <1>5, <2>1, <2>2, <2>3, <2>4 DEF MapsAgree
<1>13. SocketsMatch'
  <2> SUFFICES ASSUME NEW j \in Identifiers, Present(j)
               PROVE  KernelMatches(j)' /\ SubscriptionMatches(j)'
    BY <1>4, <1>6 DEF SocketsMatch, Present
  <2>1. CASE j = i
    <3>1. outgoing[i] = <<>>
      BY <1>2, <1>4 DEF SubscriptionMatches
    <3> QED BY <1>2, <1>4, <1>5, <1>6, <2>1, <3>1
            DEF KernelMatches, SubscriptionMatches, Connected, f
  <2>2. CASE j # i
    <3>1. descriptor[j] \in Descriptors /\ descriptor[j] # f
      BY <1>1, <1>4, <2>2 DEF PresentHasDescriptor
    <3>2. KernelMatches(j) /\ SubscriptionMatches(j)
      BY <1>1 DEF SocketsMatch
    <3> QED BY <1>2, <1>5, <1>6, <2>2, <3>1, <3>2
            DEF KernelMatches, SubscriptionMatches, Connected
  <2> QED BY <2>1, <2>2
<1> QED BY <1>7, <1>8, <1>9, <1>10, <1>11, <1>12, <1>13 DEF Structure

\* The next byte is a byte, the buffer that it is added to stays one, and the
\* count of the bytes keeps its bound.
LEMMA NextByteIsByte ==
  ASSUME TypeOK, NEW i \in Identifiers, MaySend(i)
  PROVE  /\ NextByte(i) \in Seq(1 .. MaxBytes)
         /\ outgoing[i] \o NextByte(i) \in Seq(1 .. MaxBytes)
         /\ outgoing[i] \o NextByte(i) # <<>>
         /\ written[i] \in Nat /\ written[i] + 1 \in 1 .. MaxBytes
         /\ Written(i) => /\ written' \in [Identifiers -> 0 .. MaxBytes]
                          /\ written'[i] = written[i] + 1
                          /\ \A j \in Identifiers : j # i => written'[j] = written[j]
<1>1. outgoing[i] \in Seq(1 .. MaxBytes)
  BY DEF TypeOK
<1>2. written[i] \in Nat /\ written[i] + 1 \in 1 .. MaxBytes
  BY ContainerAssumption DEF TypeOK, MaySend
<1>3. NextByte(i) \in Seq(1 .. MaxBytes) /\ NextByte(i) # <<>>
  BY <1>2 DEF NextByte
<1>4. outgoing[i] \o NextByte(i) \in Seq(1 .. MaxBytes) /\ outgoing[i] \o NextByte(i) # <<>>
  <2> DEFINE T == 1 .. MaxBytes
             o == outgoing[i]
             b == NextByte(i)
  <2>1. o \in Seq(T) /\ b \in Seq(T) /\ b # <<>>
    BY <1>1, <1>3
  <2> HIDE DEF T, o, b
  <2>2. o \o b \in Seq(T) /\ o \o b # <<>>
    BY <2>1, ConcatProperties, ConcatEqualIffEmpty
  <2> QED BY <2>2 DEF T, o, b
<1>5. Written(i) => /\ written' \in [Identifiers -> 0 .. MaxBytes]
                    /\ written'[i] = written[i] + 1
                    /\ \A j \in Identifiers : j # i => written'[j] = written[j]
  BY <1>2, ContainerAssumption DEF Written, TypeOK
<1> QED BY <1>2, <1>3, <1>4, <1>5

\* A send that throws keeps the structure.
LEMMA SendThrowsKeepsStructure ==
  ASSUME Structure, NEW i \in Identifiers, SendThrows(i)
  PROVE  Structure'
<1>1. /\ TypeOK /\ ClientsHaveIdentifiers /\ PresentHasDescriptor /\ Position
      /\ NotGenerated /\ MapsAgree /\ SocketsMatch
  BY DEF Structure
<1>2. /\ Connected(i) /\ Broken(kernel[descriptor[i]]) /\ MaySend(i)
      /\ outgoing' = [outgoing EXCEPT ![i] = outgoing[i] \o NextByte(i)]
      /\ Written(i)
      /\ UNCHANGED <<sequencer, type, listening, descriptor, socketOf, stage, reused, interest,
                     wire, kernel, ready, batch, consumer, current, premature>>
  BY DEF SendThrows, container
<1>3. /\ outgoing' \in [Identifiers -> Seq(1 .. MaxBytes)]
      /\ written' \in [Identifiers -> 0 .. MaxBytes]
      /\ \A j \in Identifiers : j # i => outgoing'[j] = outgoing[j]
  BY <1>1, <1>2, NextByteIsByte DEF TypeOK
<1>4. TypeOK'
  BY <1>1, <1>2, <1>3 DEF TypeOK
<1>5. ClientsHaveIdentifiers' /\ Position' /\ NotGenerated' /\ MapsAgree'
  BY <1>1, <1>2 DEF ClientsHaveIdentifiers, WaitingClients, Position, NotGenerated, MapsAgree
<1>6. PresentHasDescriptor'
  BY <1>1, <1>2, <1>3 DEF PresentHasDescriptor, Present, Connected
<1>7. SocketsMatch'
  BY <1>1, <1>2, <1>3
     DEF SocketsMatch, Present, KernelMatches, SubscriptionMatches, Connected
<1> QED BY <1>4, <1>5, <1>6, <1>7 DEF Structure

\* A listen or connect that fails uses an identifier up and no more.
LEMMA SpoilKeepsStructure ==
  ASSUME Structure, sequencer \in Identifiers, sequencer' = sequencer + 1,
         stage' = [stage EXCEPT ![sequencer] = "failed"],
         UNCHANGED <<type, listening, descriptor, socketOf, interest, outgoing, wire, written, ready,
                     batch, premature, reused>>,
         kernel' \in [Descriptors -> KernelStates],
         \A g \in Descriptors : SameButBacklog(kernel[g], kernel'[g]),
         ClientsHaveIdentifiers', Position',
         consumer' \in {"tasks", "erasing"}, current' \in Identifiers \cup {NoIdentifier}
  PROVE  Structure'
<1>1. /\ TypeOK /\ PresentHasDescriptor /\ NotGenerated /\ MapsAgree /\ SocketsMatch
  BY DEF Structure
<1>2. TypeOK'
  <2>1. sequencer' \in 1 .. MaxSockets + 1
    BY ContainerAssumption DEF Identifiers
  <2>2. stage' \in [Identifiers -> {"new", "opening", "open", "closed", "lost", "failed"}]
    BY <1>1 DEF TypeOK
  <2> QED BY <1>1, <2>1, <2>2 DEF TypeOK
<1>3. PresentHasDescriptor'
  BY <1>1 DEF PresentHasDescriptor, Present
<1>4. NotGenerated'
  <2> SUFFICES ASSUME NEW i \in Identifiers, i >= sequencer + 1
               PROVE  type[i] = "none" /\ stage'[i] = "new" /\ listening[i] = NoIdentifier
                      /\ \A j \in Identifiers : listening[j] # i
    BY DEF NotGenerated
  <2>1. i >= sequencer /\ i # sequencer
    BY DEF Identifiers
  <2> QED BY <1>1, <2>1 DEF NotGenerated, TypeOK
<1>5. MapsAgree'
  BY <1>1 DEF MapsAgree, SameButBacklog
<1>6. SocketsMatch'
  <2> SUFFICES ASSUME NEW i \in Identifiers, Present(i)
               PROVE  KernelMatches(i)' /\ SubscriptionMatches(i)'
    BY DEF SocketsMatch, Present
  <2> DEFINE g == descriptor[i]
  <2>1. /\ g \in Descriptors /\ SameButBacklog(kernel[g], kernel'[g])
        /\ KernelMatches(i) /\ SubscriptionMatches(i)
    BY <1>1 DEF PresentHasDescriptor, SocketsMatch
  <2>2. kernel[g].backlog \in Nat /\ kernel'[g].backlog \in Nat
    <3>1. kernel[g] \in KernelStates /\ kernel'[g] \in KernelStates
      BY <1>1, <2>1 DEF TypeOK
    <3> QED BY <3>1, ContainerAssumption DEF KernelStates
  <2>3. KernelMatches(i)'
    BY <2>1, <2>2 DEF KernelMatches, SameButBacklog
  <2>4. SubscriptionMatches(i)'
    BY <2>1 DEF SubscriptionMatches, Connected, SameButBacklog, Broken
  <2> QED BY <2>3, <2>4
<1> QED BY <1>2, <1>3, <1>4, <1>5, <1>6 DEF Structure

\* A socket that a user opens has an identifier.
LEMMA IdentifierForTask ==
  ASSUME Structure, IdentifiersLeft, sequencer' = sequencer + 1,
         kernel' \in [Descriptors -> KernelStates],
         \A g \in Descriptors : kernel'[g].backlog <= kernel[g].backlog
  PROVE  sequencer \in Identifiers /\ ClientsHaveIdentifiers'
<1>1. /\ Cardinality(WaitingClients) \in Nat /\ Cardinality(WaitingClients') \in Nat
      /\ Cardinality(WaitingClients') <= Cardinality(WaitingClients)
  BY WaitingShrinks DEF Structure
<1>2. sequencer \in Nat \ {0}
  BY ContainerAssumption DEF Structure, TypeOK
<1> QED BY <1>1, <1>2, ContainerAssumption
        DEF IdentifiersLeft, ClientsHaveIdentifiers, Identifiers

\* A client that waits has one too.
LEMMA IdentifierForClient ==
  ASSUME Structure, NEW f \in Descriptors, kernel[f].backlog > 0, sequencer' = sequencer + 1,
         kernel' \in [Descriptors -> KernelStates],
         \A g \in Descriptors : kernel'[g].backlog <= kernel[g].backlog,
         kernel'[f].backlog = kernel[f].backlog - 1
  PROVE  sequencer \in Identifiers /\ ClientsHaveIdentifiers'
<1>1. /\ Cardinality(WaitingClients) \in Nat /\ Cardinality(WaitingClients') \in Nat
      /\ Cardinality(WaitingClients') + 1 <= Cardinality(WaitingClients)
  BY WaitingAccepted DEF Structure
<1>2. sequencer \in Nat \ {0} /\ sequencer + Cardinality(WaitingClients) <= MaxSockets + 1
  BY ContainerAssumption DEF Structure, TypeOK, ClientsHaveIdentifiers
<1> QED BY <1>1, <1>2, ContainerAssumption DEF ClientsHaveIdentifiers, Identifiers

\* accept4 takes one client from the backlog.
LEMMA OneLessEffect ==
  ASSUME TypeOK, NEW f \in Descriptors, kernel[f].backlog > 0, kernel[f].state = "listening"
  PROVE  /\ OneLess(f) \in [Descriptors -> KernelStates]
         /\ OneLess(f)[f].backlog = kernel[f].backlog - 1
         /\ \A g \in Descriptors : SameButBacklog(kernel[g], OneLess(f)[g])
<1>1. kernel \in [Descriptors -> KernelStates] /\ kernel[f] \in KernelStates
  BY DEF TypeOK
<1> DEFINE k == [kernel[f] EXCEPT !.backlog = @ - 1]
<1>2. OneLess(f) = [kernel EXCEPT ![f] = k]
  BY <1>1 DEF OneLess
<1>3. /\ k \in KernelStates
      /\ k.state = kernel[f].state /\ k.input = kernel[f].input /\ k.end = kernel[f].end
      /\ k.space = kernel[f].space /\ k.backlog = kernel[f].backlog - 1
      /\ kernel[f].backlog \in Nat
  BY <1>1, ContainerAssumption DEF KernelStates
<1> HIDE DEF k
<1>4. \A g \in Descriptors : kernel[g].backlog \in Nat
  BY <1>1, ContainerAssumption DEF KernelStates
<1>5. SameButBacklog(kernel[f], k)
  BY <1>3 DEF SameButBacklog, Free
<1>6. \A g \in Descriptors : g # f => SameButBacklog(kernel[g], kernel[g])
  BY <1>4 DEF SameButBacklog
<1> QED BY <1>1, <1>2, <1>3, <1>5, <1>6

\* ListenTask keeps the structure.
LEMMA ListenKeepsStructure ==
  ASSUME Structure, Listen
  PROVE  Structure'
<1> DEFINE f == LowestFree
           k == Fresh("listening")
<1>1. /\ IdentifiersLeft /\ kernel' = [kernel EXCEPT ![f] = k]
      /\ InsertSocket(sequencer, f, "listening", NoIdentifier, k, {"in"})
      /\ sequencer' = sequencer + 1
      /\ stage' = [stage EXCEPT ![sequencer] = "open"]
      /\ UNCHANGED <<outgoing, wire, written, batch, consumer, current, premature>>
      /\ consumer = "tasks"
  BY DEF Listen
<1>2. f \in Descriptors /\ kernel[f].state = "free"
  BY LowestFreeIsFree DEF Listen
<1>3. NewSocket("listening", k, {"in"})
  BY FreshState DEF NewSocket
<1> HIDE DEF f, k
<1>4. TypeOK /\ Position
  BY DEF Structure
<1>5. /\ kernel' \in [Descriptors -> KernelStates] /\ kernel'[f] = k
      /\ \A g \in Descriptors : g # f => kernel'[g] = kernel[g]
      /\ \A g \in Descriptors : kernel[g].backlog \in Nat
      /\ k.backlog = 0
  BY <1>1, <1>2, <1>3, <1>4, ContainerAssumption DEF TypeOK, NewSocket, KernelStates
<1>6. \A g \in Descriptors : kernel'[g].backlog <= kernel[g].backlog
  BY <1>5
<1>7. \A g \in Descriptors : g # f => SameButBacklog(kernel[g], kernel'[g])
  BY <1>5 DEF SameButBacklog
<1>8. sequencer \in Identifiers /\ ClientsHaveIdentifiers'
  BY <1>1, <1>5, <1>6, IdentifierForTask
<1>9. Position' /\ current' \in Identifiers \cup {NoIdentifier}
  BY <1>1, <1>4 DEF Position, TypeOK
<1> QED BY <1>1, <1>2, <1>3, <1>5, <1>7, <1>8, <1>9, InsertKeepsStructure

\* ConnectTask keeps the structure.
LEMMA ConnectKeepsStructure ==
  ASSUME Structure, Connect
  PROVE  Structure'
<1> DEFINE f == LowestFree
<1>1. PICK k \in {Fresh("connecting"), Fresh("established")} :
        /\ kernel' = [kernel EXCEPT ![f] = k]
        /\ InsertSocket(sequencer, f, "connecting", NoIdentifier, k, {"out"})
  BY DEF Connect
<1>2. /\ IdentifiersLeft
      /\ sequencer' = sequencer + 1
      /\ stage' = [stage EXCEPT ![sequencer] = "opening"]
      /\ UNCHANGED <<outgoing, wire, written, batch, consumer, current, premature>>
      /\ consumer = "tasks"
  BY DEF Connect
<1>3. f \in Descriptors /\ kernel[f].state = "free"
  BY LowestFreeIsFree DEF Connect
<1>4. NewSocket("connecting", k, {"out"})
  <2>1. CASE k = Fresh("connecting")
    BY <2>1, FreshState DEF NewSocket
  <2>2. CASE k = Fresh("established")
    BY <2>2, FreshState DEF NewSocket
  <2> QED BY <2>1, <2>2
<1> HIDE DEF f
<1>5. TypeOK /\ Position
  BY DEF Structure
<1>6. /\ kernel' \in [Descriptors -> KernelStates] /\ kernel'[f] = k
      /\ \A g \in Descriptors : g # f => kernel'[g] = kernel[g]
      /\ \A g \in Descriptors : kernel[g].backlog \in Nat
      /\ k.backlog = 0
  BY <1>1, <1>3, <1>4, <1>5, ContainerAssumption DEF TypeOK, NewSocket, KernelStates
<1>7. \A g \in Descriptors : kernel'[g].backlog <= kernel[g].backlog
  BY <1>6
<1>8. \A g \in Descriptors : g # f => SameButBacklog(kernel[g], kernel'[g])
  BY <1>6 DEF SameButBacklog
<1>9. sequencer \in Identifiers /\ ClientsHaveIdentifiers'
  BY <1>2, <1>6, <1>7, IdentifierForTask
<1>10. Position' /\ current' \in Identifiers \cup {NoIdentifier}
  BY <1>2, <1>5 DEF Position, TypeOK
<1> QED BY <1>1, <1>2, <1>3, <1>4, <1>6, <1>8, <1>9, <1>10, InsertKeepsStructure

\* The listening socket that the consumer thread accepts for.
LEMMA AcceptingSocket ==
  ASSUME Structure, consumer = "accepting"
  PROVE  /\ current \in Identifiers /\ Present(current) /\ type[current] = "listening"
         /\ descriptor[current] \in Descriptors
         /\ kernel[descriptor[current]] \in KernelStates
         /\ kernel[descriptor[current]].state = "listening"
<1>1. current \in Identifiers /\ type[current] = "listening" /\ Present(current)
  BY DEF Structure, Position, Present
<1>2. /\ descriptor[current] \in Descriptors
      /\ kernel[descriptor[current]] \in KernelStates
  BY <1>1, OwnsDescriptor DEF Structure
<1>3. KernelMatches(current)
  BY <1>1 DEF Structure, SocketsMatch
<1> QED BY <1>1, <1>2, <1>3 DEF KernelMatches

\* An accepted client keeps the structure.
LEMMA AcceptKeepsStructure ==
  ASSUME Structure, Accept
  PROVE  Structure'
<1> DEFINE f == LowestFree
           g0 == descriptor[current]
           k == Fresh("established")
<1>1. /\ kernel' = [OneLess(g0) EXCEPT ![f] = k]
      /\ InsertSocket(sequencer, f, "accepted", current, k, {"in"})
      /\ sequencer' = sequencer + 1
      /\ stage' = [stage EXCEPT ![sequencer] = "open"]
      /\ UNCHANGED <<outgoing, wire, written, batch, premature>>
      /\ \/ consumer' = "accepting" /\ current' = current
         \/ consumer' = "erasing" /\ current' = current
      /\ consumer = "accepting" /\ kernel[g0].backlog > 0
  BY DEF Accept, Throw
<1>2. f \in Descriptors /\ kernel[f].state = "free"
  BY LowestFreeIsFree DEF Accept
<1>3. NewSocket("accepted", k, {"in"})
  BY FreshState DEF NewSocket
<1>4. /\ current \in Identifiers /\ Present(current) /\ type[current] = "listening"
      /\ g0 \in Descriptors /\ kernel[g0].state = "listening"
  BY <1>1, AcceptingSocket
<1>5. TypeOK /\ g0 # f
  BY <1>2, <1>4 DEF Structure
<1>6. /\ OneLess(g0) \in [Descriptors -> KernelStates]
      /\ OneLess(g0)[g0].backlog = kernel[g0].backlog - 1
      /\ \A g \in Descriptors : SameButBacklog(kernel[g], OneLess(g0)[g])
  BY <1>1, <1>4, <1>5, OneLessEffect
<1> HIDE DEF f, g0, k
<1>7. /\ kernel' \in [Descriptors -> KernelStates] /\ kernel'[f] = k
      /\ \A g \in Descriptors : g # f => kernel'[g] = OneLess(g0)[g]
      /\ \A g \in Descriptors : kernel[g].backlog \in Nat
      /\ k.backlog = 0
  BY <1>1, <1>2, <1>3, <1>5, <1>6, ContainerAssumption DEF TypeOK, NewSocket, KernelStates
<1>8. \A g \in Descriptors : g # f => SameButBacklog(kernel[g], kernel'[g])
  BY <1>6, <1>7
<1>9. /\ \A g \in Descriptors : kernel'[g].backlog <= kernel[g].backlog
      /\ kernel'[g0].backlog = kernel[g0].backlog - 1
  BY <1>4, <1>5, <1>6, <1>7, <1>8 DEF SameButBacklog
<1>10. sequencer \in Identifiers /\ ClientsHaveIdentifiers'
  BY <1>1, <1>4, <1>7, <1>9, IdentifierForClient
<1>11. Position'
  <2>1. type' = [type EXCEPT ![sequencer] = "accepted"]
    BY <1>1 DEF InsertSocket
  <2>2. type[sequencer] = "none"
    BY <1>10 DEF Structure, NotGenerated, Identifiers
  <2>3. type'[current] = "listening"
    BY <1>4, <1>5, <2>1, <2>2 DEF TypeOK
  <2> QED BY <1>1, <1>4, <2>3 DEF Position
<1> QED BY <1>1, <1>2, <1>3, <1>4, <1>7, <1>8, <1>10, <1>11, InsertKeepsStructure

\* A client that waits can be accepted.
LEMMA ClientHasIdentifier ==
  ASSUME Structure, NEW f \in Descriptors, kernel[f].backlog > 0
  PROVE  sequencer \in Identifiers
<1>1. kernel[f].backlog \in 1 .. MaxBacklog
  <2>1. kernel[f] \in KernelStates
    BY DEF Structure, TypeOK
  <2> QED BY <2>1, ContainerAssumption DEF KernelStates
<1>2. <<f, kernel[f].backlog>> \in WaitingClients
  BY <1>1 DEF WaitingClients
<1>3. IsFiniteSet(WaitingClients) /\ Cardinality(WaitingClients) \in Nat
  BY WaitingIsFinite DEF WaitingClients
<1>4. Cardinality(WaitingClients) # 0
  BY <1>2, <1>3, FS_EmptySet
<1> QED BY <1>3, <1>4, ContainerAssumption
        DEF Structure, TypeOK, ClientsHaveIdentifiers, Identifiers

\* A user that may open a socket has an identifier for it.
LEMMA TaskHasIdentifier ==
  ASSUME Structure, IdentifiersLeft
  PROVE  sequencer \in Identifiers
<1>1. Cardinality(WaitingClients) \in Nat
  BY WaitingIsFinite DEF WaitingClients
<1> QED BY <1>1, ContainerAssumption DEF Structure, TypeOK, IdentifiersLeft, Identifiers

\* The guards of insertSocket leave both maps as they were before it, and the
\* descriptor closed.
LEMMA UndoInsertRestores ==
  ASSUME Structure, sequencer \in Identifiers, NEW f \in Descriptors, kernel[f].state = "free",
         NEW socketType, NEW opened, UndoInsert(sequencer, f, socketType, opened)
  PROVE  /\ kernel' = [opened EXCEPT ![f] = Free]
         /\ kernel[f] = Free
         /\ UNCHANGED <<type, listening, descriptor, socketOf, interest, ready, reused>>
<1>1. TypeOK /\ socketOf[f] = NoIdentifier /\ kernel[f] = Free
  BY FreeBelongsToNobody DEF Structure
<1>2. type[sequencer] = "none" /\ descriptor[sequencer] = NoDescriptor
  BY DEF Structure, NotGenerated, PresentHasDescriptor, Present, Identifiers
<1>3. type' = type /\ descriptor' = descriptor /\ socketOf' = socketOf
  BY <1>1, <1>2 DEF UndoInsert, TypeOK
<1> QED BY <1>1, <1>3 DEF UndoInsert

\* A listen or connect that fails, whether or not its socket was inserted,
\* uses an identifier up and no more.
LEMMA OpenFailsEffect ==
  ASSUME Structure, OpenFails
  PROVE  /\ consumer = "tasks" /\ IdentifiersLeft /\ sequencer' = sequencer + 1
         /\ sequencer \in Identifiers
         /\ stage' = [stage EXCEPT ![sequencer] = "failed"]
         /\ UNCHANGED <<type, listening, descriptor, socketOf, interest, outgoing, wire, written,
                        kernel, ready, batch, consumer, current, premature, reused>>
<1> DEFINE f == LowestFree
<1>1. /\ consumer = "tasks" /\ IdentifiersLeft /\ sequencer' = sequencer + 1
      /\ stage' = [stage EXCEPT ![sequencer] = "failed"]
      /\ UNCHANGED <<outgoing, wire, written, batch, consumer, current, premature>>
      /\ \/ UNCHANGED <<type, listening, descriptor, socketOf, interest, kernel, ready, reused>>
         \/ /\ FreeDescriptors # {}
            /\ \E socketType, k : UndoInsert(sequencer, f, socketType, [kernel EXCEPT ![f] = k])
  BY DEF OpenFails
<1>2. sequencer \in Identifiers
  BY <1>1, TaskHasIdentifier
<1>3. ASSUME FreeDescriptors # {}, NEW socketType, NEW k,
             UndoInsert(sequencer, f, socketType, [kernel EXCEPT ![f] = k])
      PROVE  UNCHANGED <<type, listening, descriptor, socketOf, interest, kernel, ready, reused>>
  <2>1. f \in Descriptors /\ kernel[f].state = "free"
    BY <1>3, LowestFreeIsFree
  <2> DEFINE opened == [kernel EXCEPT ![f] = k]
  <2>2. UndoInsert(sequencer, f, socketType, opened)
    BY <1>3
  <2> HIDE DEF f, opened
  <2>3. /\ kernel' = [opened EXCEPT ![f] = Free] /\ kernel[f] = Free
        /\ UNCHANGED <<type, listening, descriptor, socketOf, interest, ready, reused>>
    BY <1>2, <2>1, <2>2, UndoInsertRestores
  <2>4. kernel' = kernel
    BY <2>1, <2>3 DEF opened, Structure, TypeOK
  <2> QED BY <2>3, <2>4
<1> QED BY <1>1, <1>2, <1>3

\* The same of an accepted socket: its client is gone from the backlog.
LEMMA InsertFailsEffect ==
  ASSUME Structure, InsertFails
  PROVE  /\ consumer = "accepting" /\ kernel[descriptor[current]].backlog > 0
         /\ kernel' = OneLess(descriptor[current]) /\ sequencer' = sequencer + 1
         /\ sequencer \in Identifiers
         /\ stage' = [stage EXCEPT ![sequencer] = "failed"]
         /\ consumer' = "erasing" /\ current' = current
         /\ UNCHANGED <<type, listening, descriptor, socketOf, interest, outgoing, wire, written,
                        ready, batch, premature, reused>>
<1> DEFINE f == LowestFree
           g0 == descriptor[current]
           k == Fresh("established")
           opened == [OneLess(g0) EXCEPT ![f] = k]
<1>1. /\ consumer = "accepting" /\ kernel[g0].backlog > 0 /\ sequencer' = sequencer + 1
      /\ stage' = [stage EXCEPT ![sequencer] = "failed"]
      /\ consumer' = "erasing" /\ current' = current
      /\ UNCHANGED <<outgoing, wire, written, batch, premature>>
      /\ UndoInsert(sequencer, f, "accepted", opened)
  BY DEF InsertFails, Throw
<1>2. f \in Descriptors /\ kernel[f].state = "free"
  BY LowestFreeIsFree DEF InsertFails
<1>3. g0 \in Descriptors /\ kernel[g0].state = "listening"
  BY <1>1, AcceptingSocket
<1>4. sequencer \in Identifiers
  BY <1>1, <1>3, ClientHasIdentifier
<1> HIDE DEF f, g0, k
<1>5. TypeOK
  BY DEF Structure
<1>6. OneLess(g0)[f] = kernel[f] /\ OneLess(g0) \in [Descriptors -> KernelStates]
  BY <1>1, <1>2, <1>3, <1>5, OneLessEffect DEF OneLess, TypeOK
<1> HIDE DEF opened
<1>7. /\ kernel' = [opened EXCEPT ![f] = Free] /\ kernel[f] = Free
      /\ UNCHANGED <<type, listening, descriptor, socketOf, interest, ready, reused>>
  BY <1>1, <1>2, <1>4, UndoInsertRestores
<1>8. kernel' = OneLess(g0)
  <2> DEFINE o == OneLess(g0)
  <2>1. o[f] = Free /\ o \in [Descriptors -> KernelStates] /\ opened = [o EXCEPT ![f] = k]
    BY <1>6, <1>7 DEF opened
  <2> HIDE DEF o
  <2>2. kernel' = o
    BY <1>2, <1>7, <2>1
  <2> QED BY <2>2 DEF o
<1> QED BY <1>1, <1>4, <1>7, <1>8 DEF g0

\* insertSocket that fails leaves neither an entry nor a descriptor.
LEMMA FailKeepsStructure ==
  ASSUME Structure, OpenFails \/ InsertFails
  PROVE  Structure'
<1>1. TypeOK /\ Position
  BY DEF Structure
<1>2. CASE OpenFails
  <2>1. /\ consumer = "tasks" /\ IdentifiersLeft /\ sequencer' = sequencer + 1
        /\ stage' = [stage EXCEPT ![sequencer] = "failed"]
        /\ UNCHANGED <<type, listening, descriptor, socketOf, interest, outgoing, wire, written,
                       kernel, ready, batch, consumer, current, premature, reused>>
    BY <1>2, OpenFailsEffect
  <2>2. /\ kernel' \in [Descriptors -> KernelStates]
        /\ \A g \in Descriptors : kernel[g].backlog \in Nat
    BY <1>1, <2>1, ContainerAssumption DEF TypeOK, KernelStates
  <2>3. \A g \in Descriptors : /\ kernel'[g].backlog <= kernel[g].backlog
                               /\ SameButBacklog(kernel[g], kernel'[g])
    BY <2>1, <2>2 DEF SameButBacklog
  <2>4. sequencer \in Identifiers /\ ClientsHaveIdentifiers'
    BY <2>1, <2>2, <2>3, IdentifierForTask
  <2>5. Position' /\ current' \in Identifiers \cup {NoIdentifier}
    BY <1>1, <2>1 DEF Position, TypeOK
  <2> QED BY <2>1, <2>2, <2>3, <2>4, <2>5, SpoilKeepsStructure
<1>3. CASE InsertFails
  <2> DEFINE g0 == descriptor[current]
  <2>1. /\ consumer = "accepting" /\ kernel[g0].backlog > 0
        /\ kernel' = OneLess(g0) /\ sequencer' = sequencer + 1
        /\ stage' = [stage EXCEPT ![sequencer] = "failed"]
        /\ consumer' = "erasing" /\ current' = current
        /\ UNCHANGED <<type, listening, descriptor, socketOf, interest, outgoing, wire, written,
                       ready, batch, premature, reused>>
    BY <1>3, InsertFailsEffect
  <2>2. /\ current \in Identifiers /\ type[current] = "listening"
        /\ g0 \in Descriptors /\ kernel[g0].state = "listening"
    BY <2>1, AcceptingSocket
  <2> HIDE DEF g0
  <2>3. /\ kernel' \in [Descriptors -> KernelStates]
        /\ kernel'[g0].backlog = kernel[g0].backlog - 1
        /\ \A g \in Descriptors : SameButBacklog(kernel[g], kernel'[g])
    BY <1>1, <2>1, <2>2, OneLessEffect
  <2>4. \A g \in Descriptors : kernel'[g].backlog <= kernel[g].backlog
    BY <2>3 DEF SameButBacklog
  <2>5. sequencer \in Identifiers /\ ClientsHaveIdentifiers'
    BY <2>1, <2>2, <2>3, <2>4, IdentifierForClient
  <2>6. Position' /\ current' \in Identifiers \cup {NoIdentifier}
    BY <2>1, <2>2 DEF Position
  <2> QED BY <2>1, <2>3, <2>5, <2>6, SpoilKeepsStructure
<1> QED BY <1>2, <1>3

\* The input of a socket that was received: nothing else of the kernel changes.
LEMMA ReceiveKeepsStructure ==
  ASSUME Structure, NEW i \in Identifiers, Connected(i),
         kernel' = [kernel EXCEPT ![descriptor[i]] = [kernel[descriptor[i]] EXCEPT !.input = FALSE]],
         UNCHANGED <<container, interest, outgoing, wire, written, ready, premature>>, Position',
         batch' \in Seq(BatchEvents),
         consumer' \in {"handling", "erasing"}, current' \in Identifiers \cup {NoIdentifier}
  PROVE  Structure'
<1>1. /\ TypeOK /\ ClientsHaveIdentifiers /\ PresentHasDescriptor
      /\ NotGenerated /\ MapsAgree /\ SocketsMatch
  BY DEF Structure
<1>2. UNCHANGED <<sequencer, type, listening, descriptor, socketOf, stage, reused>>
  BY DEF container
<1> DEFINE f == descriptor[i]
           k == [kernel[f] EXCEPT !.input = FALSE]
<1>3. /\ Present(i) /\ f \in Descriptors /\ socketOf[f] = i /\ kernel[f] \in KernelStates
      /\ kernel[f].state # "free" /\ i # NoIdentifier
  BY <1>1, OwnsDescriptor DEF Connected, Present
<1>4. /\ k \in KernelStates
      /\ k.state = kernel[f].state /\ k.backlog = kernel[f].backlog
      /\ k.input = FALSE /\ k.end = kernel[f].end /\ k.space = kernel[f].space
  BY <1>3 DEF KernelStates
<1>5. kernel' = [kernel EXCEPT ![f] = k]
  OBVIOUS
<1> HIDE DEF f, k
<1>6. /\ kernel' \in [Descriptors -> KernelStates]
      /\ kernel'[f] = k
      /\ \A g \in Descriptors : g # f => kernel'[g] = kernel[g]
  <2>1. kernel \in [Descriptors -> KernelStates]
    BY <1>1 DEF TypeOK
  <2> QED BY ONLY <2>1, <1>3, <1>4, <1>5
<1>7. TypeOK'
  BY <1>1, <1>2, <1>6 DEF TypeOK
<1>8. ClientsHaveIdentifiers'
  <2>1. \A g \in Descriptors : kernel'[g].backlog = kernel[g].backlog
    BY <1>3, <1>4, <1>6
  <2>2. WaitingClients' = WaitingClients
    BY <2>1 DEF WaitingClients
  <2> QED BY <1>1, <1>2, <2>2 DEF ClientsHaveIdentifiers
<1>9. PresentHasDescriptor' /\ NotGenerated'
  BY <1>1, <1>2 DEF PresentHasDescriptor, NotGenerated, Present
<1>10. MapsAgree'
  BY <1>1, <1>2, <1>3, <1>4, <1>6 DEF MapsAgree
<1>11. SocketsMatch'
  <2> SUFFICES ASSUME NEW j \in Identifiers, Present(j)
               PROVE  KernelMatches(j)' /\ SubscriptionMatches(j)'
    BY <1>2 DEF SocketsMatch, Present
  <2>1. descriptor[j] \in Descriptors /\ KernelMatches(j) /\ SubscriptionMatches(j)
    BY <1>1 DEF SocketsMatch, PresentHasDescriptor
  <2>2. CASE descriptor[j] # f
    BY <1>2, <1>6, <2>1, <2>2 DEF KernelMatches, SubscriptionMatches, Connected
  <2>3. CASE descriptor[j] = f
    BY <1>2, <1>4, <1>6, <2>1, <2>3 DEF KernelMatches, SubscriptionMatches, Connected, Broken
  <2> QED BY <2>2, <2>3
<1> QED BY <1>7, <1>8, <1>9, <1>10, <1>11 DEF Structure

\* The container is made with the structure.
LEMMA InitStructure ==
  ASSUME Init
  PROVE  Structure
<1>1. TypeOK
  <2>1. <<>> \in Seq(1 .. MaxBytes) /\ <<>> \in Seq(BatchEvents)
    BY EmptySeq
  <2>2. Free \in KernelStates
    BY ContainerAssumption DEF Free, KernelStates
  <2> QED BY <2>1, <2>2, ContainerAssumption DEF Init, TypeOK
<1>2. ClientsHaveIdentifiers
  <2>1. WaitingClients = {}
    <3>1. \A f \in Descriptors : kernel[f].backlog = 0
      BY DEF Init, Free
    <3> QED BY <3>1, ContainerAssumption DEF WaitingClients
  <2> QED BY <2>1, FS_EmptySet, ContainerAssumption DEF Init, ClientsHaveIdentifiers
<1>3. Position /\ PresentHasDescriptor
  BY DEF Init, Position, PresentHasDescriptor, Present
<1>4. NotGenerated
  BY ContainerAssumption DEF Init, NotGenerated, Identifiers, NoIdentifier
<1>5. MapsAgree /\ SocketsMatch
  BY DEF Init, MapsAgree, SocketsMatch, Present
<1> QED BY <1>1, <1>2, <1>3, <1>4, <1>5 DEF Structure

-----------------------------------------------------------------------------
(* What the event poll reports.                                            *)

\* An order of a set has all of its elements.
LEMMA OrdersHold ==
  ASSUME NEW S, IsFiniteSet(S), NEW q \in Orders(S)
  PROVE  /\ q \in Seq(S)
         /\ \A x \in S : \E n \in DOMAIN q : q[n] = x
<1> DEFINE n == Cardinality(S)
           D == 1 .. n
<1>1. n \in Nat
  BY FS_CardinalityType
<1>2. q \in [D -> S] /\ \A l, m \in D : l # m => q[l] # q[m]
  BY DEF Orders
<1>3. IsFiniteSet(D) /\ Cardinality(D) = n
  BY <1>1, FS_Interval
<1>4. q \in Injection(D, S)
  BY <1>2 DEF Injection, IsInjective
<1>5. q \in Surjection(D, S)
  BY <1>3, <1>4, FS_Injection
<1>6. \A x \in S : \E m \in D : q[m] = x
  BY <1>5 DEF Surjection
<1>7. q \in Seq(S)
  <2> HIDE DEF n
  <2> QED BY <1>1, <1>2
<1>8. DOMAIN q = D
  BY <1>2
<1> QED BY <1>6, <1>7, <1>8

Pending == {f \in ready : Events(kernel[f], interest[f]) # {}}
Report(f) == [descriptor |-> f, events |-> Events(kernel[f], interest[f])]

\* Every descriptor that is ready and has an event is reported, with all of
\* its events, and nothing else but the event of the task queue is.
LEMMA WaitReports ==
  ASSUME TypeOK, Wait
  PROVE  /\ batch' \in Seq(BatchEvents)
         /\ \A f \in Pending : \E n \in DOMAIN batch' : batch'[n] = Report(f)
         /\ \A n \in DOMAIN batch' :
              batch'[n] = TaskEvent \/ \E f \in Pending : batch'[n] = Report(f)
<1> DEFINE Reports == {Report(f) : f \in Pending}
           r == [f \in Pending |-> Report(f)]
<1>1. PICK S \in {Reports, Reports \cup {TaskEvent}} : batch' \in Orders(S)
  BY DEF Wait, Pending, Report
<1>2. IsFiniteSet(Reports)
  <2>1. Pending \in SUBSET Descriptors
    BY DEF Pending, TypeOK
  <2>2. IsFiniteSet(Pending)
    <3>1. IsFiniteSet(Descriptors)
      BY FS_Interval, ContainerAssumption DEF Descriptors
    <3> HIDE DEF r, Reports
    <3> QED BY <2>1, <3>1, FS_Subset
  <2>3. r \in Surjection(Pending, Reports)
    BY DEF Surjection
  <2> HIDE DEF r, Reports
  <2> QED BY <2>2, <2>3, FS_Surjection
<1>3. IsFiniteSet(S)
  <2> HIDE DEF Reports
  <2> QED BY <1>1, <1>2, FS_AddElement
<1>4. /\ batch' \in Seq(S)
      /\ \A x \in S : \E n \in DOMAIN batch' : batch'[n] = x
  BY <1>1, <1>3, OrdersHold
<1>5. S \subseteq BatchEvents
  <2>1. \A f \in Pending : f \in Descriptors /\ Events(kernel[f], interest[f]) \subseteq {"in", "out", "err"}
    BY DEF Pending, TypeOK, Events
  <2>2. Reports \subseteq BatchEvents
    BY <2>1 DEF Report, BatchEvents
  <2>3. TaskEvent \in BatchEvents
    BY DEF TaskEvent, BatchEvents
  <2> HIDE DEF Reports
  <2> QED BY <1>1, <2>2, <2>3
<1>6. \A n \in DOMAIN batch' : batch'[n] \in S
  BY <1>4, ElementOfSeq, LenProperties
<1>7. batch' \in Seq(BatchEvents)
  <2>1. \A n \in DOMAIN batch' : batch'[n] \in BatchEvents
    BY <1>5, <1>6
  <2>2. \E n \in Nat : DOMAIN batch' = 1 .. n /\ batch' \in [1 .. n -> S]
    BY <1>4
  <2> QED BY <2>1, <2>2
<1> QED BY <1>1, <1>4, <1>6, <1>7

-----------------------------------------------------------------------------
(* Every step keeps the structure.                                         *)

\* Steps of the consumer thread that change nothing of the container.
ControlStep ==
  \/ FinishTasks \/ Abort \/ Wait \/ EndBatch \/ StartTasks \/ SkipEvent
  \/ AcceptNothing \/ AcceptFails
  \/ \E i \in Identifiers : HandleError(i) \/ HandleListening(i)

\* The steps of the thread between the handlers keep the structure.
LEMMA ControlStepKeepsStructure ==
  ASSUME Structure, ControlStep
  PROVE  Structure'
<1>1. TypeOK /\ Position
  BY DEF Structure
<1>2. /\ batch \in Seq(BatchEvents) /\ current \in Identifiers \cup {NoIdentifier}
      /\ NoIdentifier \in Identifiers \cup {NoIdentifier}
      /\ batch # <<>> => Tail(batch) \in Seq(BatchEvents)
  BY <1>1, HeadTailProperties DEF TypeOK
<1>3. CASE FinishTasks \/ Abort
  <2>1. /\ UNCHANGED <<container, interest, outgoing, wire, written, kernel, premature, ready, batch, current>>
        /\ consumer' \in {"handling", "stopped"}
    BY <1>3 DEF FinishTasks, Abort
  <2> QED BY <1>2, <2>1, ControlKeepsStructure DEF Position
<1>4. CASE Wait
  <2>1. /\ UNCHANGED <<container, interest, outgoing, wire, written, kernel, premature, current>>
        /\ consumer' = "handling" /\ ready' = {}
    BY <1>4 DEF Wait
  <2>2. batch' \in Seq(BatchEvents)
    BY <1>1, <1>4, WaitReports
  <2> QED BY <1>2, <2>1, <2>2, ControlKeepsStructure DEF Position
<1>5. CASE EndBatch
  <2>1. /\ UNCHANGED <<container, interest, outgoing, wire, written, kernel, premature, ready, batch, current>>
        /\ batch = <<>> /\ consumer' = "waiting"
    BY <1>5 DEF EndBatch
  <2> QED BY <1>2, <2>1, ControlKeepsStructure DEF Position
<1>6. CASE StartTasks \/ SkipEvent
  <2>1. /\ UNCHANGED <<container, interest, outgoing, wire, written, kernel, premature, ready, current>>
        /\ batch # <<>> /\ batch' = Tail(batch) /\ consumer' \in {"handling", "tasks"}
    BY <1>6 DEF StartTasks, SkipEvent
  <2> QED BY <1>2, <2>1, ControlKeepsStructure DEF Position
<1>7. CASE AcceptNothing
  <2>1. /\ UNCHANGED <<container, interest, outgoing, wire, written, kernel, premature, ready, batch>>
        /\ consumer' = "handling" /\ current' = NoIdentifier
    BY <1>7 DEF AcceptNothing, Return
  <2> QED BY <1>2, <2>1, ControlKeepsStructure DEF Position
<1>8. CASE AcceptFails
  <2>1. /\ UNCHANGED <<container, interest, outgoing, wire, written, kernel, premature, ready, batch>>
        /\ consumer = "accepting" /\ consumer' = "erasing" /\ current' = current
    BY <1>8 DEF AcceptFails, Throw
  <2>2. Position'
    BY <1>1, <2>1 DEF Position, container
  <2> QED BY <1>2, <2>1, <2>2, ControlKeepsStructure
<1>9. ASSUME NEW i \in Identifiers, HandleError(i) \/ HandleListening(i) PROVE Structure'
  <2>1. /\ UNCHANGED <<container, interest, outgoing, wire, written, kernel, premature, ready>>
        /\ current' = i
        /\ \/ consumer' = "erasing"
           \/ consumer' = "accepting" /\ type[i] = "listening"
        /\ \E events : Handling(i, events)
    BY <1>9 DEF HandleError, HandleListening, Throw
  <2>2. Present(i) /\ batch' \in Seq(BatchEvents)
    BY <2>1, HandledEvent
  <2>3. Position'
    BY <2>1, <2>2 DEF Position, Present, container
  <2> QED BY <2>1, <2>2, <2>3, ControlKeepsStructure
<1> QED BY <1>3, <1>4, <1>5, <1>6, <1>7, <1>8, <1>9 DEF ControlStep

\* Steps that hand bytes to the kernel, or try to: what of the kernel they
\* start from, and what they leave.
SendsFrom(i, bytes, k) ==
  /\ k = kernel[descriptor[i]] \/ k = [kernel[descriptor[i]] EXCEPT !.input = FALSE]
  /\ \/ bytes = <<>> /\ written' = written
     \/ bytes = NextByte(i) /\ MaySend(i) /\ Written(i)
  /\ SendBytes(i, bytes, k)

\* The SOCKET of a connection from which a handler has read and sent is well
\* formed, and no work has come to it meanwhile.
LEMMA SendsFromEffect ==
  ASSUME Structure, NEW i \in Identifiers, Connected(i), NEW bytes, NEW k, SendsFrom(i, bytes, k)
  PROVE  /\ k \in KernelStates /\ bytes \in Seq(1 .. MaxBytes)
         /\ written' \in [Identifiers -> 0 .. MaxBytes]
         /\ descriptor[i] \in Descriptors
         /\ kernel[descriptor[i]] \in KernelStates
         /\ LET k0 == kernel[descriptor[i]] IN
              /\ k.state = k0.state /\ k.backlog = k0.backlog /\ k.space = k0.space
              /\ k.input => k0.input
              /\ k.end => k0.end
<1>1. descriptor[i] \in Descriptors /\ kernel[descriptor[i]] \in KernelStates
  BY OwnsDescriptor DEF Structure, Connected, Present
<1> DEFINE k0 == kernel[descriptor[i]]
           k1 == [k0 EXCEPT !.input = FALSE]
<1>2. /\ k1 \in KernelStates
      /\ k1.state = k0.state /\ k1.backlog = k0.backlog /\ k1.space = k0.space
      /\ ~k1.input /\ k1.end = k0.end
  BY <1>1 DEF KernelStates
<1>3. bytes \in Seq(1 .. MaxBytes) /\ written' \in [Identifiers -> 0 .. MaxBytes]
  <2>1. CASE bytes = <<>> /\ written' = written
    BY <2>1, EmptySeq DEF Structure, TypeOK
  <2>2. CASE bytes = NextByte(i) /\ MaySend(i) /\ Written(i)
    BY <2>2, NextByteIsByte DEF Structure
  <2> QED BY <2>1, <2>2 DEF SendsFrom
<1>4. k = k0 \/ k = k1
  BY DEF SendsFrom
<1> HIDE DEF k0, k1
<1>5. /\ k \in KernelStates
      /\ k.state = k0.state /\ k.backlog = k0.backlog /\ k.space = k0.space
      /\ k.input => k0.input
      /\ k.end => k0.end
  BY <1>1, <1>2, <1>4 DEF k0
<1> QED BY <1>1, <1>3, <1>5 DEF k0

\* The three ways in which an event of a connected socket ends.
InputThrows(i) ==
  /\ Throw(i)
  /\ kernel' = [kernel EXCEPT ![descriptor[i]] = [kernel[descriptor[i]] EXCEPT !.input = FALSE]]
  /\ UNCHANGED <<interest, outgoing, wire, written, ready>>
InputReceived(i) ==
  /\ Return
  /\ kernel' = [kernel EXCEPT ![descriptor[i]] = [kernel[descriptor[i]] EXCEPT !.input = FALSE]]
  /\ UNCHANGED <<interest, outgoing, wire, written, ready>>
InputSends(i, bytes) ==
  LET k == [kernel[descriptor[i]] EXCEPT !.input = FALSE] IN
  /\ Return
  /\ ~Broken(k)
  /\ SendsFrom(i, bytes, k)

\* What follows from a step that handles input, whichever way it ends.
LEMMA HandleInputCases ==
  ASSUME NEW i \in Identifiers, HandleInput(i)
  PROVE  \E events \in SUBSET {"in", "out"} :
           /\ Connected(i) /\ "in" \in events /\ Handling(i, events)
           /\ UNCHANGED <<container, premature>>
           /\ LET k == [kernel[descriptor[i]] EXCEPT !.input = FALSE] IN
              \/ InputThrows(i)
              \/ /\ ~Broken(k) /\ ~k.end
                 /\ \/ InputSends(i, NextByte(i))
                    \/ InputSends(i, <<>>)
                    \/ "out" \notin events /\ InputReceived(i)
<1> DEFINE f == descriptor[i]
           k == [kernel[f] EXCEPT !.input = FALSE]
<1>1. Connected(i) /\ UNCHANGED <<container, premature>>
  BY DEF HandleInput
<1>2. PICK events \in SUBSET {"in", "out"} :
        /\ "in" \in events /\ Handling(i, events)
        /\ \/ /\ Throw(i)
              /\ kernel' = [kernel EXCEPT ![f] = k]
              /\ UNCHANGED <<interest, outgoing, wire, written, ready>>
           \/ /\ ~Broken(k) /\ ~k.end
              /\ Return
              /\ \/ MaySend(i) /\ Written(i) /\ SendBytes(i, NextByte(i), k)
                 \/ written' = written /\ SendBytes(i, <<>>, k)
                 \/ /\ "out" \notin events
                    /\ kernel' = [kernel EXCEPT ![f] = k]
                    /\ UNCHANGED <<interest, outgoing, wire, written, ready>>
  BY DEF HandleInput
<1> QED BY <1>1, <1>2 DEF InputThrows, InputReceived, InputSends, SendsFrom

\* The input handler, with the responses it sends, keeps the structure.
LEMMA HandleInputKeepsStructure ==
  ASSUME Structure, NEW i \in Identifiers, HandleInput(i)
  PROVE  Structure'
<1>1. PICK events \in SUBSET {"in", "out"} :
        /\ Connected(i) /\ Handling(i, events)
        /\ UNCHANGED <<container, premature>>
        /\ \/ InputThrows(i) \/ InputReceived(i)
           \/ InputSends(i, NextByte(i)) \/ InputSends(i, <<>>)
  BY HandleInputCases
<1>2. batch' \in Seq(BatchEvents)
  BY <1>1, HandledEvent
<1>3. type[i] # "none" /\ type' = type
  BY <1>1 DEF Connected, container
<1>4. CASE InputThrows(i) \/ InputReceived(i)
  <2>1. /\ kernel' = [kernel EXCEPT ![descriptor[i]] = [kernel[descriptor[i]] EXCEPT !.input = FALSE]]
        /\ UNCHANGED <<interest, outgoing, wire, written, ready>>
        /\ \/ consumer' = "handling" /\ current' = NoIdentifier
           \/ consumer' = "erasing" /\ current' = i
    BY <1>4 DEF InputThrows, InputReceived, Throw, Return
  <2>2. Position'
    BY <1>3, <2>1 DEF Position
  <2> QED BY <1>1, <1>2, <2>1, <2>2, ReceiveKeepsStructure
<1>5. ASSUME NEW bytes, InputSends(i, bytes) PROVE Structure'
  <2>1. /\ consumer' = "handling" /\ current' = NoIdentifier
        /\ SendsFrom(i, bytes, [kernel[descriptor[i]] EXCEPT !.input = FALSE])
    BY <1>5 DEF InputSends, Return
  <2>2. Position'
    BY <2>1 DEF Position
  <2> DEFINE k == [kernel[descriptor[i]] EXCEPT !.input = FALSE]
  <2>3. SendsFrom(i, bytes, k) /\ SendBytes(i, bytes, k)
    BY <2>1 DEF SendsFrom
  <2> HIDE DEF k
  <2> QED BY <1>1, <1>2, <2>1, <2>2, <2>3, SendsFromEffect, SendKeepsStructure
<1> QED BY <1>1, <1>4, <1>5

\* The output handler keeps the structure.
LEMMA HandleOutputKeepsStructure ==
  ASSUME Structure, NEW i \in Identifiers, HandleOutput(i)
  PROVE  Structure'
<1>1. /\ Connected(i) /\ Handling(i, {"out"})
      /\ UNCHANGED <<container, premature>>
      /\ \/ /\ Throw(i)
            /\ UNCHANGED <<interest, outgoing, wire, written, kernel, ready>>
         \/ /\ Return
            /\ SendBytes(i, <<>>, kernel[descriptor[i]])
            /\ written' = written
  BY DEF HandleOutput
<1>2. batch' \in Seq(BatchEvents)
  BY <1>1, HandledEvent
<1>3. type[i] # "none" /\ type' = type
  BY <1>1 DEF Connected, container
<1>4. CASE Throw(i) /\ UNCHANGED <<interest, outgoing, wire, written, kernel, ready>>
  <2>1. Position'
    BY <1>3, <1>4 DEF Position, Throw
  <2> QED BY <1>1, <1>2, <1>4, <2>1, ControlKeepsStructure DEF Throw
<1>5. CASE Return /\ SendBytes(i, <<>>, kernel[descriptor[i]]) /\ written' = written
  <2> DEFINE k == kernel[descriptor[i]]
             b == <<>>
  <2>1. SendsFrom(i, b, k) /\ SendBytes(i, b, k)
    BY <1>5 DEF SendsFrom
  <2>2. Position' /\ consumer' = "handling" /\ current' = NoIdentifier
    BY <1>5 DEF Position, Return
  <2> HIDE DEF k, b
  <2> QED BY <1>1, <1>2, <2>1, <2>2, SendsFromEffect, SendKeepsStructure
<1> QED BY <1>1, <1>4, <1>5

\* SendBytesTask and SendRequestTask keep the structure.
LEMMA SendStepKeepsStructure ==
  ASSUME Structure, NEW i \in Identifiers, Send(i)
  PROVE  Structure'
<1> DEFINE k == kernel[descriptor[i]]
           b == NextByte(i)
<1>1. /\ Connected(i) /\ SendBytes(i, b, k) /\ SendsFrom(i, b, k)
      /\ UNCHANGED <<container, batch, consumer, current, premature>>
      /\ consumer = "tasks"
  BY DEF Send, SendsFrom
<1>2. /\ Position' /\ batch' \in Seq(BatchEvents)
      /\ consumer' = "tasks" /\ current' \in Identifiers \cup {NoIdentifier}
  BY <1>1 DEF Structure, Position, TypeOK, container
<1> HIDE DEF k, b
<1> QED BY <1>1, <1>2, SendsFromEffect, SendKeepsStructure

\* The steps of the consumer thread and of the kernel, one by one.
LEMMA StructureStep ==
  ASSUME Structure, [Next]_vars
  PROVE  Structure'
<1>1. CASE Environment
  BY <1>1, KernelStepKeepsStructure DEF Environment
<1>2. CASE ControlStep
  BY <1>2, ControlStepKeepsStructure
<1>3. CASE OpenFails \/ InsertFails
  BY <1>3, FailKeepsStructure
<1>4. CASE Listen
  BY <1>4, ListenKeepsStructure
<1>5. CASE Connect
  BY <1>5, ConnectKeepsStructure
<1>6. CASE Accept
  BY <1>6, AcceptKeepsStructure
<1>7. ASSUME NEW i \in Identifiers, Send(i) PROVE Structure'
  BY <1>7, SendStepKeepsStructure
<1>8. ASSUME NEW i \in Identifiers, SendThrows(i) PROVE Structure'
  BY <1>8, SendThrowsKeepsStructure
<1>9. ASSUME NEW i \in Identifiers, Close(i) PROVE Structure'
  <2>1. /\ EraseSocket(i) /\ consumer' = "tasks" /\ batch' = batch /\ current' = current
        /\ current' \in Identifiers \cup {NoIdentifier}
    BY <1>9 DEF Close, Structure, TypeOK
  <2> QED BY <2>1, EraseKeepsStructure DEF Position
<1>10. CASE Erase
  <2>1. /\ EraseSocket(current) /\ consumer' = "handling" /\ batch' = batch
        /\ current' = NoIdentifier /\ current \in Identifiers
    BY <1>10 DEF Erase, Return, Structure, Position
  <2> QED BY <2>1, EraseKeepsStructure DEF Position
<1>11. ASSUME NEW i \in Identifiers, HandleConnecting(i) PROVE Structure'
  BY <1>11, HandleConnectingKeepsStructure
<1>12. ASSUME NEW i \in Identifiers, HandleInput(i) PROVE Structure'
  BY <1>12, HandleInputKeepsStructure
<1>13. ASSUME NEW i \in Identifiers, HandleOutput(i) PROVE Structure'
  BY <1>13, HandleOutputKeepsStructure
<1>14. CASE UNCHANGED vars
  <2>1. UNCHANGED <<container, interest, outgoing, wire, written, kernel, premature, ready, batch,
                    consumer, current>>
    BY <1>14 DEF vars, container
  <2> QED BY <2>1, ControlKeepsStructure DEF Structure, TypeOK, Position, container
<1> QED BY <1>1, <1>2, <1>3, <1>4, <1>5, <1>6, <1>7, <1>8, <1>9, <1>10, <1>11, <1>12, <1>13, <1>14
        DEF Next, Tasks, Handler, ControlStep

\* The structure of the container is never broken: the maps, the sockets and
\* what the kernel and the event poll have of them belong together, the
\* identifiers are those generated, and the thread is at a socket it may
\* handle.  It is inductive, and all that follows rests on it.
THEOREM StructureInvariant == Spec => []Structure
<1>1. Init => Structure
  BY InitStructure
<1>2. Structure /\ [Next]_vars => Structure'
  BY StructureStep
<1> QED BY <1>1, <1>2, PTL DEF Spec

\* Every variable of the container, of the event poll and of the kernel keeps
\* its type: no identifier is used beyond those generated, no descriptor
\* beyond those open, and no byte is one that was not sent.
THEOREM TypeCorrect == Spec => []TypeOK
<1>1. Structure => TypeOK
  BY DEF Structure
<1> QED BY <1>1, StructureInvariant, PTL

\* The two maps, the event poll and the kernel agree after every handler,
\* task and failure of insertSocket, accept4 or a callback, for any number of
\* sockets and descriptors.
THEOREM MapsAlwaysAgree == Spec => []MapsAgree
<1>1. Structure => MapsAgree
  BY DEF Structure
<1> QED BY <1>1, StructureInvariant, PTL

-----------------------------------------------------------------------------
(* Bytes reach the wire in order.                                          *)

\* Numbers in order, followed by the next of them.
LEMMA OneMoreInOrder ==
  ASSUME NEW T, NEW s \in Seq(T), NEW n \in T, n = Len(s) + 1, s = [m \in 1 .. Len(s) |-> m]
  PROVE  s \o <<n>> = [m \in 1 .. Len(s \o <<n>>) |-> m]
<1> DEFINE l == Len(s)
           t == s \o <<n>>
<1>1. l \in Nat /\ <<n>> \in Seq(T) /\ Len(<<n>>) = 1 /\ <<n>>[1] = n
  BY LenProperties
<1>2. /\ t \in Seq(T) /\ Len(t) = l + 1
      /\ \A m \in 1 .. l + 1 : t[m] = IF m <= l THEN s[m] ELSE <<n>>[m - l]
  BY <1>1, ConcatProperties
<1>3. /\ \A m \in 1 .. l : s[m] = m
      /\ n = l + 1
  OBVIOUS
<1> HIDE DEF t, l
<1>4. ASSUME NEW m \in 1 .. l + 1 PROVE t[m] = m
  <2>1. CASE m <= l
    BY <1>1, <1>2, <1>3, <2>1
  <2>2. CASE m = l + 1
    <3>1. m - l = 1 /\ ~ (m <= l)
      BY <1>1, <2>2
    <3> QED BY <1>1, <1>2, <1>3, <2>2, <3>1
  <2> QED BY <1>1, <2>1, <2>2
<1>5. t \in [1 .. l + 1 -> T]
  BY <1>1, <1>2, LenProperties
<1>6. t = [m \in 1 .. l + 1 |-> m]
  BY <1>4, <1>5
<1> QED BY <1>2, <1>6 DEF t

InOrder(i) == wire[i] \o outgoing[i] = [n \in 1 .. written[i] |-> n]

\* A step that adds the next byte of a socket, or nothing, keeps the order.
LEMMA SentInOrder ==
  ASSUME TypeOK, NEW i \in Identifiers, InOrder(i), NEW bytes,
         \/ bytes = <<>> /\ written' = written
         \/ bytes = NextByte(i) /\ MaySend(i) /\ Written(i),
         wire'[i] \o outgoing'[i] = (wire[i] \o outgoing[i]) \o bytes
  PROVE  InOrder(i)'
<1> DEFINE T == 1 .. MaxBytes
           w == wire[i]
           o == outgoing[i]
           all == w \o o
           m == written[i]
<1>1. w \in Seq(T) /\ o \in Seq(T) /\ m \in Nat
  BY ContainerAssumption DEF TypeOK
<1>2. all = [n \in 1 .. m |-> n]
  BY DEF InOrder
<1>3. wire'[i] \o outgoing'[i] = all \o bytes
  OBVIOUS
<1>4. \/ bytes = <<>> /\ written'[i] = m
      \/ bytes = <<m + 1>> /\ m + 1 \in T /\ written'[i] = m + 1
  BY NextByteIsByte DEF NextByte
<1> HIDE DEF T, w, o
<1>5. all \in Seq(T)
  BY <1>1, ConcatProperties
<1> HIDE DEF all, m
<1>6. Len(all) = m
  BY <1>1, <1>2, <1>5
<1>7. CASE bytes = <<>> /\ written'[i] = m
  <2>1. all \o bytes = all
    BY <1>5, <1>7, ConcatEmptySeq
  <2> QED BY <1>2, <1>3, <1>7, <2>1 DEF InOrder
<1>8. CASE bytes = <<m + 1>> /\ m + 1 \in T /\ written'[i] = m + 1
  <2> DEFINE n == m + 1
  <2>1. n \in T /\ n = Len(all) + 1 /\ bytes = <<n>> /\ all = [j \in 1 .. Len(all) |-> j]
    BY <1>2, <1>6, <1>8
  <2>2. written'[i] = n
    BY <1>8
  <2> HIDE DEF n
  <2>3. all \o bytes = [j \in 1 .. Len(all \o bytes) |-> j] /\ Len(all \o bytes) = n
    BY <1>5, <2>1, OneMoreInOrder
  <2> QED BY <1>3, <2>2, <2>3 DEF InOrder
<1> QED BY <1>4, <1>7, <1>8

\* A socket that sends.
LEMMA SendingInOrder ==
  ASSUME Structure, WireInOrder, NEW i \in Identifiers, Connected(i), NEW bytes, NEW k,
         SendsFrom(i, bytes, k)
  PROVE  WireInOrder'
<1>1. TypeOK /\ descriptor[i] \in Descriptors /\ k \in KernelStates /\ bytes \in Seq(1 .. MaxBytes)
  BY SendsFromEffect DEF Structure
<1>2. /\ SendBytes(i, bytes, k)
      /\ \/ bytes = <<>> /\ written' = written
         \/ bytes = NextByte(i) /\ MaySend(i) /\ Written(i)
  BY DEF SendsFrom
<1>3. SendOutcome(i, bytes, k)
  BY <1>1, <1>2, SendEffect
<1>4. /\ \A j \in Identifiers : j # i => wire'[j] = wire[j] /\ outgoing'[j] = outgoing[j]
      /\ wire'[i] \o outgoing'[i] = (wire[i] \o outgoing[i]) \o bytes
  BY <1>3 DEF SendOutcome
<1>5. \A j \in Identifiers : j # i => written'[j] = written[j]
  BY <1>1, <1>2, NextByteIsByte
<1>6. InOrder(i)'
  BY <1>1, <1>2, <1>4, SentInOrder DEF WireInOrder, InOrder
<1> QED BY <1>4, <1>5, <1>6 DEF WireInOrder, InOrder

\* Every step keeps the bytes in order.
LEMMA WireInOrderStep ==
  ASSUME Structure, WireInOrder, [Next]_vars
  PROVE  WireInOrder'
<1>1. CASE UNCHANGED <<outgoing, wire, written>>
  BY <1>1 DEF WireInOrder
<1>2. ASSUME NEW i \in Identifiers, Send(i) PROVE WireInOrder'
  <2>1. Connected(i) /\ SendsFrom(i, NextByte(i), kernel[descriptor[i]])
    BY <1>2 DEF Send, SendsFrom
  <2> QED BY <2>1, SendingInOrder
<1>3. ASSUME NEW i \in Identifiers, SendThrows(i) PROVE WireInOrder'
  <2> DEFINE T == 1 .. MaxBytes
             w == wire[i]
             o == outgoing[i]
             b == NextByte(i)
  <2>1. TypeOK /\ MaySend(i)
    BY <1>3 DEF Structure, SendThrows
  <2>2. /\ w \in Seq(T) /\ o \in Seq(T) /\ b \in Seq(T)
        /\ wire' = wire /\ outgoing'[i] = o \o b /\ Written(i)
        /\ \A j \in Identifiers : j # i => outgoing'[j] = outgoing[j] /\ written'[j] = written[j]
    BY <1>3, <2>1, NextByteIsByte DEF SendThrows, TypeOK
  <2> HIDE DEF T, w, o, b
  <2>3. (w \o o) \o b = w \o (o \o b)
    BY <2>2, ConcatAssociative
  <2>4. wire'[i] \o outgoing'[i] = (wire[i] \o outgoing[i]) \o NextByte(i)
    BY <2>2, <2>3 DEF w, o, b
  <2>5. InOrder(i)'
    BY <2>1, <2>2, <2>4, SentInOrder DEF WireInOrder, InOrder
  <2> QED BY <2>2, <2>5 DEF WireInOrder, InOrder
<1>4. ASSUME NEW i \in Identifiers, EraseSocket(i) PROVE WireInOrder'
  <2>1. /\ outgoing'[i] = <<>> /\ wire'[i] = <<>> /\ written'[i] = 0
        /\ \A j \in Identifiers : j # i => /\ outgoing'[j] = outgoing[j] /\ wire'[j] = wire[j]
                                           /\ written'[j] = written[j]
    BY <1>4 DEF EraseSocket, Structure, TypeOK
  <2>2. <<>> \o <<>> = [n \in 1 .. 0 |-> n]
    OBVIOUS
  <2> QED BY <2>1, <2>2 DEF WireInOrder
<1>5. ASSUME NEW i \in Identifiers, HandleInput(i) PROVE WireInOrder'
  <2>1. /\ Connected(i)
        /\ \/ InputThrows(i) \/ InputReceived(i)
           \/ InputSends(i, NextByte(i)) \/ InputSends(i, <<>>)
    BY <1>5, HandleInputCases
  <2>2. ASSUME NEW bytes, InputSends(i, bytes) PROVE WireInOrder'
    BY <2>1, <2>2, SendingInOrder DEF InputSends
  <2> QED BY <1>1, <2>1, <2>2 DEF InputThrows, InputReceived
<1>6. ASSUME NEW i \in Identifiers, HandleOutput(i) PROVE WireInOrder'
  <2>1. /\ Connected(i)
        /\ UNCHANGED <<outgoing, wire, written>> \/ SendsFrom(i, <<>>, kernel[descriptor[i]])
    BY <1>6 DEF HandleOutput, SendsFrom
  <2> QED BY <1>1, <2>1, SendingInOrder
<1>7. ASSUME Erase PROVE WireInOrder'
  BY <1>4, <1>7 DEF Erase, Structure, Position
<1>8. CASE Environment
  BY <1>1, <1>8 DEF Environment, KernelStep
<1>9. CASE UNCHANGED vars
  BY <1>1, <1>9 DEF vars
<1>10. CASE Wait \/ EndBatch \/ StartTasks \/ SkipEvent \/ OpenFails \/ FinishTasks \/ Abort
  BY <1>1, <1>10 DEF Wait, EndBatch, StartTasks, SkipEvent, OpenFails, FinishTasks, Abort
<1>11. CASE Listen \/ Connect \/ AcceptNothing \/ AcceptFails \/ Accept \/ InsertFails
  BY <1>1, <1>11 DEF Listen, Connect, AcceptNothing, AcceptFails, Accept, InsertFails
<1>12. ASSUME NEW i \in Identifiers, HandleError(i) \/ HandleListening(i) \/ HandleConnecting(i)
       PROVE  WireInOrder'
  BY <1>1, <1>12 DEF HandleError, HandleListening, HandleConnecting
<1>13. ASSUME NEW i \in Identifiers, Close(i) PROVE WireInOrder'
  BY <1>4, <1>13 DEF Close
<1> QED BY <1>2, <1>3, <1>5, <1>6, <1>7, <1>8, <1>9, <1>10, <1>11, <1>12, <1>13
        DEF Next, Tasks, Handler

\* The peer of each socket gets its bytes in the order in which they were
\* sent, whatever pieces the kernel takes of them, however many responses are
\* appended to what is left, and whether or not a send throws.
THEOREM WireAlwaysInOrder == Spec => []WireInOrder
<1>1. Init => WireInOrder
  <2> SUFFICES ASSUME Init PROVE WireInOrder
    OBVIOUS
  <2>1. <<>> \o <<>> = [n \in 1 .. 0 |-> n]
    OBVIOUS
  <2> QED BY <2>1 DEF Init, WireInOrder
<1>2. Structure /\ WireInOrder /\ [Next]_vars => WireInOrder'
  BY WireInOrderStep
<1> QED BY <1>1, <1>2, StructureInvariant, PTL DEF Spec

-----------------------------------------------------------------------------
(* No edge is lost: whatever is left to do on a socket is going to be      *)
(* looked at.                                                              *)

Looked(i) == consumer \in {"accepting", "erasing"} /\ current = i

\* Nothing that covers the socket is taken away.
Undisturbed(i) ==
  /\ descriptor'[i] = descriptor[i]
  /\ descriptor[i] \in ready => descriptor[i] \in ready'
  /\ Looked(i) => Looked(i)'
  /\ \/ batch' = batch
     \/ batch # <<>> /\ batch' = Tail(batch) /\ Head(batch).descriptor # descriptor[i]

\* Nothing is added to what is left to do on the socket.
NoMoreWork(i) ==
  LET k0 == kernel[descriptor[i]]
      k  == kernel'[descriptor[i]]
  IN /\ type'[i] = type[i] /\ outgoing'[i] = outgoing[i]
     /\ Broken(k) => Broken(k0)
     /\ k.backlog > 0 \/ k.input \/ k.end => k0.backlog > 0 \/ k0.input \/ k0.end
     /\ k.state = "established" => k0.state = "established"
     /\ k.space > 0 => k0.space > 0

\* An event of the batch other than the first is in the tail.
LEMMA InTail ==
  ASSUME NEW T, NEW q \in Seq(T), q # <<>>, NEW n \in DOMAIN q
  PROVE  q[n] = Head(q) \/ \E m \in DOMAIN Tail(q) : Tail(q)[m] = q[n]
<1>1. /\ Tail(q) \in Seq(T) /\ Len(Tail(q)) = Len(q) - 1
      /\ \A m \in 1 .. Len(Tail(q)) : Tail(q)[m] = q[m + 1]
      /\ Head(q) = q[1]
  BY HeadTailProperties
<1>2. /\ DOMAIN q = 1 .. Len(q) /\ Len(q) \in Nat
      /\ DOMAIN Tail(q) = 1 .. Len(Tail(q))
  BY <1>1, LenProperties
<1>3. CASE n = 1
  BY <1>1, <1>3
<1>4. CASE n # 1
  <2>1. n - 1 \in 1 .. Len(Tail(q)) /\ (n - 1) + 1 = n
    BY <1>1, <1>2, <1>4
  <2> QED BY <1>1, <1>2, <2>1
<1> QED BY <1>3, <1>4

\* Work that was covered is so after a step that keeps what covers it.
LEMMA StillCovered ==
  ASSUME Structure, NEW i \in Identifiers, NEW events, Covered(i, events),
         descriptor'[i] = descriptor[i],
         descriptor[i] \in ready => descriptor[i] \in ready',
         Looked(i) => Looked(i)',
         \/ batch' = batch
         \/ /\ batch # <<>> /\ batch' = Tail(batch)
            /\ Head(batch).descriptor # descriptor[i] \/ Head(batch).events \cap events = {}
  PROVE  Covered(i, events)'
<1>1. CASE descriptor[i] \in ready \/ Looked(i)
  BY <1>1 DEF Covered, Looked
<1>2. CASE \E n \in DOMAIN batch :
             batch[n].descriptor = descriptor[i] /\ batch[n].events \cap events # {}
  <2>1. PICK n \in DOMAIN batch :
          batch[n].descriptor = descriptor[i] /\ batch[n].events \cap events # {}
    BY <1>2
  <2>2. CASE batch' = batch
    BY <2>1, <2>2 DEF Covered
  <2>3. CASE /\ batch # <<>> /\ batch' = Tail(batch)
             /\ Head(batch).descriptor # descriptor[i] \/ Head(batch).events \cap events = {}
    <3>1. batch \in Seq(BatchEvents)
      BY DEF Structure, TypeOK
    <3>2. batch[n] = Head(batch) \/ \E m \in DOMAIN Tail(batch) : Tail(batch)[m] = batch[n]
      BY <2>1, <2>3, <3>1, InTail
    <3>3. \E m \in DOMAIN Tail(batch) : Tail(batch)[m] = batch[n]
      BY <2>1, <2>3, <3>2
    <3> QED BY <2>1, <2>3, <3>3 DEF Covered
  <2> QED BY <2>2, <2>3
<1> QED BY <1>1, <1>2 DEF Covered, Looked

\* A socket that a step does not disturb stays covered.
LEMMA UndisturbedCovered ==
  ASSUME Structure, NEW i \in Identifiers, NEW events, Covered(i, events), Undisturbed(i)
  PROVE  Covered(i, events)'
BY StillCovered DEF Undisturbed

\* A step at one socket keeps all others covered.
LEMMA OthersCovered ==
  ASSUME Structure, NEW i \in Identifiers, WorkCovered(i), Undisturbed(i), NoMoreWork(i)
  PROVE  WorkCovered(i)'
<1> DEFINE d == descriptor[i]
           k0 == kernel[d]
           k  == kernel'[d]
<1>1. \A events : Covered(i, events) => Covered(i, events)'
  BY UndisturbedCovered
<1>2. /\ Covered(i, {"err"}) => Covered(i, {"err"})'
      /\ Covered(i, {"in", "err"}) => Covered(i, {"in", "err"})'
      /\ Covered(i, {"out", "err"}) => Covered(i, {"out", "err"})'
  BY <1>1
<1>3. /\ Broken(k0) => Covered(i, {"err"})
      /\ type[i] # "connecting" /\ (k0.backlog > 0 \/ k0.input \/ k0.end) => Covered(i, {"in", "err"})
      /\ type[i] = "connecting" /\ k0.state = "established" => Covered(i, {"out", "err"})
      /\ outgoing[i] # <<>> /\ k0.space > 0 => Covered(i, {"out", "err"})
  BY DEF WorkCovered
<1>4. /\ type'[i] = type[i] /\ outgoing'[i] = outgoing[i] /\ descriptor'[i] = d
      /\ Broken(k) => Broken(k0)
      /\ k.backlog > 0 \/ k.input \/ k.end => k0.backlog > 0 \/ k0.input \/ k0.end
      /\ k.state = "established" => k0.state = "established"
      /\ k.space > 0 => k0.space > 0
  BY DEF NoMoreWork, Undisturbed
<1> HIDE DEF k0
<1>5. WorkCovered(i)' <=>
        /\ Broken(k) => Covered(i, {"err"})'
        /\ type[i] # "connecting" /\ (k.backlog > 0 \/ k.input \/ k.end) => Covered(i, {"in", "err"})'
        /\ type[i] = "connecting" /\ k.state = "established" => Covered(i, {"out", "err"})'
        /\ outgoing[i] # <<>> /\ k.space > 0 => Covered(i, {"out", "err"})'
  BY <1>4 DEF WorkCovered, Broken
<1> HIDE DEF k
<1> QED BY <1>2, <1>3, <1>4, <1>5

\* A socket of another descriptor.
LEMMA OtherSocket ==
  ASSUME Structure, NEW i \in Identifiers, Present(i), NEW j \in Identifiers, Present(j), j # i
  PROVE  descriptor[j] # descriptor[i] /\ descriptor[j] \in Descriptors
BY OwnsDescriptor DEF Structure

\* Numbers of the kernel are numbers.
LEMMA KernelNumbers ==
  ASSUME Structure, NEW f \in Descriptors
  PROVE  kernel[f] \in KernelStates /\ kernel[f].backlog \in Nat /\ kernel[f].space \in Nat
<1>1. kernel[f] \in KernelStates
  BY DEF Structure, TypeOK
<1> QED BY <1>1, ContainerAssumption DEF KernelStates

\* A peer that makes work for a socket makes its descriptor ready.
LEMMA KernelStepCovers ==
  ASSUME Structure, EdgesCovered, NEW f \in Descriptors, KernelStep(f)
  PROVE  EdgesCovered'
<1>1. TypeOK
  BY DEF Structure
<1>2. PICK k \in KernelStates : kernel' = [kernel EXCEPT ![f] = k] /\ KernelMoves(f, k)
  BY <1>1, KernelStepEffect
<1>3. UNCHANGED <<type, descriptor, interest, outgoing, batch, consumer, current>>
  BY DEF KernelStep, container
<1>4. /\ kernel'[f] = k
      /\ \A g \in Descriptors : g # f => kernel'[g] = kernel[g]
      /\ ready \subseteq ready'
  BY <1>1, <1>2 DEF TypeOK, KernelMoves
<1> SUFFICES ASSUME NEW i \in Identifiers, Present(i) PROVE WorkCovered(i)'
  BY <1>3 DEF EdgesCovered, Present
<1>5. /\ descriptor[i] \in Descriptors /\ WorkCovered(i) /\ Undisturbed(i)
      /\ SubscriptionMatches(i)
  BY <1>3, <1>4 DEF Structure, PresentHasDescriptor, EdgesCovered, Undisturbed, Looked, SocketsMatch
<1>6. CASE descriptor[i] # f
  <2>1. NoMoreWork(i)
    BY <1>3, <1>4, <1>5, <1>6 DEF NoMoreWork
  <2> QED BY <1>5, <2>1, OthersCovered
<1>7. CASE descriptor[i] = f
  <2> DEFINE k0 == kernel[f]
  <2>1. f \in ready' => \A events : Covered(i, events)'
    BY <1>3, <1>7 DEF Covered
  <2>2. \A events : Covered(i, events) => Covered(i, events)'
    BY <1>5, UndisturbedCovered
  <2>3. /\ Covered(i, {"in", "err"}) \/ f \in ready' => Covered(i, {"in", "err"})'
        /\ Covered(i, {"out", "err"}) \/ f \in ready' => Covered(i, {"out", "err"})'
        /\ f \in ready' => Covered(i, {"err"})'
    BY <2>1, <2>2
  <2>4. /\ ~Broken(k0)
        /\ Broken(k) => f \in ready'
        /\ k.backlog > 0 \/ k.input \/ k.end =>
             k0.backlog > 0 \/ k0.input \/ k0.end \/ ("in" \in interest[f] => f \in ready')
        /\ k.state = "established" =>
             k0.state = "established" \/ ("out" \in interest[f] => f \in ready')
        /\ k.space > 0 => k0.space > 0 \/ ("out" \in interest[f] => f \in ready')
    BY <1>2 DEF KernelMoves
  <2>5. /\ type[i] # "connecting" => "in" \in interest[f]
        /\ type[i] = "connecting" => "out" \in interest[f]
        /\ outgoing[i] # <<>> => "out" \in interest[f]
    <3>1. type[i] \in {"listening", "connecting", "connected", "accepted"}
      BY <1>1 DEF Present, TypeOK
    <3> QED BY <1>5, <1>7, <2>4, <3>1 DEF SubscriptionMatches, Connected
  <2>6. /\ type[i] # "connecting" /\ (k0.backlog > 0 \/ k0.input \/ k0.end) => Covered(i, {"in", "err"})
        /\ type[i] = "connecting" /\ k0.state = "established" => Covered(i, {"out", "err"})
        /\ outgoing[i] # <<>> /\ k0.space > 0 => Covered(i, {"out", "err"})
    BY <1>5, <1>7 DEF WorkCovered
  <2>7. WorkCovered(i)' <=>
          /\ Broken(k) => Covered(i, {"err"})'
          /\ type[i] # "connecting" /\ (k.backlog > 0 \/ k.input \/ k.end) => Covered(i, {"in", "err"})'
          /\ type[i] = "connecting" /\ k.state = "established" => Covered(i, {"out", "err"})'
          /\ outgoing[i] # <<>> /\ k.space > 0 => Covered(i, {"out", "err"})'
    BY <1>3, <1>4, <1>7 DEF WorkCovered, Broken
  <2> HIDE DEF k0
  <2> QED BY <2>3, <2>4, <2>5, <2>6, <2>7
<1> QED BY <1>6, <1>7

\* What is left to do on a socket is an event that it is subscribed to.
LEMMA WorkIsEvent ==
  ASSUME Structure, NEW i \in Identifiers, Present(i)
  PROVE  LET k == kernel[descriptor[i]]
             e == Events(k, interest[descriptor[i]]) IN
         /\ Broken(k) => "err" \in e
         /\ type[i] # "connecting" /\ (k.backlog > 0 \/ k.input \/ k.end) => "in" \in e
         /\ type[i] = "connecting" /\ k.state = "established" => "out" \in e
         /\ outgoing[i] # <<>> /\ k.space > 0 => "out" \in e \/ "err" \in e
<1> DEFINE d == descriptor[i]
           k == kernel[d]
<1>1. /\ TypeOK /\ d \in Descriptors /\ KernelMatches(i) /\ SubscriptionMatches(i)
  BY DEF Structure, PresentHasDescriptor, SocketsMatch
<1>2. type[i] \in {"listening", "connecting", "connected", "accepted"}
  BY <1>1 DEF Present, TypeOK
<1>3. /\ type[i] # "connecting" => "in" \in interest[d]
      /\ type[i] = "connecting" => "out" \in interest[d]
      /\ outgoing[i] # <<>> => "out" \in interest[d] \/ Broken(k)
  BY <1>1, <1>2 DEF SubscriptionMatches, Connected
<1>4. /\ k.space > 0 => k.state \in {"established", "reset"}
      /\ type[i] = "connecting" /\ k.state = "established" => k.space = MaxSpace
  BY <1>1 DEF KernelMatches
<1>5. MaxSpace > 0
  BY ContainerAssumption
<1> HIDE DEF k
<1>6. /\ Broken(k) => "err" \in Events(k, interest[d])
      /\ "in" \in interest[d] /\ (k.backlog > 0 \/ k.input \/ k.end) => "in" \in Events(k, interest[d])
      /\ "out" \in interest[d] /\ k.state = "established" /\ k.space > 0 => "out" \in Events(k, interest[d])
  BY DEF Events
<1>7. k.state = "reset" => Broken(k)
  BY DEF Broken
<1> QED BY <1>3, <1>4, <1>5, <1>6, <1>7 DEF k

\* Events that epoll_wait takes from the ready list are in the batch.
LEMMA WaitCovers ==
  ASSUME Structure, EdgesCovered, Wait
  PROVE  EdgesCovered'
<1>1. /\ UNCHANGED <<type, descriptor, interest, outgoing, kernel, current>>
      /\ consumer = "waiting" /\ batch = <<>>
  BY DEF Wait, container, Structure, Position
<1>2. \A f \in Pending : \E n \in DOMAIN batch' : batch'[n] = Report(f)
  BY WaitReports DEF Structure
<1> SUFFICES ASSUME NEW i \in Identifiers, Present(i) PROVE WorkCovered(i)'
  BY <1>1 DEF EdgesCovered, Present
<1> DEFINE d == descriptor[i]
           k == kernel[d]
           e == Events(k, interest[d])
<1>3. \A events : Covered(i, events) => d \in ready
  BY <1>1 DEF Covered
<1>4. ASSUME NEW events, d \in ready, e \cap events # {} PROVE Covered(i, events)'
  <2>1. d \in Pending
    BY <1>4 DEF Pending
  <2>2. PICK n \in DOMAIN batch' : batch'[n] = Report(d)
    BY <1>2, <2>1
  <2>3. batch'[n].descriptor = d /\ batch'[n].events = e
    BY <2>2 DEF Report
  <2> QED BY <1>1, <1>4, <2>3 DEF Covered
<1>5. WorkCovered(i)
  BY DEF EdgesCovered
<1>6. /\ Broken(k) => "err" \in e
      /\ type[i] # "connecting" /\ (k.backlog > 0 \/ k.input \/ k.end) => "in" \in e
      /\ type[i] = "connecting" /\ k.state = "established" => "out" \in e
      /\ outgoing[i] # <<>> /\ k.space > 0 => "out" \in e \/ "err" \in e
  BY WorkIsEvent
<1> HIDE DEF e
<1>7. /\ d \in ready /\ "err" \in e => Covered(i, {"err"})'
      /\ d \in ready /\ "in" \in e => Covered(i, {"in", "err"})'
      /\ d \in ready /\ ("out" \in e \/ "err" \in e) => Covered(i, {"out", "err"})'
  BY <1>4
<1>8. /\ Broken(k) => d \in ready
      /\ type[i] # "connecting" /\ (k.backlog > 0 \/ k.input \/ k.end) => d \in ready
      /\ type[i] = "connecting" /\ k.state = "established" => d \in ready
      /\ outgoing[i] # <<>> /\ k.space > 0 => d \in ready
  BY <1>3, <1>5 DEF WorkCovered
<1>9. WorkCovered(i)' <=>
          /\ Broken(k) => Covered(i, {"err"})'
          /\ type[i] # "connecting" /\ (k.backlog > 0 \/ k.input \/ k.end) => Covered(i, {"in", "err"})'
          /\ type[i] = "connecting" /\ k.state = "established" => Covered(i, {"out", "err"})'
          /\ outgoing[i] # <<>> /\ k.space > 0 => Covered(i, {"out", "err"})'
  BY <1>1 DEF WorkCovered, Broken
<1> HIDE DEF k
<1> QED BY <1>6, <1>7, <1>8, <1>9

\* A step that works for one socket at most, and leaves the others alone.
LEMMA WorksFor ==
  ASSUME Structure, EdgesCovered, UNCHANGED <<type, descriptor, outgoing, kernel>>,
         NEW i, ready' = ready,
         \A j \in Identifiers \ {i} : Looked(j) => Looked(j)',
         \/ batch' = batch
         \/ /\ batch # <<>> /\ batch' = Tail(batch)
            /\ \A j \in Identifiers \ {i} : Present(j) => Head(batch).descriptor # descriptor[j],
         i \in Identifiers /\ Present(i) => WorkCovered(i)'
  PROVE  EdgesCovered'
<1> SUFFICES ASSUME NEW j \in Identifiers, Present(j), j # i PROVE WorkCovered(j)'
  BY DEF EdgesCovered, Present
<1>1. Undisturbed(j) /\ NoMoreWork(j) /\ WorkCovered(j)
  BY DEF Undisturbed, NoMoreWork, EdgesCovered
<1> QED BY <1>1, OthersCovered

\* What the thread has looked at is covered.
LEMMA LookedIsCovered ==
  ASSUME NEW i, Looked(i)'
  PROVE  WorkCovered(i)'
BY DEF Looked, Covered, WorkCovered

\* The steps between the handlers keep the work covered.
LEMMA ControlStepCovers ==
  ASSUME Structure, EdgesCovered, ControlStep
  PROVE  EdgesCovered'
<1>1. CASE Wait
  BY <1>1, WaitCovers
<1>2. CASE FinishTasks \/ Abort \/ EndBatch
  <2>1. /\ UNCHANGED <<type, descriptor, outgoing, kernel, ready, batch>>
        /\ consumer \in {"tasks", "handling"}
    BY <1>2 DEF FinishTasks, Abort, EndBatch, container
  <2>2. NoIdentifier \notin Identifiers
    BY DEF NoIdentifier, Identifiers
  <2> QED BY <2>1, <2>2, WorksFor DEF Looked
<1>3. CASE StartTasks \/ SkipEvent
  <2>1. /\ UNCHANGED <<type, descriptor, outgoing, kernel, ready>>
        /\ consumer = "handling" /\ batch # <<>> /\ batch' = Tail(batch)
        /\ \/ Head(batch).descriptor = NoDescriptor
           \/ socketOf[Head(batch).descriptor] = NoIdentifier
    BY <1>3 DEF StartTasks, SkipEvent, TaskEvent, container
  <2>2. \A j \in Identifiers : Present(j) => Head(batch).descriptor # descriptor[j]
    BY <2>1, OwnsDescriptor DEF Structure, Descriptors, NoDescriptor
  <2>3. NoIdentifier \notin Identifiers
    BY DEF NoIdentifier, Identifiers
  <2> QED BY <2>1, <2>2, <2>3, WorksFor DEF Looked
<1>4. CASE AcceptNothing
  <2>1. /\ UNCHANGED <<type, descriptor, outgoing, kernel, ready, batch>>
        /\ consumer = "accepting" /\ kernel[descriptor[current]].backlog = 0
    BY <1>4 DEF AcceptNothing, container
  <2>2. /\ current \in Identifiers /\ Present(current) /\ type[current] = "listening"
        /\ descriptor[current] \in Descriptors
        /\ kernel[descriptor[current]].state = "listening"
    BY <2>1, AcceptingSocket
  <2>3. KernelMatches(current) /\ SubscriptionMatches(current)
    BY <2>2 DEF Structure, SocketsMatch
  <2>4. /\ ~Broken(kernel[descriptor[current]])
        /\ ~kernel[descriptor[current]].input /\ ~kernel[descriptor[current]].end
        /\ outgoing[current] = <<>>
    BY <2>2, <2>3 DEF KernelMatches, SubscriptionMatches, Broken
  <2>5. PICK i \in Identifiers : i = current
    BY <2>2
  <2>6. WorkCovered(i)'
    BY <2>1, <2>2, <2>4, <2>5 DEF WorkCovered, Broken
  <2>7. \A j \in Identifiers \ {i} : ~Looked(j)
    BY <2>5 DEF Looked
  <2> QED BY <2>1, <2>6, <2>7, WorksFor
<1>5. CASE AcceptFails
  <2>1. /\ UNCHANGED <<type, descriptor, outgoing, kernel, ready, batch>>
        /\ consumer' = "erasing" /\ current' = current
    BY <1>5 DEF AcceptFails, Throw, container
  <2>2. \A j \in Identifiers : Looked(j) => Looked(j)'
    BY <2>1 DEF Looked
  <2>3. NoIdentifier \notin Identifiers
    BY DEF NoIdentifier, Identifiers
  <2> QED BY <2>1, <2>2, <2>3, WorksFor
<1>6. ASSUME NEW i \in Identifiers, HandleError(i) \/ HandleListening(i) PROVE EdgesCovered'
  <2>1. /\ UNCHANGED <<type, descriptor, outgoing, kernel, ready>>
        /\ Looked(i)'
        /\ \E events : Handling(i, events)
    BY <1>6 DEF HandleError, HandleListening, Throw, container, Looked
  <2>2. /\ Present(i) /\ consumer = "handling" /\ batch # <<>> /\ batch' = Tail(batch)
        /\ Head(batch).descriptor = descriptor[i]
    BY <2>1, HandledEvent
  <2>3. \A j \in Identifiers \ {i} : Present(j) => Head(batch).descriptor # descriptor[j]
    BY <2>2, OtherSocket
  <2>4. WorkCovered(i)'
    BY <2>1, LookedIsCovered
  <2> QED BY <2>1, <2>2, <2>3, <2>4, WorksFor DEF Looked
<1> QED BY <1>1, <1>2, <1>3, <1>4, <1>5, <1>6 DEF ControlStep

\* The socket that an event is handled for is the only one that has it.
LEMMA HandledForOne ==
  ASSUME Structure, NEW i \in Identifiers, NEW events, Handling(i, events),
         UNCHANGED descriptor,
         NEW j \in Identifiers, Present(j), j # i,
         descriptor[j] \in ready => descriptor[j] \in ready'
  PROVE  Undisturbed(j)
<1>1. /\ Present(i) /\ consumer = "handling" /\ batch # <<>> /\ batch' = Tail(batch)
      /\ Head(batch).descriptor = descriptor[i]
  BY HandledEvent
<1>2. Head(batch).descriptor # descriptor[j]
  BY <1>1, OtherSocket
<1> QED BY <1>1, <1>2 DEF Undisturbed, Looked

\* Sending leaves nothing to do that the event poll does not know of.
LEMMA SendCovers ==
  ASSUME Structure, EdgesCovered, NEW i \in Identifiers, Connected(i), NEW bytes, NEW k,
         SendsFrom(i, bytes, k), UNCHANGED container,
         \A j \in Identifiers : Looked(j) => Looked(j)',
         batch' = batch \/ \E events : Handling(i, events)
  PROVE  EdgesCovered'
<1>1. /\ TypeOK /\ descriptor[i] \in Descriptors /\ k \in KernelStates
      /\ bytes \in Seq(1 .. MaxBytes) /\ SendBytes(i, bytes, k)
  BY SendsFromEffect DEF Structure, SendsFrom
<1>2. SendOutcome(i, bytes, k)
  BY <1>1, SendEffect
<1> DEFINE d == descriptor[i]
           left == kernel'[d]
<1>3. /\ \A j \in Identifiers : j # i => outgoing'[j] = outgoing[j]
      /\ \A g \in Descriptors : g # d => kernel'[g] = kernel[g]
      /\ outgoing'[i] # <<>> => left.space = 0
      /\ Broken(left) \/ left.backlog > 0 \/ left.input \/ left.end => d \in ready'
      /\ ready \subseteq ready'
  BY <1>2 DEF SendOutcome
<1>4. UNCHANGED <<type, descriptor>>
  BY DEF container
<1>5. WorkCovered(i)'
  <2>1. d \in ready' => \A events : Covered(i, events)'
    BY <1>4 DEF Covered
  <2>2. type'[i] # "connecting" /\ descriptor'[i] = d
    BY <1>4 DEF Connected
  <2> HIDE DEF d
  <2> QED BY <1>3, <2>1, <2>2 DEF WorkCovered, Broken
<1>6. ASSUME NEW j \in Identifiers, Present(j), j # i PROVE WorkCovered(j)'
  <2>1. descriptor[j] \in Descriptors /\ descriptor[j] # d
    BY <1>6, OtherSocket DEF Connected, Present
  <2>2. Undisturbed(j)
    <3>1. CASE batch' = batch
      BY <1>3, <1>4, <3>1 DEF Undisturbed
    <3>2. CASE \E events : Handling(i, events)
      BY <1>3, <1>4, <1>6, <3>2, HandledForOne
    <3> QED BY <3>1, <3>2
  <2>3. NoMoreWork(j) /\ WorkCovered(j)
    BY <1>3, <1>4, <1>6, <2>1 DEF NoMoreWork, EdgesCovered
  <2> QED BY <2>2, <2>3, OthersCovered
<1> QED BY <1>4, <1>5, <1>6 DEF EdgesCovered, Present

\* The input handler reads all there is, so that it leaves no work behind.
LEMMA HandleInputCovers ==
  ASSUME Structure, EdgesCovered, NEW i \in Identifiers, HandleInput(i)
  PROVE  EdgesCovered'
<1> DEFINE d == descriptor[i]
           k == [kernel[d] EXCEPT !.input = FALSE]
<1>1. PICK events \in SUBSET {"in", "out"} :
        /\ Connected(i) /\ Handling(i, events)
        /\ UNCHANGED <<container, premature>>
        /\ \/ InputThrows(i)
           \/ /\ ~Broken(k) /\ ~k.end
              /\ \/ InputSends(i, NextByte(i))
                 \/ InputSends(i, <<>>)
                 \/ "out" \notin events /\ InputReceived(i)
  BY HandleInputCases
<1>2. /\ Present(i) /\ consumer = "handling" /\ batch # <<>> /\ batch' = Tail(batch)
      /\ Head(batch).descriptor = d /\ Head(batch).events = events
  BY <1>1, HandledEvent
<1>3. /\ d \in Descriptors /\ kernel[d] \in KernelStates
      /\ KernelMatches(i) /\ WorkCovered(i)
      /\ UNCHANGED <<type, descriptor>>
      /\ type[i] # "connecting" /\ type[i] # "listening"
  BY <1>1, <1>2, OwnsDescriptor DEF Structure, SocketsMatch, EdgesCovered, container, Connected
<1>4. /\ k.state = kernel[d].state /\ k.backlog = kernel[d].backlog
      /\ k.input = FALSE /\ k.end = kernel[d].end /\ k.space = kernel[d].space
      /\ kernel[d].backlog \in Nat
  BY <1>3, ContainerAssumption DEF KernelStates
<1>5. \A j \in Identifiers : ~Looked(j)
  BY <1>2 DEF Looked
<1>6. ASSUME NEW bytes, InputSends(i, bytes) PROVE EdgesCovered'
  BY <1>1, <1>5, <1>6, SendCovers DEF InputSends
<1>7. ASSUME kernel' = [kernel EXCEPT ![d] = k], UNCHANGED <<interest, outgoing, wire, written, ready>>,
             WorkCovered(i)'
      PROVE  EdgesCovered'
  <2> SUFFICES ASSUME NEW j \in Identifiers, Present(j), j # i PROVE WorkCovered(j)'
    BY <1>3, <1>7 DEF EdgesCovered, Present
  <2>1. descriptor[j] # d /\ descriptor[j] \in Descriptors
    BY <1>2, OtherSocket
  <2>2. kernel'[descriptor[j]] = kernel[descriptor[j]]
    BY <1>7, <2>1 DEF Structure, TypeOK
  <2>3. Undisturbed(j)
    BY <1>1, <1>3, <1>7, HandledForOne
  <2>4. NoMoreWork(j) /\ WorkCovered(j)
    BY <1>3, <1>7, <2>2 DEF NoMoreWork, EdgesCovered
  <2> QED BY <2>3, <2>4, OthersCovered
<1>8. CASE InputThrows(i)
  <2>1. WorkCovered(i)'
    BY <1>8, LookedIsCovered DEF InputThrows, Throw, Looked
  <2> QED BY <1>7, <1>8, <2>1 DEF InputThrows
<1>9. CASE ~Broken(k) /\ ~k.end /\ "out" \notin events /\ InputReceived(i)
  <2>1. /\ kernel' = [kernel EXCEPT ![d] = k]
        /\ UNCHANGED <<interest, outgoing, wire, written, ready>>
    BY <1>9 DEF InputReceived
  <2>2. kernel'[d] = k
    BY <1>3, <2>1 DEF Structure, TypeOK
  <2>3. k.backlog = 0
    BY <1>3, <1>4 DEF KernelMatches
  <2>4. Covered(i, {"out", "err"}) => Covered(i, {"out", "err"})'
    <3>1. Head(batch).events \cap {"out", "err"} = {}
      BY <1>1, <1>2, <1>9
    <3> QED BY <1>2, <1>3, <1>5, <2>1, <3>1, StillCovered
  <2>5. outgoing[i] # <<>> /\ k.space > 0 => Covered(i, {"out", "err"})
    BY <1>3, <1>4 DEF WorkCovered
  <2>6. WorkCovered(i)'
    <3> HIDE DEF k
    <3>1. /\ descriptor'[i] = d /\ type'[i] = type[i] /\ outgoing'[i] = outgoing[i]
          /\ ~ (k.backlog > 0) /\ ~k.input /\ ~k.end /\ ~Broken(k)
      BY <1>3, <1>4, <1>9, <2>1, <2>3
    <3> QED BY <1>3, <2>2, <2>4, <2>5, <3>1 DEF WorkCovered, Broken
  <2> HIDE DEF k
  <2> QED BY <1>7, <2>1, <2>6
<1> QED BY <1>1, <1>6, <1>8, <1>9

\* The output handler leaves work only to the next event.
LEMMA HandleOutputCovers ==
  ASSUME Structure, EdgesCovered, NEW i \in Identifiers, HandleOutput(i)
  PROVE  EdgesCovered'
<1>1. /\ Connected(i) /\ Handling(i, {"out"})
      /\ UNCHANGED container
      /\ \/ /\ Throw(i)
            /\ UNCHANGED <<interest, outgoing, wire, written, kernel, ready>>
         \/ SendsFrom(i, <<>>, kernel[descriptor[i]])
  BY DEF HandleOutput, SendsFrom
<1>2. /\ Present(i) /\ consumer = "handling" /\ batch # <<>> /\ batch' = Tail(batch)
      /\ Head(batch).descriptor = descriptor[i]
  BY <1>1, HandledEvent
<1>3. CASE Throw(i) /\ UNCHANGED <<interest, outgoing, wire, written, kernel, ready>>
  <2>1. \A j \in Identifiers \ {i} : Present(j) => Head(batch).descriptor # descriptor[j]
    BY <1>2, OtherSocket
  <2>2. WorkCovered(i)'
    BY <1>3, LookedIsCovered DEF Throw, Looked
  <2>3. UNCHANGED <<type, descriptor>>
    BY <1>1 DEF container
  <2> QED BY <1>2, <1>3, <2>1, <2>2, <2>3, WorksFor DEF Looked
<1>4. CASE SendsFrom(i, <<>>, kernel[descriptor[i]])
  <2>1. \A j \in Identifiers : ~Looked(j)
    BY <1>2 DEF Looked
  <2> QED BY <1>1, <1>4, <2>1, SendCovers
<1> QED BY <1>1, <1>3, <1>4

\* A send of the user covers the work it makes.
LEMMA SendStepCovers ==
  ASSUME Structure, EdgesCovered, NEW i \in Identifiers, Send(i)
  PROVE  EdgesCovered'
<1>1. /\ Connected(i) /\ SendsFrom(i, NextByte(i), kernel[descriptor[i]])
      /\ UNCHANGED <<container, batch>> /\ consumer = "tasks"
  BY DEF Send, SendsFrom
<1>2. \A j \in Identifiers : ~Looked(j)
  BY <1>1 DEF Looked
<1> QED BY <1>1, <1>2, SendCovers

\* What a send that throws leaves is covered by the error of its socket.
LEMMA SendThrowsCovers ==
  ASSUME Structure, EdgesCovered, NEW i \in Identifiers, SendThrows(i)
  PROVE  EdgesCovered'
<1>1. /\ UNCHANGED <<type, descriptor, kernel, ready, batch, consumer, current>>
      /\ consumer = "tasks" /\ Broken(kernel[descriptor[i]]) /\ type[i] # "none"
      /\ \A j \in Identifiers : j # i => outgoing'[j] = outgoing[j]
  BY DEF SendThrows, container, Connected, Structure, TypeOK
<1> SUFFICES ASSUME NEW j \in Identifiers, Present(j) PROVE WorkCovered(j)'
  BY <1>1 DEF EdgesCovered, Present
<1>2. WorkCovered(j) /\ Undisturbed(j)
  BY <1>1 DEF EdgesCovered, Undisturbed, Looked
<1>3. CASE j # i
  BY <1>1, <1>2, <1>3, OthersCovered DEF NoMoreWork
<1>4. CASE j = i
  <2>1. Covered(i, {"err"})
    BY <1>1, <1>2, <1>4 DEF WorkCovered
  <2>2. \A events : "err" \in events => Covered(i, events)'
    BY <1>1, <2>1 DEF Covered
  <2> QED BY <1>4, <2>2 DEF WorkCovered
<1> QED BY <1>3, <1>4

\* clientOpen: from now on the events of input are those that matter.
LEMMA HandleConnectingCovers ==
  ASSUME Structure, EdgesCovered, NEW i \in Identifiers, HandleConnecting(i)
  PROVE  EdgesCovered'
<1> DEFINE d == descriptor[i]
<1>1. /\ type[i] = "connecting"
      /\ type' = [type EXCEPT ![i] = "connected"]
      /\ Subscribe(d, kernel[d], {"in"})
      /\ UNCHANGED <<descriptor, outgoing, kernel>>
      /\ \E events : Handling(i, events)
  BY DEF HandleConnecting
<1>2. TypeOK /\ Present(i) /\ d \in Descriptors /\ kernel[d] \in KernelStates /\ SubscriptionMatches(i)
  BY <1>1, OwnsDescriptor DEF Structure, Present, SocketsMatch
<1>3. /\ ready \subseteq ready'
      /\ Broken(kernel[d]) => d \in ready'
      /\ kernel[d].backlog > 0 \/ kernel[d].input \/ kernel[d].end => d \in ready'
  BY <1>1, <1>2, SubscribeEffect
<1>4. /\ type'[i] = "connected"
      /\ \A j \in Identifiers : j # i => type'[j] = type[j]
  BY <1>1, <1>2 DEF TypeOK
<1>5. WorkCovered(i)'
  <2>1. d \in ready' => \A events : Covered(i, events)'
    BY <1>1 DEF Covered
  <2>2. outgoing'[i] = <<>>
    BY <1>1, <1>2 DEF SubscriptionMatches
  <2>3. descriptor'[i] = d /\ kernel'[d] = kernel[d]
    BY <1>1
  <2> HIDE DEF d
  <2> QED BY <1>3, <1>4, <2>1, <2>2, <2>3 DEF WorkCovered, Broken
<1>6. ASSUME NEW j \in Identifiers, Present(j), j # i PROVE WorkCovered(j)'
  <2>1. Undisturbed(j)
    BY <1>1, <1>3, <1>6, HandledForOne
  <2>2. NoMoreWork(j) /\ WorkCovered(j)
    BY <1>1, <1>4, <1>6 DEF NoMoreWork, EdgesCovered
  <2> QED BY <2>1, <2>2, OthersCovered
<1> QED BY <1>2, <1>4, <1>5, <1>6 DEF EdgesCovered, Present

\* A socket that is erased takes its own events with it only.
LEMMA EraseCovers ==
  ASSUME Structure, EdgesCovered, NEW i \in Identifiers, EraseSocket(i), batch' = batch,
         \A j \in Identifiers \ {i} : Looked(j) => Looked(j)'
  PROVE  EdgesCovered'
<1> DEFINE d == descriptor[i]
<1>1. /\ Present(i) /\ d \in Descriptors
      /\ type'[i] = "none"
      /\ \A j \in Identifiers : j # i =>
           type'[j] = type[j] /\ descriptor'[j] = descriptor[j] /\ outgoing'[j] = outgoing[j]
      /\ \A g \in Descriptors : g # d => kernel'[g] = kernel[g]
      /\ ready' = ready \ {d}
  BY DEF EraseSocket, Structure, TypeOK, PresentHasDescriptor, Present
<1> SUFFICES ASSUME NEW j \in Identifiers, Present(j), j # i PROVE WorkCovered(j)'
  BY <1>1 DEF EdgesCovered, Present
<1>2. descriptor[j] # d /\ descriptor[j] \in Descriptors
  BY <1>1, OtherSocket
<1>3. Undisturbed(j)
  BY <1>1, <1>2 DEF Undisturbed
<1>4. NoMoreWork(j) /\ WorkCovered(j)
  BY <1>1, <1>2 DEF NoMoreWork, EdgesCovered
<1> QED BY <1>3, <1>4, OthersCovered

\* A new socket is ready if it is connected already.
LEMMA InsertCovers ==
  ASSUME Structure, EdgesCovered, sequencer \in Identifiers,
         NEW f \in Descriptors, kernel[f].state = "free",
         NEW socketType, NEW acceptor, NEW k, NEW events,
         NewSocket(socketType, k, events),
         InsertSocket(sequencer, f, socketType, acceptor, k, events),
         kernel' \in [Descriptors -> KernelStates], kernel'[f] = k,
         \A g \in Descriptors : g # f => SameButBacklog(kernel[g], kernel'[g]),
         UNCHANGED <<outgoing, batch>>,
         \A j \in Identifiers : Looked(j) => Looked(j)'
  PROVE  EdgesCovered'
<1>1. TypeOK /\ type[sequencer] = "none" /\ outgoing[sequencer] = <<>>
  BY DEF Structure, NotGenerated, PresentHasDescriptor, Present, Identifiers
<1>2. /\ type' = [type EXCEPT ![sequencer] = socketType]
      /\ descriptor' = [descriptor EXCEPT ![sequencer] = f]
      /\ Subscribe(f, k, events)
  BY DEF InsertSocket
<1>3. /\ k \in KernelStates /\ events \in SUBSET {"in", "out"}
      /\ socketType = "connecting" /\ k.state = "established" => "out" \in events /\ k.space > 0
      /\ ~Broken(k) /\ k.backlog = 0 /\ ~k.input /\ ~k.end
  BY ContainerAssumption DEF NewSocket, Broken
<1>4. /\ ready \subseteq ready'
      /\ "out" \in events /\ k.state = "established" /\ k.space > 0 => f \in ready'
  BY <1>1, <1>2, <1>3, SubscribeEffect
<1>5. /\ type'[sequencer] = socketType /\ descriptor'[sequencer] = f
      /\ \A j \in Identifiers : j # sequencer =>
           type'[j] = type[j] /\ descriptor'[j] = descriptor[j]
  BY <1>1, <1>2 DEF TypeOK
<1>6. ASSUME NEW j \in Identifiers, j = sequencer PROVE WorkCovered(j)'
  <2>1. f \in ready' => \A e : Covered(j, e)'
    BY <1>5, <1>6 DEF Covered
  <2>2. /\ outgoing'[j] = <<>> /\ descriptor'[j] = f /\ type'[j] = socketType
    BY <1>1, <1>5, <1>6
  <2>3. ~ (k.backlog > 0)
    BY <1>3
  <2> QED BY <1>3, <1>4, <2>1, <2>2, <2>3 DEF WorkCovered, Broken
<1>7. ASSUME NEW j \in Identifiers, Present(j), j # sequencer PROVE WorkCovered(j)'
  <2> DEFINE d == descriptor[j]
  <2>1. d \in Descriptors /\ d # f
    BY <1>7, FreeBelongsToNobody DEF Structure, PresentHasDescriptor
  <2>2. SameButBacklog(kernel[d], kernel'[d])
    BY <2>1
  <2>3. kernel[d].backlog \in Nat
    BY <2>1, KernelNumbers
  <2>4. kernel'[d].backlog > 0 => kernel[d].backlog > 0
    <3>1. kernel'[d] \in KernelStates
      BY <2>1
    <3>2. kernel'[d].backlog \in Nat
      BY <3>1, ContainerAssumption DEF KernelStates
    <3> QED BY <2>2, <2>3, <3>2 DEF SameButBacklog
  <2>5. Undisturbed(j)
    BY <1>4, <1>5, <1>7 DEF Undisturbed
  <2>6. NoMoreWork(j) /\ WorkCovered(j)
    BY <1>5, <1>7, <2>2, <2>4 DEF NoMoreWork, SameButBacklog, Broken, EdgesCovered
  <2> QED BY <2>5, <2>6, OthersCovered
<1> QED BY <1>5, <1>6, <1>7 DEF EdgesCovered, Present

\* The steps that open sockets, or fail to.
LEMMA OpenStepCovers ==
  ASSUME Structure, EdgesCovered, Listen \/ Connect \/ Accept \/ OpenFails \/ InsertFails
  PROVE  EdgesCovered'
<1>1. TypeOK
  BY DEF Structure
<1>2. ASSUME NEW f \in Descriptors, kernel[f].state = "free", NEW socketType, NEW k, NEW events,
             NewSocket(socketType, k, events),
             InsertSocket(sequencer, f, socketType, NoIdentifier, k, events),
             kernel' = [kernel EXCEPT ![f] = k], IdentifiersLeft, sequencer' = sequencer + 1,
             UNCHANGED <<outgoing, batch, consumer, current>>
      PROVE  EdgesCovered'
  <2>1. /\ kernel' \in [Descriptors -> KernelStates] /\ kernel'[f] = k /\ k.backlog = 0
        /\ \A g \in Descriptors : g # f => kernel'[g] = kernel[g]
    BY <1>1, <1>2 DEF TypeOK, NewSocket
  <2>2. \A g \in Descriptors : kernel[g].backlog \in Nat
    BY KernelNumbers
  <2>3. /\ \A g \in Descriptors : kernel'[g].backlog <= kernel[g].backlog
        /\ \A g \in Descriptors : g # f => SameButBacklog(kernel[g], kernel'[g])
    BY <2>1, <2>2 DEF SameButBacklog
  <2>4. sequencer \in Identifiers
    BY <1>2, <2>1, <2>3, IdentifierForTask
  <2>5. \A j \in Identifiers : Looked(j) => Looked(j)'
    BY <1>2 DEF Looked
  <2> QED BY <1>2, <2>1, <2>3, <2>4, <2>5, InsertCovers
<1>3. CASE Listen
  <2> DEFINE f == LowestFree
             k == Fresh("listening")
             events == {"in"}
  <2>1. f \in Descriptors /\ kernel[f].state = "free"
    BY <1>3, LowestFreeIsFree DEF Listen
  <2>2. NewSocket("listening", k, events)
    BY FreshState DEF NewSocket
  <2>3. /\ InsertSocket(sequencer, f, "listening", NoIdentifier, k, events)
        /\ kernel' = [kernel EXCEPT ![f] = k] /\ IdentifiersLeft /\ sequencer' = sequencer + 1
        /\ UNCHANGED <<outgoing, batch, consumer, current>>
    BY <1>3 DEF Listen
  <2> HIDE DEF f, k, events
  <2> QED BY <1>2, <2>1, <2>2, <2>3
<1>4. CASE Connect
  <2> DEFINE f == LowestFree
             events == {"out"}
  <2>1. f \in Descriptors /\ kernel[f].state = "free"
    BY <1>4, LowestFreeIsFree DEF Connect
  <2>2. PICK k \in {Fresh("connecting"), Fresh("established")} :
          /\ kernel' = [kernel EXCEPT ![f] = k]
          /\ InsertSocket(sequencer, f, "connecting", NoIdentifier, k, events)
    BY <1>4 DEF Connect
  <2>3. NewSocket("connecting", k, events)
    <3>1. CASE k = Fresh("connecting")
      BY <3>1, FreshState DEF NewSocket
    <3>2. CASE k = Fresh("established")
      BY <3>2, FreshState DEF NewSocket
    <3> QED BY <3>1, <3>2
  <2>4. /\ IdentifiersLeft /\ sequencer' = sequencer + 1
        /\ UNCHANGED <<outgoing, batch, consumer, current>>
    BY <1>4 DEF Connect
  <2> HIDE DEF f, events
  <2> QED BY <1>2, <2>1, <2>2, <2>3, <2>4
<1>5. CASE Accept
  <2> DEFINE f == LowestFree
             g0 == descriptor[current]
             k == Fresh("established")
             events == {"in"}
  <2>1. f \in Descriptors /\ kernel[f].state = "free"
    BY <1>5, LowestFreeIsFree DEF Accept
  <2>2. NewSocket("accepted", k, events)
    BY FreshState DEF NewSocket
  <2>3. /\ InsertSocket(sequencer, f, "accepted", current, k, events)
        /\ kernel' = [OneLess(g0) EXCEPT ![f] = k] /\ sequencer' = sequencer + 1
        /\ UNCHANGED <<outgoing, batch>>
        /\ consumer = "accepting" /\ kernel[g0].backlog > 0
        /\ consumer' \in {"accepting", "erasing"} /\ current' = current
    BY <1>5 DEF Accept, Throw
  <2>4. g0 \in Descriptors /\ kernel[g0].state = "listening"
    BY <2>3, AcceptingSocket
  <2>5. g0 # f
    BY <2>1, <2>4
  <2>6. /\ OneLess(g0) \in [Descriptors -> KernelStates]
        /\ OneLess(g0)[g0].backlog = kernel[g0].backlog - 1
        /\ \A g \in Descriptors : SameButBacklog(kernel[g], OneLess(g0)[g])
    BY <1>1, <2>3, <2>4, OneLessEffect
  <2>7. \A g \in Descriptors : kernel[g].backlog \in Nat
    BY KernelNumbers
  <2>8. \A j \in Identifiers : Looked(j) => Looked(j)'
    BY <2>3 DEF Looked
  <2> HIDE DEF f, g0, k, events
  <2>9. /\ kernel' \in [Descriptors -> KernelStates] /\ kernel'[f] = k /\ k.backlog = 0
        /\ \A g \in Descriptors : g # f => kernel'[g] = OneLess(g0)[g]
    BY <2>1, <2>2, <2>3, <2>6 DEF NewSocket
  <2>10. \A g \in Descriptors : g # f => SameButBacklog(kernel[g], kernel'[g])
    BY <2>6, <2>9
  <2>11. /\ \A g \in Descriptors : kernel'[g].backlog <= kernel[g].backlog
         /\ kernel'[g0].backlog = kernel[g0].backlog - 1
    BY <2>4, <2>5, <2>6, <2>7, <2>9, <2>10 DEF SameButBacklog
  <2>12. sequencer \in Identifiers
    BY <2>3, <2>4, <2>9, <2>11, IdentifierForClient
  <2> QED BY <2>1, <2>2, <2>3, <2>8, <2>9, <2>10, <2>12, InsertCovers
<1>6. CASE OpenFails
  <2>1. UNCHANGED <<type, descriptor, outgoing, kernel, ready, batch, consumer, current>>
    BY <1>6, OpenFailsEffect
  <2>2. NoIdentifier \notin Identifiers
    BY DEF NoIdentifier, Identifiers
  <2> QED BY <2>1, <2>2, WorksFor DEF Looked
<1>7. CASE InsertFails
  <2>1. PICK i : i = current
    OBVIOUS
  <2> DEFINE g0 == descriptor[i]
  <2>2. /\ UNCHANGED <<type, descriptor, outgoing, ready, batch>>
        /\ kernel[g0].backlog > 0 /\ kernel' = OneLess(g0)
        /\ consumer = "accepting" /\ consumer' = "erasing" /\ current' = i
    BY <1>7, <2>1, InsertFailsEffect
  <2>3. i \in Identifiers /\ Present(i) /\ g0 \in Descriptors /\ kernel[g0].state = "listening"
    BY <2>1, <2>2, AcceptingSocket
  <2>4. \A g \in Descriptors : g # g0 => kernel'[g] = kernel[g]
    BY <1>1, <2>2, <2>3 DEF OneLess, TypeOK
  <2>5. WorkCovered(i)'
    BY <2>2, LookedIsCovered DEF Looked
  <2>6. ASSUME NEW j \in Identifiers, Present(j), j # i PROVE WorkCovered(j)'
    <3>1. descriptor[j] # g0 /\ descriptor[j] \in Descriptors
      BY <2>3, <2>6, OtherSocket
    <3>2. Undisturbed(j)
      BY <2>1, <2>2, <2>6 DEF Undisturbed, Looked
    <3>3. NoMoreWork(j) /\ WorkCovered(j)
      BY <2>2, <2>4, <2>6, <3>1 DEF NoMoreWork, EdgesCovered
    <3> QED BY <3>2, <3>3, OthersCovered
  <2> QED BY <2>2, <2>5, <2>6 DEF EdgesCovered, Present
<1> QED BY <1>3, <1>4, <1>5, <1>6, <1>7

\* Every step keeps the work covered.
LEMMA EdgesStep ==
  ASSUME Structure, EdgesCovered, [Next]_vars
  PROVE  EdgesCovered'
<1>1. CASE Environment
  BY <1>1, KernelStepCovers DEF Environment
<1>2. CASE ControlStep
  BY <1>2, ControlStepCovers
<1>3. CASE OpenFails \/ InsertFails \/ Listen \/ Connect \/ Accept
  BY <1>3, OpenStepCovers
<1>4. ASSUME NEW i \in Identifiers, Send(i) \/ SendThrows(i) PROVE EdgesCovered'
  BY <1>4, SendStepCovers, SendThrowsCovers
<1>5. ASSUME NEW i \in Identifiers, Close(i) PROVE EdgesCovered'
  <2>1. EraseSocket(i) /\ consumer = "tasks" /\ batch' = batch
    BY <1>5 DEF Close
  <2> QED BY <2>1, EraseCovers DEF Looked
<1>6. CASE Erase
  <2>1. EraseSocket(current) /\ batch' = batch /\ current \in Identifiers
    BY <1>6 DEF Erase, Structure, Position
  <2> QED BY <2>1, EraseCovers DEF Looked
<1>7. ASSUME NEW i \in Identifiers, HandleConnecting(i) \/ HandleInput(i) \/ HandleOutput(i)
      PROVE  EdgesCovered'
  BY <1>7, HandleConnectingCovers, HandleInputCovers, HandleOutputCovers
<1>8. CASE UNCHANGED vars
  BY <1>8 DEF vars, EdgesCovered, Present, WorkCovered, Covered, Broken
<1> QED BY <1>1, <1>2, <1>3, <1>4, <1>5, <1>6, <1>7, <1>8
        DEF Next, Tasks, Handler, ControlStep

\* While there is work on a socket, its descriptor is ready, an event of it is
\* still in the batch, or the thread is at it.
THEOREM EdgesAlwaysCovered == Spec => []EdgesCovered
<1>1. Init => EdgesCovered
  BY DEF Init, EdgesCovered, Present
<1>2. Structure /\ EdgesCovered /\ [Next]_vars => EdgesCovered'
  BY EdgesStep
<1> QED BY <1>1, <1>2, StructureInvariant, PTL DEF Spec

\* When the thread waits, every socket with work left to do is on the ready
\* list: no edge-triggered event was used up, whatever the kernel and the
\* peers did while a handler ran, and however many sockets share the batch.
THEOREM EdgesNeverLost == Spec => []NoEdgeLost
<1>1. Structure /\ EdgesCovered => NoEdgeLost
  <2> SUFFICES ASSUME Structure, EdgesCovered, consumer = "waiting",
                      NEW i \in Identifiers, Present(i),
                      LET k == kernel[descriptor[i]] IN
                        \/ k.backlog > 0 \/ k.input \/ k.end \/ Broken(k)
                        \/ type[i] = "connecting" /\ k.state = "established"
                        \/ outgoing[i] # <<>> /\ k.space > 0,
                      descriptor[i] \notin ready
               PROVE  /\ type[i] = "connecting"
                      /\ ~Broken(kernel[descriptor[i]])
                      /\ kernel[descriptor[i]].state # "established"
    BY DEF NoEdgeLost, Present
  <2>1. batch = <<>>
    BY DEF Structure, Position
  <2>2. \A events : ~Covered(i, events)
    BY <2>1 DEF Covered
  <2>3. WorkCovered(i)
    BY DEF EdgesCovered
  <2> QED BY <2>2, <2>3 DEF WorkCovered
<1> QED BY <1>1, StructureInvariant, EdgesAlwaysCovered, PTL

-----------------------------------------------------------------------------
(* clientOpen means connected.                                             *)

Settled(f) == kernel[f].state \in {"established", "reset"}

\* A step that opens no connecting socket and reports no events.
LEMMA EventsStay ==
  ASSUME EventsMeanConnected, reused \subseteq reused',
         \A i \in Identifiers :
           type'[i] = "connecting" =>
             /\ type[i] = "connecting" /\ descriptor'[i] = descriptor[i]
             /\ Settled(descriptor[i]) => Settled(descriptor[i])',
         \A n \in DOMAIN batch' : \E m \in DOMAIN batch : batch'[n] = batch[m]
  PROVE  EventsMeanConnected'
<1> SUFFICES ASSUME NEW i \in Identifiers, i \notin reused', NEW n \in DOMAIN batch',
                    type'[i] = "connecting", batch'[n].descriptor = descriptor'[i],
                    "err" \notin batch'[n].events
             PROVE  kernel'[descriptor'[i]].state \in {"established", "reset"}
  BY DEF EventsMeanConnected
<1>1. PICK m \in DOMAIN batch : batch'[n] = batch[m]
  OBVIOUS
<1>2. /\ i \notin reused /\ type[i] = "connecting" /\ descriptor'[i] = descriptor[i]
      /\ Settled(descriptor[i]) => kernel'[descriptor[i]].state \in {"established", "reset"}
  BY DEF Settled
<1>3. Settled(descriptor[i])
  BY <1>1, <1>2 DEF EventsMeanConnected, Settled
<1> QED BY <1>2, <1>3

\* The rest of a batch holds no event that was not in it.
LEMMA TailHasEvents ==
  ASSUME NEW T, NEW q \in Seq(T), q # <<>>
  PROVE  \A n \in DOMAIN Tail(q) : \E m \in DOMAIN q : Tail(q)[n] = q[m]
<1>1. /\ Tail(q) \in Seq(T) /\ Len(Tail(q)) = Len(q) - 1
      /\ \A m \in 1 .. Len(Tail(q)) : Tail(q)[m] = q[m + 1]
  BY HeadTailProperties
<1>2. /\ DOMAIN q = 1 .. Len(q) /\ Len(q) \in Nat
      /\ DOMAIN Tail(q) = 1 .. Len(Tail(q))
  BY <1>1, LenProperties
<1> SUFFICES ASSUME NEW n \in DOMAIN Tail(q) PROVE \E m \in DOMAIN q : Tail(q)[n] = q[m]
  OBVIOUS
<1>3. n + 1 \in DOMAIN q
  BY <1>1, <1>2
<1> QED BY <1>1, <1>2, <1>3

\* A socket that is opened with an event of its descriptor in the batch is
\* one of those that are excepted.
LEMMA InsertedEvents ==
  ASSUME Structure, EventsMeanConnected, sequencer \in Identifiers,
         NEW f \in Descriptors, kernel[f].state = "free",
         NEW socketType, NEW acceptor, NEW k, NEW events,
         InsertSocket(sequencer, f, socketType, acceptor, k, events), batch' = batch,
         \A g \in Descriptors : g # f => kernel'[g].state = kernel[g].state
  PROVE  EventsMeanConnected'
<1>1. /\ type' = [type EXCEPT ![sequencer] = socketType]
      /\ descriptor' = [descriptor EXCEPT ![sequencer] = f]
      /\ reused' = IF Reported(f) THEN reused \cup {sequencer} ELSE reused
      /\ TypeOK
  BY DEF InsertSocket, Structure
<1>2. /\ descriptor'[sequencer] = f
      /\ \A j \in Identifiers : j # sequencer =>
           type'[j] = type[j] /\ descriptor'[j] = descriptor[j]
  BY <1>1 DEF TypeOK
<1> SUFFICES ASSUME NEW i \in Identifiers, i \notin reused', NEW n \in DOMAIN batch,
                    type'[i] = "connecting", batch[n].descriptor = descriptor'[i],
                    "err" \notin batch[n].events
             PROVE  kernel'[descriptor'[i]].state \in {"established", "reset"}
  BY DEF EventsMeanConnected
<1>3. CASE i = sequencer
  <2>1. Reported(f)
    BY <1>2, <1>3 DEF Reported
  <2> QED BY <1>1, <1>3, <2>1
<1>4. CASE i # sequencer
  <2>1. type[i] = "connecting" /\ descriptor'[i] = descriptor[i] /\ i \notin reused
    BY <1>1, <1>2, <1>4
  <2>2. descriptor[i] \in Descriptors /\ descriptor[i] # f
    BY <1>1, <2>1, FreeBelongsToNobody DEF Structure, PresentHasDescriptor, Present
  <2>3. kernel[descriptor[i]].state \in {"established", "reset"}
    BY <2>1 DEF EventsMeanConnected
  <2> QED BY <2>1, <2>2, <2>3
<1> QED BY <1>3, <1>4

\* The events that epoll_wait reports mean connections.
LEMMA WaitEvents ==
  ASSUME Structure, Wait
  PROVE  EventsMeanConnected'
<1>1. UNCHANGED <<type, descriptor, interest, kernel, reused>> /\ TypeOK
  BY DEF Wait, container, Structure
<1> SUFFICES ASSUME NEW i \in Identifiers, NEW n \in DOMAIN batch',
                    type[i] = "connecting", batch'[n].descriptor = descriptor[i],
                    "err" \notin batch'[n].events
             PROVE  kernel[descriptor[i]].state \in {"established", "reset"}
  BY <1>1 DEF EventsMeanConnected
<1>2. descriptor[i] \in Descriptors /\ SubscriptionMatches(i)
  BY DEF Structure, PresentHasDescriptor, Present, SocketsMatch
<1>3. batch'[n] # TaskEvent
  BY <1>2, ContainerAssumption DEF TaskEvent, Descriptors, NoDescriptor
<1>4. PICK f \in Pending : batch'[n] = Report(f)
  BY <1>1, <1>3, WaitReports
<1>5. /\ f = descriptor[i]
      /\ Events(kernel[f], interest[f]) # {} /\ "err" \notin Events(kernel[f], interest[f])
  BY <1>4 DEF Report, Pending
<1>6. interest[f] = {"out"}
  BY <1>2, <1>5 DEF SubscriptionMatches
<1> QED BY <1>5, <1>6 DEF Events

\* Every step keeps the events of the batch true.
LEMMA EventsStep ==
  ASSUME Structure, EventsMeanConnected, [Next]_vars
  PROVE  EventsMeanConnected'
<1>1. TypeOK /\ batch \in Seq(BatchEvents)
  BY DEF Structure, TypeOK
<1>2. batch' = batch \/ (batch # <<>> /\ batch' = Tail(batch)) =>
        \A n \in DOMAIN batch' : \E m \in DOMAIN batch : batch'[n] = batch[m]
  BY <1>1, TailHasEvents
<1>3. ASSUME UNCHANGED <<type, descriptor, reused>>,
             batch' = batch \/ (batch # <<>> /\ batch' = Tail(batch)),
             \A f \in Descriptors : Settled(f) => Settled(f)'
      PROVE  EventsMeanConnected'
  <2>1. \A i \in Identifiers : type[i] = "connecting" => descriptor[i] \in Descriptors
    BY DEF Structure, PresentHasDescriptor, Present
  <2> QED BY <1>2, <1>3, <2>1, EventsStay DEF Settled
<1>4. ASSUME NEW f \in Descriptors, KernelStep(f) PROVE EventsMeanConnected'
  <2>1. PICK k \in KernelStates : kernel' = [kernel EXCEPT ![f] = k] /\ KernelMoves(f, k)
    BY <1>1, <1>4, KernelStepEffect
  <2>2. \A g \in Descriptors : Settled(g) => Settled(g)'
    BY <1>1, <2>1 DEF Settled, KernelMoves, TypeOK
  <2> QED BY <1>3, <1>4, <2>2 DEF KernelStep, container
<1>5. CASE UNCHANGED <<type, descriptor, reused, kernel>> /\ (batch' = batch \/ (batch # <<>> /\ batch' = Tail(batch)))
  BY <1>3, <1>5 DEF Settled
<1>6. CASE FinishTasks \/ Abort \/ EndBatch \/ StartTasks \/ SkipEvent \/ AcceptNothing \/ AcceptFails \/ OpenFails
  BY <1>5, <1>6, OpenFailsEffect DEF FinishTasks, Abort, EndBatch, StartTasks, SkipEvent,
     AcceptNothing, AcceptFails, container
<1>7. ASSUME NEW i \in Identifiers, HandleError(i) \/ HandleListening(i) \/ SendThrows(i)
      PROVE  EventsMeanConnected'
  BY <1>5, <1>7 DEF HandleError, HandleListening, SendThrows, Handling, container
<1>8. CASE InsertFails
  <2>1. /\ consumer = "accepting" /\ kernel[descriptor[current]].backlog > 0
        /\ kernel' = OneLess(descriptor[current])
        /\ UNCHANGED <<type, descriptor, reused, batch>>
    BY <1>8, InsertFailsEffect
  <2> DEFINE g0 == descriptor[current]
  <2>2. g0 \in Descriptors /\ kernel[g0].state = "listening"
    BY <2>1, AcceptingSocket
  <2>3. \A g \in Descriptors : SameButBacklog(kernel[g], kernel'[g])
    BY <1>1, <2>1, <2>2, OneLessEffect
  <2> QED BY <1>3, <2>1, <2>3 DEF Settled, SameButBacklog
<1>9. ASSUME NEW i \in Identifiers, Send(i) \/ HandleInput(i) \/ HandleOutput(i)
      PROVE  EventsMeanConnected'
  <2>1. /\ Connected(i)
        /\ UNCHANGED container
        /\ batch' = batch \/ (batch # <<>> /\ batch' = Tail(batch))
        /\ \/ kernel' = kernel
           \/ kernel' = [kernel EXCEPT ![descriptor[i]] = [kernel[descriptor[i]] EXCEPT !.input = FALSE]]
           \/ \E bytes, k : SendsFrom(i, bytes, k)
    <3>1. CASE Send(i)
      BY <3>1 DEF Send, SendsFrom
    <3>2. CASE HandleInput(i)
      BY <3>2, HandleInputCases DEF Handling, InputThrows, InputReceived, InputSends
    <3>3. CASE HandleOutput(i)
      BY <3>3 DEF HandleOutput, Handling, SendsFrom
    <3> QED BY <1>9, <3>1, <3>2, <3>3
  <2> DEFINE d == descriptor[i]
             k1 == [kernel[d] EXCEPT !.input = FALSE]
  <2>2. d \in Descriptors /\ kernel[d] \in KernelStates
    BY <2>1, OwnsDescriptor DEF Structure, Connected, Present
  <2>3. CASE kernel' = [kernel EXCEPT ![d] = k1]
    <3>1. k1.state = kernel[d].state
      BY <2>2 DEF KernelStates
    <3> HIDE DEF k1
    <3>2. \A g \in Descriptors : Settled(g) => Settled(g)'
      BY <1>1, <2>2, <2>3, <3>1 DEF Settled, TypeOK
    <3> QED BY <1>3, <2>1, <3>2 DEF container
  <2>4. ASSUME NEW bytes, NEW k, SendsFrom(i, bytes, k) PROVE EventsMeanConnected'
    <3>1. /\ bytes \in Seq(1 .. MaxBytes) /\ k \in KernelStates /\ SendBytes(i, bytes, k)
          /\ k.state = kernel[d].state
      BY <2>1, <2>4, SendsFromEffect DEF SendsFrom
    <3>2. SendOutcome(i, bytes, k)
      BY <1>1, <2>2, <3>1, SendEffect
    <3>3. \A g \in Descriptors : kernel'[g].state = kernel[g].state
      BY <3>1, <3>2 DEF SendOutcome
    <3> QED BY <1>3, <2>1, <3>3 DEF container, Settled
  <2>5. CASE kernel' = kernel
    BY <1>5, <2>1, <2>5 DEF container
  <2> QED BY <2>1, <2>3, <2>4, <2>5
<1>10. ASSUME NEW i \in Identifiers, HandleConnecting(i) PROVE EventsMeanConnected'
  <2>1. /\ UNCHANGED <<descriptor, reused, kernel>>
        /\ batch # <<>> /\ batch' = Tail(batch)
        /\ \A j \in Identifiers : type'[j] = "connecting" => type[j] = "connecting"
    BY <1>1, <1>10 DEF HandleConnecting, Handling, TypeOK
  <2> QED BY <1>2, <2>1, EventsStay DEF Settled
<1>11. ASSUME NEW i \in Identifiers, EraseSocket(i), batch' = batch PROVE EventsMeanConnected'
  <2> DEFINE d == descriptor[i]
  <2>1. /\ type[i] # "none" /\ d \in Descriptors
        /\ type'[i] = "none"
        /\ \A j \in Identifiers : j # i => type'[j] = type[j] /\ descriptor'[j] = descriptor[j]
        /\ \A g \in Descriptors : g # d => kernel'[g] = kernel[g]
        /\ reused' = reused
    BY <1>11 DEF EraseSocket, Structure, TypeOK, PresentHasDescriptor, Present
  <2>2. \A j \in Identifiers : j # i /\ type[j] # "none" => descriptor[j] # d /\ descriptor[j] \in Descriptors
    BY <2>1, OtherSocket DEF Present
  <2>3. \A j \in Identifiers : type'[j] = "connecting" =>
          /\ type[j] = "connecting" /\ descriptor'[j] = descriptor[j]
          /\ Settled(descriptor[j]) => Settled(descriptor[j])'
    BY <2>1, <2>2 DEF Settled
  <2> QED BY <1>2, <1>11, <2>1, <2>3, EventsStay
<1>12. CASE Listen \/ Connect
  <2>1. PICK socketType, k, events :
          /\ InsertSocket(sequencer, LowestFree, socketType, NoIdentifier, k, events)
          /\ kernel' = [kernel EXCEPT ![LowestFree] = k]
          /\ batch' = batch /\ IdentifiersLeft
    BY <1>12 DEF Listen, Connect
  <2>2. LowestFree \in Descriptors /\ kernel[LowestFree].state = "free"
    BY <1>12, LowestFreeIsFree DEF Listen, Connect
  <2>3. sequencer \in Identifiers
    BY <2>1, TaskHasIdentifier
  <2> DEFINE f == LowestFree
  <2>4. \A g \in Descriptors : g # f => kernel'[g] = kernel[g]
    BY <1>1, <2>1 DEF TypeOK
  <2> HIDE DEF f
  <2> QED BY <2>1, <2>2, <2>3, <2>4, InsertedEvents DEF f
<1>13. CASE Accept
  <2> DEFINE f == LowestFree
             g0 == descriptor[current]
             k == Fresh("established")
             events == {"in"}
  <2>1. /\ InsertSocket(sequencer, f, "accepted", current, k, events)
        /\ kernel' = [OneLess(g0) EXCEPT ![f] = k]
        /\ batch' = batch /\ consumer = "accepting" /\ kernel[g0].backlog > 0
    BY <1>13 DEF Accept
  <2>2. f \in Descriptors /\ kernel[f].state = "free"
    BY <1>13, LowestFreeIsFree DEF Accept
  <2>3. g0 \in Descriptors /\ kernel[g0].state = "listening"
    BY <2>1, AcceptingSocket
  <2>4. /\ OneLess(g0) \in [Descriptors -> KernelStates]
        /\ \A g \in Descriptors : SameButBacklog(kernel[g], OneLess(g0)[g])
    BY <1>1, <2>1, <2>3, OneLessEffect
  <2> HIDE DEF f, g0, k, events
  <2>5. \A g \in Descriptors : g # f => kernel'[g].state = kernel[g].state
    BY <2>1, <2>2, <2>4 DEF SameButBacklog
  <2>6. sequencer \in Identifiers
    BY <2>1, <2>3, ClientHasIdentifier
  <2> QED BY <2>1, <2>2, <2>5, <2>6, InsertedEvents
<1>14. ASSUME NEW i \in Identifiers, Close(i) PROVE EventsMeanConnected'
  BY <1>11, <1>14 DEF Close
<1>15. CASE Erase
  BY <1>11, <1>15 DEF Erase, Structure, Position
<1>16. CASE Wait
  BY <1>16, WaitEvents
<1>17. CASE UNCHANGED vars
  BY <1>5, <1>17 DEF vars
<1> QED BY <1>4, <1>6, <1>7, <1>8, <1>9, <1>10, <1>12, <1>13, <1>14, <1>15, <1>16, <1>17
        DEF Next, Environment, Tasks, Handler

\* An event of a connecting socket in the batch that brings no error is there
\* because the attempt has ended, unless the descriptor was given to the
\* socket while an event of its former owner was left in the batch.
THEOREM EventsAlwaysMeanConnected == Spec => []EventsMeanConnected
<1>1. Init => EventsMeanConnected
  BY DEF Init, EventsMeanConnected
<1>2. Structure /\ EventsMeanConnected /\ [Next]_vars => EventsMeanConnected'
  BY EventsStep
<1> QED BY <1>1, <1>2, StructureInvariant, PTL DEF Spec

\* A step announces a socket that is not connected only if its descriptor had
\* an event in the batch when it was opened.
LEMMA PrematureStep ==
  ASSUME Structure, EventsMeanConnected, OpenMeansConnected, [Next]_vars
  PROVE  OpenMeansConnected'
<1>1. CASE premature' = premature /\ reused \subseteq reused'
  BY <1>1 DEF OpenMeansConnected
<1>2. ASSUME NEW i \in Identifiers, HandleConnecting(i) PROVE OpenMeansConnected'
  <2>1. PICK events \in SUBSET {"in", "out"} : Handling(i, events)
    BY <1>2 DEF HandleConnecting
  <2>2. /\ Head(batch).descriptor = descriptor[i] /\ "err" \notin Head(batch).events
        /\ 1 \in DOMAIN batch /\ Head(batch) = batch[1]
    <3>1. batch \in Seq(BatchEvents) /\ batch # <<>> /\ Head(batch).descriptor = descriptor[i]
          /\ Head(batch).events = events
      BY <2>1, HandledEvent
    <3>2. Len(batch) \in Nat \ {0} /\ DOMAIN batch = 1 .. Len(batch)
      BY <3>1, LenProperties, EmptySeq
    <3> QED BY <2>1, <3>1, <3>2
  <2>3. /\ type[i] = "connecting" /\ reused' = reused
        /\ premature' = IF kernel[descriptor[i]].state \in {"established", "reset"}
                        THEN premature ELSE premature \cup {i}
    BY <1>2 DEF HandleConnecting
  <2>4. i \in reused \/ kernel[descriptor[i]].state \in {"established", "reset"}
    BY <2>2, <2>3 DEF EventsMeanConnected
  <2> QED BY <2>3, <2>4 DEF OpenMeansConnected
<1>3. CASE Environment \/ UNCHANGED vars
  BY <1>1, <1>3 DEF Environment, KernelStep, container, vars
<1>4. CASE Wait \/ EndBatch \/ StartTasks \/ SkipEvent \/ OpenFails \/ FinishTasks \/ Abort
  BY <1>1, <1>4, OpenFailsEffect DEF Wait, EndBatch, StartTasks, SkipEvent, FinishTasks, Abort, container
<1>5. CASE Listen \/ Connect \/ Accept
  BY <1>1, <1>5 DEF Listen, Connect, Accept, InsertSocket
<1>6. CASE AcceptNothing \/ AcceptFails \/ InsertFails \/ Erase
  BY <1>1, <1>6, InsertFailsEffect DEF AcceptNothing, AcceptFails, Erase, EraseSocket, container
<1>7. ASSUME NEW i \in Identifiers, Send(i) \/ SendThrows(i) \/ Close(i) PROVE OpenMeansConnected'
  BY <1>1, <1>7 DEF Send, SendThrows, Close, EraseSocket, container
<1>8. ASSUME NEW i \in Identifiers,
             HandleError(i) \/ HandleListening(i) \/ HandleInput(i) \/ HandleOutput(i)
      PROVE  OpenMeansConnected'
  BY <1>1, <1>8 DEF HandleError, HandleListening, HandleInput, HandleOutput, container
<1> QED BY <1>2, <1>3, <1>4, <1>5, <1>6, <1>7, <1>8 DEF Next, Tasks, Handler

\* clientOpen tells the user that a connection was made, for every socket
\* that was not given a descriptor with an event left in the batch: an event
\* without an error is never one of an attempt that is still going on.
THEOREM OpenAlwaysMeansConnected == Spec => []OpenMeansConnected
<1>1. Init => OpenMeansConnected
  BY DEF Init, OpenMeansConnected
<1>2. Structure /\ EventsMeanConnected /\ OpenMeansConnected /\ [Next]_vars => OpenMeansConnected'
  BY PrematureStep
<1> QED BY <1>1, <1>2, StructureInvariant, EventsAlwaysMeanConnected, PTL DEF Spec

-----------------------------------------------------------------------------
(* Users see the sockets as SocketLifecycle says.                          *)

LifecycleStep == StageMatches' /\ [Lifecycle!LifecycleNext]_(Lifecycle!lifecycleVars)

\* A step that tells users nothing, and takes no socket from the container,
\* stutters.
LEMMA SilentStep ==
  ASSUME StageMatches, UNCHANGED <<type, listening, stage>>
  PROVE  LifecycleStep
BY DEF LifecycleStep, StageMatches, Present, Lifecycle!lifecycleVars

\* An identifier is used up in silence.
LEMMA SpoilStep ==
  ASSUME Structure, StageMatches, sequencer \in Identifiers,
         stage' = [stage EXCEPT ![sequencer] = "failed"], UNCHANGED <<type, listening>>
  PROVE  LifecycleStep
<1>1. stage[sequencer] = "new" /\ type[sequencer] = "none" /\ TypeOK
  BY DEF Structure, NotGenerated, Identifiers
<1>2. StageMatches'
  BY <1>1 DEF StageMatches, Present, TypeOK
<1>3. Lifecycle!Spoil(sequencer)
  BY <1>1 DEF Lifecycle!Spoil
<1> QED BY <1>2, <1>3 DEF LifecycleStep, Lifecycle!LifecycleNext

\* A socket that is inserted is announced as its kind says.
LEMMA InsertStep ==
  ASSUME Structure, StageMatches, sequencer \in Identifiers,
         NEW socketType, NEW acceptor \in Identifiers \cup {NoIdentifier}, NEW told,
         type' = [type EXCEPT ![sequencer] = socketType],
         listening' = [listening EXCEPT ![sequencer] = acceptor],
         stage' = [stage EXCEPT ![sequencer] = told],
         \/ socketType = "listening" /\ told = "open" /\ acceptor = NoIdentifier
         \/ socketType = "connecting" /\ told = "opening" /\ acceptor = NoIdentifier
         \/ /\ socketType = "accepted" /\ told = "open"
            /\ acceptor \in Identifiers /\ type[acceptor] = "listening"
  PROVE  LifecycleStep
<1>1. /\ stage[sequencer] = "new" /\ type[sequencer] = "none" /\ listening[sequencer] = NoIdentifier
      /\ \A j \in Identifiers : listening[j] # sequencer
      /\ TypeOK
  BY DEF Structure, NotGenerated, Identifiers
<1>2. /\ type'[sequencer] = socketType /\ listening'[sequencer] = acceptor
      /\ stage'[sequencer] = told
      /\ \A j \in Identifiers : j # sequencer =>
           type'[j] = type[j] /\ listening'[j] = listening[j] /\ stage'[j] = stage[j]
  BY <1>1 DEF TypeOK
<1>3. StageMatches'
  <2> SUFFICES ASSUME NEW i \in Identifiers
               PROVE  /\ type'[i] # "none" <=> stage'[i] \in {"opening", "open"}
                      /\ type'[i] = "connecting" <=> stage'[i] = "opening"
                      /\ type'[i] # "none" => (type'[i] = "accepted" <=> listening'[i] # NoIdentifier)
                      /\ listening'[i] # NoIdentifier => type'[listening'[i]] \in {"none", "listening"}
    BY DEF StageMatches, Present
  <2>1. CASE i = sequencer
    BY <1>1, <1>2, <2>1 DEF Identifiers, NoIdentifier
  <2>2. CASE i # sequencer
    <3>1. listening[i] # NoIdentifier => listening[i] \in Identifiers /\ listening[i] # sequencer
      BY <1>1 DEF TypeOK
    <3> QED BY <1>2, <2>2, <3>1 DEF StageMatches, Present
  <2> QED BY <2>1, <2>2
<1>4. \/ Lifecycle!Listen(sequencer) \/ Lifecycle!Connect(sequencer)
      \/ \E l \in Identifiers : Lifecycle!Accept(sequencer, l)
  <2>1. CASE acceptor = NoIdentifier /\ socketType # "accepted"
    <3>1. listening' = listening
      BY <1>1, <2>1 DEF TypeOK
    <3> QED BY <1>1, <2>1, <3>1 DEF Lifecycle!Listen, Lifecycle!Connect
  <2>2. CASE /\ socketType = "accepted" /\ told = "open"
             /\ acceptor \in Identifiers /\ type[acceptor] = "listening"
    <3>1. stage[acceptor] = "open" /\ listening[acceptor] = NoIdentifier
      BY <2>2 DEF StageMatches, Present
    <3>2. Lifecycle!Accept(sequencer, acceptor)
      BY <1>1, <2>2, <3>1 DEF Lifecycle!Accept
    <3> QED BY <2>2, <3>2
  <2> QED BY <2>1, <2>2
<1> QED BY <1>3, <1>4 DEF LifecycleStep, Lifecycle!LifecycleNext

\* The end of a connection attempt is told once.
LEMMA ConnectedStep ==
  ASSUME Structure, StageMatches, NEW i \in Identifiers, HandleConnecting(i)
  PROVE  LifecycleStep
<1>1. /\ type[i] = "connecting" /\ TypeOK
      /\ type' = [type EXCEPT ![i] = "connected"]
      /\ stage' = [stage EXCEPT ![i] = "open"]
      /\ UNCHANGED listening
  BY DEF HandleConnecting, Structure
<1>2. StageMatches'
  BY <1>1 DEF StageMatches, Present, TypeOK
<1>3. Lifecycle!Connected(i)
  BY <1>1 DEF Lifecycle!Connected, StageMatches
<1> QED BY <1>2, <1>3 DEF LifecycleStep, Lifecycle!LifecycleNext

\* The end of an accepted socket is silent exactly when its listening socket
\* was erased before.
LEMMA CloseStep ==
  ASSUME Structure, StageMatches, NEW i \in Identifiers, EraseSocket(i)
  PROVE  LifecycleStep
<1>1. /\ type[i] # "none" /\ TypeOK
      /\ type' = [type EXCEPT ![i] = "none"]
      /\ stage' = [stage EXCEPT ![i] = IF listening[i] # NoIdentifier /\ type[listening[i]] = "none"
                                       THEN "lost" ELSE "closed"]
      /\ UNCHANGED listening
  BY DEF EraseSocket, Structure
<1>2. StageMatches'
  BY <1>1 DEF StageMatches, Present, TypeOK
<1>3. listening[i] # NoIdentifier => (type[listening[i]] = "none" <=> stage[listening[i]] # "open")
  <2> SUFFICES ASSUME listening[i] # NoIdentifier
               PROVE  type[listening[i]] = "none" <=> stage[listening[i]] # "open"
    OBVIOUS
  <2>1. listening[i] \in Identifiers /\ type[listening[i]] \in {"none", "listening"}
    BY <1>1 DEF TypeOK, StageMatches
  <2> QED BY <2>1 DEF StageMatches, Present
<1>4. Lifecycle!Close(i)
  <2>1. stage[i] \in {"opening", "open"}
    BY <1>1 DEF StageMatches, Present
  <2>2. Lifecycle!Announced(i) <=> ~ (listening[i] # NoIdentifier /\ type[listening[i]] = "none")
    BY <1>3 DEF Lifecycle!Announced
  <2> QED BY <1>1, <2>1, <2>2 DEF Lifecycle!Close
<1> QED BY <1>2, <1>4 DEF LifecycleStep, Lifecycle!LifecycleNext

\* Every step is a step of SocketLifecycle or a stutter.
LEMMA NextLifecycle ==
  ASSUME Structure, StageMatches, [Next]_vars
  PROVE  LifecycleStep
<1>1. IdentifiersLeft => sequencer \in Identifiers
  BY TaskHasIdentifier
<1>2. consumer = "accepting" =>
        /\ current \in Identifiers /\ type[current] = "listening"
        /\ kernel[descriptor[current]].backlog > 0 => sequencer \in Identifiers
  BY AcceptingSocket, ClientHasIdentifier
<1>3. CASE OpenFails \/ InsertFails
  BY <1>3, SpoilStep, OpenFailsEffect, InsertFailsEffect
<1>4. CASE Listen \/ Connect
  BY <1>1, <1>4, InsertStep DEF Listen, Connect, InsertSocket
<1>5. CASE Accept
  BY <1>2, <1>5, InsertStep DEF Accept, InsertSocket
<1>6. ASSUME NEW i \in Identifiers, HandleConnecting(i) PROVE LifecycleStep
  BY <1>6, ConnectedStep
<1>7. ASSUME NEW i \in Identifiers, Close(i) PROVE LifecycleStep
  BY <1>7, CloseStep DEF Close
<1>8. CASE Erase
  BY <1>8, CloseStep DEF Erase, Structure, Position
<1>9. CASE Environment \/ UNCHANGED vars
  BY <1>9, SilentStep DEF Environment, KernelStep, container, vars
<1>10. CASE Wait \/ EndBatch \/ StartTasks \/ SkipEvent \/ FinishTasks \/ Abort \/ AcceptNothing \/ AcceptFails
  BY <1>10, SilentStep DEF Wait, EndBatch, StartTasks, SkipEvent, FinishTasks, Abort,
     AcceptNothing, AcceptFails, container
<1>11. ASSUME NEW i \in Identifiers,
              \/ Send(i) \/ SendThrows(i) \/ HandleError(i) \/ HandleListening(i)
              \/ HandleInput(i) \/ HandleOutput(i)
       PROVE  LifecycleStep
  BY <1>11, SilentStep DEF Send, SendThrows, HandleError, HandleListening, HandleInput,
     HandleOutput, container
<1> QED BY <1>3, <1>4, <1>5, <1>6, <1>7, <1>8, <1>9, <1>10, <1>11 DEF Next, Tasks, Handler

\* The connection callback tells users of every socket what SocketLifecycle
\* allows: its beginning at most once, its end at most once and after it, and
\* the end of an accepted socket unless its listening socket ended before.
THEOREM LifecycleImplemented == Spec => ImplementsLifecycle
<1>1. Init => StageMatches /\ Lifecycle!LifecycleInit
  BY DEF Init, StageMatches, Present, Lifecycle!LifecycleInit
<1>2. Structure /\ StageMatches /\ [Next]_vars =>
        StageMatches' /\ [Lifecycle!LifecycleNext]_(Lifecycle!lifecycleVars)
  BY NextLifecycle DEF LifecycleStep
<1> QED BY <1>1, <1>2, StructureInvariant, PTL DEF Spec, ImplementsLifecycle, Lifecycle!LifecycleSpec
=============================================================================
