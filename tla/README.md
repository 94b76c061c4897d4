# A verification project for farseer

farseer is a C++ library of message-passing TCP sockets.  A user opens a
`SocketProvider`, asks it to listen or connect, registers consumers for messages,
requests and responses, and sends them; everything else happens on one consumer
thread per provider.  There are two back ends behind the same interface: I/O
completion ports on Windows, an edge-triggered `epoll` on Linux.  What can go
wrong is hardly ever a single function: it is the order in which user threads,
the consumer thread, the kernel, the peers and the destructor take their steps,
and what the network makes of a stream of bytes.

This directory models that part of the code in TLA+, checks it on small
instances with TLC, and proves the central properties with TLAPS for every value
of the constants.  Paths below are relative to
`src/sources/main/dansandu/farseer/`.

## 1. Inventory

| Component | State | Operations | Interacts with |
|---|---|---|---|
| Windows operation scheduler, `internal/windows/operation_scheduler.cpp` | `state_` (number of outstanding operations, top bit = aborting), the completion port, the local `draining` of the consumer thread | `scheduleUserOperation`, `scheduleSystemOperation`, `scheduleAbortOperation`, the consumer loop, the destructor | user threads (post), kernel (completions), operations (executed and freed) |
| Windows operations, `internal/windows/*_operation.cpp`, `operation.cpp` | per operation: `acceptRescheduled_`, `connectionPending_`, `sendBytesPending_`, a receive buffer | `schedule`, `execute`, `onFailure` | scheduler, socket container, protocol reader, user callbacks |
| Windows sockets, `internal/windows/socket_container.cpp`, `windows_socket.cpp` | `sockets_` with `pendingAccept`, `consecutiveAcceptFailures`, buffers | insert, erase with notification, post and finish overlapped I/O | operations, user callbacks |
| Linux task queue, `internal/linux/task_queue.cpp` | `tasks_`, `mutex_`, the counter of an event descriptor | `insert`, `transfer` | user threads, consumer thread, event poll |
| Linux provider, `internal/linux/linux_socket_provider_implementation.cpp`, `*_task.cpp` | `tasksBuffer`, the batch of events | `consumeEvents`, `consumeTasks`, the tasks, the destructor | task queue, socket container |
| Linux sockets, `internal/linux/socket_container.cpp`, `linux_socket.cpp`, `event_poll.cpp` | `sockets_`, `fileDescriptorsToSockets_`, `outgoingBuffer_`, subscriptions | listen, connect, send, erase, the handlers of events | kernel, protocol reader, user callbacks |
| Protocol reader, `internal/protocol_reader.cpp` | three maps of consumers; the buffers of each socket | three registrations, `readInboundBytes` | sockets, user consumers, registry, deserializers |
| Serialization, `internal/cpp_protocol.cpp`, `binary_serialization.hpp` | none | serialize and deserialize with header, sizes in bits | protocol reader, facade |
| Registry, `protocol_registry.cpp` | `protocolDescriptors_` | `registerMessage`, `registerRequest` | reader, facade |
| Protocol definitions, `internal/protocol_definition.cpp`, `protocol_validation.cpp`, `protocol_definition_parsing.cpp` | while parsing: the stacks of tokens and types, two lists of fields | parse, validate, size, hash | registry, generator |
| Sequencer, `internal/sequencer.hpp` | an atomic counter | `generate` | both back ends |
| Facade, `socket_provider.cpp`, `.hpp` | a pointer to the back end | serialize the argument and forward | users |
| Common types, code generator (`internal/service.cpp`) | none | | |

What is hard, and what makes each part correct:

* **Scheduler.** A user thread first counts its operation and posts it later; the
  consumer may abort, drain and return in between.  The counter must be exact, every
  packet have one owner, the drain end, and end only when nothing can reach the port.
* **Task queue.** The event is edge-triggered, and its counter is read to zero
  outside the wait.  No wake-up may be lost, and none may be reported for a counter
  that is empty: that error kills the thread.
* **Linux sockets.** Events are reported in batches and looked up by descriptor,
  descriptors are used again at once, every handler may throw, the kernel takes part
  of the bytes.  The maps, the subscriptions and the kernel must agree after each
  handler, no edge be used up with work left, bytes keep their order, and users be
  told of each socket once.
* **Windows sockets.** Completions arrive after a socket was erased; the next accept is
  posted in the middle of an operation that may still fail; a listening socket must
  have one accept in flight, through failures of every kind, without spinning on one
  that lasts.
* **Protocol reader.** Frames arrive in any pieces, are counted in bits and padded to
  bytes, and sockets accepted by one listener share its consumers but not buffers.
* **Definitions.** The parser is a loop over a flat list of nodes that moves fields
  between lists and types between stacks; nothing of one definition may stay for the
  next.  Validation and the order of the definitions decide what a type may name.
* **Serialization and registry.** A reader must know, from the first bytes of a frame,
  what it is and where it ends: the identifier must tell protocols apart, the static
  size and the size in the header must be those of the payload, and a request and its
  response must be registered together or not at all.

`PROJECT.json` lists every hazard at its line, with the properties that cover it.

## 2. Plan

1. Core (**done**): `OperationScheduler` against `OperationChannel`, with its proofs;
   `TaskQueue` against `TaskChannel`, with its proofs.
2. `ProtocolReader` against `FrameDelivery`, with its proofs (**done**).
3. `LinuxSocketContainer` against `SocketLifecycle`, with its proofs (**done**).
4. `WindowsSocketContainer` against the same `SocketLifecycle`, with its proofs
   (**done**): the operations, the container and overlapped I/O; one accept in flight
   for each listening socket; the limit of failures.
5. `ProtocolDefinition`, parsing, validation and static sizes, and on top of it
   `ProtocolRegistration`, identifiers, static initialization and the registry, both
   with their proofs (**done**).
6. `GeneratedProtocol` on top of these (**done**): frames written and read.
7. Two endpoints over `FrameDelivery` (later): request and response end to end.

## 3. Modules

Abstract specifications say what a component promises; each is a property of a run
of the detailed module, through `INSTANCE ... WITH`.

| Abstract | Detailed | What is promised |
|---|---|---|
| `OperationChannel` | `OperationScheduler` | an operation is refused or admitted; an admitted one ends once; nothing is admitted after the abort or run after the drain began; a drain that is over left nothing |
| `TaskChannel` | `TaskQueue` | first in first out, exactly once, until the abort |
| `FrameDelivery` | `ProtocolReader` | frames of a peer are handled in order, once, however the stream is cut; an unreadable one closes its own socket only |
| `SocketLifecycle` | `LinuxSocketContainer`, `WindowsSocketContainer` | a socket is announced at most once and ended at most once, in this order; an accepted socket ends in silence only after its listener |

The two back ends implement the same lifecycle, and use different parts of it.  A
`listen` or `connect` that fails ends in silence on Linux (`Spoil`); on Windows it does
so only before the socket is in the container, and is told to the user as closed
afterwards (`Refuse`: closed without ever having been announced).  `ProtocolDefinition`
has no abstract module: what a text means is the operator `Legal`, which reads it as a
tree and top to bottom, and `AcceptedAsWritten` compares the loop with it.

### OperationScheduler

`state` is `state_`, a word whose top bit is `AbortingFlag`; decrementing zero wraps
around, as in the code.  `port` is the completion port, `entries` what one dequeue
returned and the loop has not come to, `place` says who owns each packet.  The steps
of `scheduleUserOperation` are separate actions (`CountUserOperation`,
`PostUserOperation`, `UncountUserOperation`), because other threads run between
them; so are those of `scheduleSystemOperation`, and of the destructor.  The consumer
loop is `CheckDrained`, `Dequeue...`, and one action per kind of entry.  What an
operation does to sockets is abstracted to: it schedules up to `MaxSpawns` system
operations, then returns true (it is pending again), returns false, or throws.
`ran` and `ahead` are history variables.

### TaskQueue

`Push`, `Write`, `WriteFails` are `insert`, which holds the mutex over two kernel
steps; `Wait` is the edge-triggered `epoll_wait`, `Transfer` the read of the
counter and the move of the tasks, `Execute`, `ReceiveAbort`, `FinishTasks` the loop
of `consumeTasks`.  `armed` is the ready list of the event poll for this descriptor.

### ProtocolReader

A frame is an identifier, a kind, a sequence number, a length in bits and the position
of its first byte in the stream of the peer.  A byte is named by its position in that
stream, so that a buffer is a sequence of positions, the reader finds a frame at its
offset only if the offset is right, and a misaligned read is visible as `Misread`.
Streams are `LaidOut`: a frame begins where the padding of the one before ends, as
`serializeWithHeader` writes them.
`ReceiveBytes` delivers any number of bytes to one socket and begins a read;
`ReadInboundMessage`, `ReadInboundRequest`, `ReadInboundResponse` are one turn of
the loop, `ReturnFromRead` is an incomplete frame or the end of the buffer,
`ReadThrows` an unknown identifier or a payload that cannot be read, `ResponseThrows` a
request whose callback has run and whose response cannot be serialized, which needs a
response that is too large for its size field.  Both erase the socket, and the responses
of the read under way are never sent (`HandleAndFail` of `FrameDelivery`).  A consumer can
be registered for any identifier of the registry, whatever it is the identifier of: a
message consumer under the identifier of a request is kept and never called.

### LinuxSocketContainer

`type`, `listening`, `descriptor`, `outgoing` are the fields of a socket,
`socketOf` is `fileDescriptorsToSockets_`, `interest` the subscription.  `kernel`
and `ready` are the environment: descriptors are handed out lowest first, the event
poll is edge-triggered (a change that is subscribed, an `EPOLL_CTL_ADD` or
`EPOLL_CTL_MOD` with an event at hand make a descriptor ready; a wait reports what
it still has and takes it off).  `Wait` returns a batch in any order, with or
without the event of the task queue; `Handle...` are the handlers, `consumer =
"accepting"` is inside the accept loop, and `"erasing"` is the `catch` of
`handleSocketEvents`, which erases the socket whatever was thrown.  Between any two
of these steps peers connect, send, read, close and reset.
`InsertSocket` is `insertSocket`; when the subscription fails, the socket is in both maps
by then, and `UndoInsert` takes it out of them again with the two guards of the code.
`stage`, `wire`, `written`, `premature` and `reused` are history variables.  `written`
counts the bytes that were passed to `sendBytes` on each socket, and a byte is the number
of the write it came from, so that a byte that is dropped anywhere leaves a gap: with
`outgoing` it makes `WireInOrder` say that none is lost.

Facts of the code that the model makes visible:

* `OpenMeansConnected` holds only with its exception.  An event of a batch is looked
  up by its descriptor; if a task of the same batch closed that descriptor and a new
  connecting socket was given its number, the old event makes the new socket
  "connected" and `clientOpen` is called before it is.  (The shortest run that needs
  the exception has eleven steps: connect, wait, close and connect in the tasks, then
  the stale event.)
* The accept loop ends with a call that finds no client.  `accept4` takes a descriptor
  before it looks for one, so that the client that gets the last descriptor costs the
  listening socket its life: the next call fails with `EMFILE`, which erases it.
* A `listen` or `connect` that fails is never reported to the user (`Spoil`).
* A callback that throws in `clientOpen` closes the listening socket that called it.

### WindowsSocketContainer

`kind` is `sockets_` and what each socket is in it: `"pending"` is a socket that waits
to be the one of the next client (`pendingAccept`).  `acceptor` and `failures` are
`listeningSocketIdentifier` and `consecutiveAcceptFailures`.  `io` holds, for each kind
of overlapped I/O and each socket, whether it is posted or completed and with which
result; closing a socket makes what it has posted `"aborted"`, in the port like any
other completion.  The packets come up in any order, between two operations:
`UserOperation` is what users call, `...Packet` what was completed, `CompleteIo` is
Windows.  `consumer = "failing"` is between an operation that threw, or a packet with an
error, and its `onFailure` (`OnFailure`, which erases the socket); `"retrying"` is inside
`onFailure` of an accept whose listening socket is still there, and ends with `GiveUp`,
`RetryAccept` or `RetryFails`.  `execute` of an accept has five outcomes, by how far it
came: `SocketNotFound`, `AcceptThrows` (before the next accept is posted),
`AcceptNotRescheduled`, `AcceptWithoutReceive`, `Accept` (whose callback may throw).
A send whose completion has another number of bytes than its buffer throws and takes its
socket with it (`Sent`, the fault `"short"`).
`failure.rescheduled` is `acceptRescheduled_`.  `stage` and `row` are history variables.

Facts of the code that the model makes visible:

* A packet that is dequeued with success may be of a socket that is gone, or whose
  listening socket is gone (`SocketNotFound`); both are failures of the operation.
* A callback that throws in `clientOpen` closes the accepted socket, not the listening
  one: the next accept is posted already.  (On Linux it is the listening socket.)
* After the abort nobody is told anything: on Windows the consumer erases all sockets
  without callbacks (`Abort`), as does the destructor of the container on Linux.

### ProtocolDefinition

`nodes` is the list that the parser of the glyph library returns for `text`: tokens that
were shifted and production rules that were reduced, bottom up (external; `Nodes` says
in which order, from the grammar).  Each action is one case of the loop of
`parseProtocolDefinition`, with the variables of the code; `Validate` is the call after
the loop.  A message in the type of a field is looked up when its name is reduced, and
its static size is copied, as in the code, so that `References` are checked twice: by
the lookup while parsing, and by validation.

A type is the sequence of its nodes, bottom up: `map<u32, list<A>>` is `u32`, the name
`A`, `message`, `list`, `map`.  It says as much as the tree of `TypeDefinition` and needs
no recursive operator: in `Types`, `Operands` counts the types that wait on the stack
after so many nodes, at least one everywhere and one at the end.  The key of a map ends
where the count is last what it is after the map (`KeyEnd`).

### ProtocolRegistration

Once a definition is accepted, `GenerateProtocolCppSource` is the program that was built
from it: its static initializers register all messages, then all requests
(`RegisterMessageProtocol`, `RegisterRequestProtocol`); an error in one terminates it.
A request is entered before its response, and erased again when the identifier of the
response is taken (`Without`, in one step, since the mutex of the registry is held).
An identifier is what goes into the hash, in its order; the hash has 32 bits, so any
two inputs of a program may coincide (`twins`).

### GeneratedProtocol

What a program does whose protocols are registered (it has no step of its own).
`Serialize` and `Deserialize` are the specialisations of `BinarySerializer`, over chunks
of bits: reading across chunks gives zero, never the value that was written.  `Received`
is the part of `tryDeserializeWithHeader` that decides whether the frame is complete,
`TryDeserializeWithHeader` what it returns then.  `Tree` brings the nodes of a type back
to a tree.

Facts of the code that the model makes visible:

* The identifier of a field's type is that of its outermost constructor (section 4,
  `protocol_versions`).
* `getRequestHashCode` combines the fields of the request and those of the response
  with nothing in between, so that a request with one field and an empty response has
  the identifier of an empty request with that field in its response.
* `References` of a request may name any message of the file, yet a message must be
  defined above the request: while parsing, the lookup sees only what was reduced.

## 4. Runs

| Run | Instance | Shows |
|---|---|---|
| `scheduler_safety` | 2 user and 2 system operations, batches of 2, 2 spawns, every fault | `TypeOK`, `CounterExact`, `SingleOwner`, `NoOperationLeftBehind`, `AbortIsBarrier`, `ImplementsChannel` |
| `scheduler_liveness` | 2 user operations, 1 system operation, posts and dequeues fail | `DestructorReturns`, `OperationsSettle` |
| `task_queue` | 4 tasks and the abort, counter limit 2, `epoll_wait` fails | `CounterMatchesTasks`, `NoLostWakeup`, `NoSpuriousTransfer`, `ImplementsChannel`, `TasksExecuted`, `DestructorReturns` |
| `reader` | 2 sockets, 8 streams of 2 frames of 5 kinds on each, every cut, responses that cannot be serialized | `TypeOK`, `BuffersFramed`, `OneShotConsumers`, `RequestsAnswered`, `ImplementsDelivery`, `FramesHandled` |
| `linux_sockets` | 3 sockets on 2 descriptors, every fault | `MapsAgree`, `OpenMeansConnected`, `ImplementsLifecycle` |
| `linux_bytes` | 2 sockets, 3 bytes, send buffers of 2, every fault | `WireInOrder`, `NoEdgeLost` |
| `linux_streams` | 1 connection, 4 bytes, send buffer of 2, every fault | `PeerEndNoticed`, `OutgoingDrained` |
| `linux_clients` | 3 identifiers on 2 descriptors, backlog of 2 | `ClientsAccepted` |
| `windows_sockets` | 5 identifiers, 1 socket of a user, backlog of 1, limit of 2 failures, every fault | `TypeOK`, `EverySocketServed`, `AcceptsEndAtLimit`, `ImplementsLifecycle`, `ClientsAccepted`, `PeerEndNoticed` |
| `windows_resets` | a listening socket, backlog of 2, only faults of clients | that `ClientsCannotClose` does **not** hold |
| `protocols` | 1548 texts, values with up to 2 elements and 2 numbers | `AcceptedAsWritten`, `RegistrySound`, `FramesExact` |
| `protocol_versions` | versions of one message | that `IdentifiersTellTypes` does **not** hold |

### What does not hold

**`windows_resets`.**  The comments of `accept_system_operation.cpp` (lines 109 and 119)
say that clients which reset their connections must not be able to close the listening
socket, and `onFailure` therefore does not count their failures.  But the scope guard of
line 142 erases the listening socket when the next `AcceptEx` fails at once, without
asking `isClientError`, and a reset before the accept is one of the errors `AcceptEx`
itself returns.  The run finds two clients that go away one after the other; the second
is reported in this way, and the listening socket is closed with no failure that was
not a client's.

**`protocol_versions`.**  `TypeDefinition::getHashCode` (`protocol_definition.cpp`, lines
250 to 262) calls `hashCombine` for the name and for each subtype and drops what it
returns; the other hashes of the file assign it.  The identifier of a message therefore
does not tell `list<u32>` from `list<bool>`, nor the message `A` in a field from `B`, and
a peer with another version of the message is read as if it had this one.  The
identifiers that `protocol_serialization.test.cpp` expects confirm that the result is
dropped: with FNV-1a and the usual combination, which give `0x71D1B17C` for a message of
simple fields (line 37), the `0x561D3077` of line 64 comes out for a
`list<StaticMessage>` only if the name and the subtype are left out.

### Bounds

The scheduler's races are between one operation and the
abort, or between two operations in one batch; two of each kind and batches of two
give all of these, and `AbortingFlag` is 8 so that a carry out of the low bits or an
underflow of five packets reaches the flag.  A counter limit of 2 with four tasks
makes the event counter full.  A prefix of a stream may be all that arrives, so the 8
streams of two frames contain every single frame.  A request is followed by a request,
a response or a corrupt frame, a response by a request or another response, a message by
a request; the messages carry no state from one frame to the next.  A frame that closes
the socket is followed by one frame, which must be left unread.  Two sockets put a response on the other one, and show that buffers are
not shared; a byte of two bits makes frames end inside a byte, and an identifier of two
bytes arrive in two pieces.  Three sockets on two descriptors are the least with
which a descriptor is used again while another socket is open; a backlog of two is
the least with which a loop that stops early leaves a client behind; a send buffer
of two, with three or four bytes, gives complete, partial and empty sends.
On Windows an accept that is completed takes up to two identifiers (the next accept,
and the one after a failure), so a client comes only while two are left: five
identifiers give a listening socket, its first accept, and three that follow it.  A
limit of two failures instead of sixteen is the least at which a failure is counted
without reaching the limit.  The texts are four families: nested types with keys that
are none; a message in the fields of another; two messages and a request in four
orders, names shared or not; two requests with a message of the same fields.  Two
elements are the least with which a list, a map or a string can lose their order.

Symmetry (users, operations) is used in `scheduler_safety` only, which checks no
liveness.  Deadlock is not checked: a provider that was destroyed, a queue with no
tasks, a socket with a silent peer and a program that has started rightly stop.

### Fairness

* Scheduler: the consumer thread is scheduled; a call of a user that has counted its
  operation goes on (it blocks on nothing); while draining, cancelled I/O completes,
  as Windows guarantees once the sockets are closed; the destructor, once called,
  goes on.  I/O need not complete otherwise, and no user need call.  `DestructorReturns`
  is checked without the failure of the abort post: the code then has no other means
  to wake an idle consumer.
* Task queue: the consumer thread is scheduled, a thread that holds the mutex goes
  on, and so does the destructor.
* Reader: a read that began goes on; the network owes nothing.
* Linux sockets: the consumer thread is scheduled and its tasks end; peers read what
  they are sent, and the kernel gives each attempt to connect an outcome.  Nobody need
  connect, send, answer or close.
* Windows sockets: the consumer thread takes each packet in its turn and finishes a
  failure; Windows completes an accept for which a client waits, and a receive for
  which there is something to tell.  Nobody need connect, send, answer or close, and
  sends and connects need not complete.
* Definitions and generated code: none; they are sequential and end.

## 5. Proofs

`OperationScheduler_proofs` proves, from `SchedulerAssumption` alone (finite sets of
operations, fewer packets than the flag), every safety property of the scheduler's
runs: `TypeCorrect`, `OwnershipCorrect`, `CounterCorrect`, `DrainComplete`,
`BarrierHolds` and `ChannelImplemented`.  `CounterExact` is not inductive: that a
decrement never underflows needs to know that the packet was outstanding, which
needs the owner of the packet (`SingleOwner`), which needs to know at which steps of
the consumer something is being executed (`ControlInv`: one operation executes at a
time, only in the execution steps, never while draining; the entries of a batch are
empty elsewhere; system operations are only being scheduled by an execution).  `IInv`
is the conjunction; each conjunct has a lemma with a case for each action.  Counting
steps use that one packet enters or leaves the finite set of outstanding packets.
`NoOperationLeftBehind` follows since the drain ends when the counter equals the flag,
so that the set is empty.  `AbortIsBarrier` speaks only of the moment the packet was
received; its strengthening `Ordered` says of every state before that what was ahead of
the packet and not run yet is in front of it, in the entries or the port.  For the
refinement each action is matched with the step of `OperationChannel` it makes: the
flag of `state_` decides between `Admit` and `RefuseNew` because it stands exactly while
somebody aborts or drains (`FlagStands`, from `CounterExact`), and `FinishDraining` finds
nothing admitted because of `NoOperationLeftBehind` in the state after it.

`TaskQueue_proofs` proves, from `QueueAssumption` alone, `TypeCorrect`,
`CounterCorrect`, `WakeupCorrect`, `TransferCorrect` and `ChannelImplemented`.
`NoLostWakeup` is not inductive: a consumer that executes tasks is about to wait, so
`WakeupPending` says the same of it.  `MutexHolder` (the item whose insert holds the
mutex is the last one) makes the rollback right, and `QueuedOnce` (buffer and queue
hold each pushed item once) makes the executed task another one than the one being
inserted.  The refinement has one lemma for each action: `Push` is a stutter, since an
insert shows when it lets go of the mutex; `Transfer` is one, since it moves tasks
from one part of the abstract queue to the other.

`LinuxSocketContainer_proofs` proves every safety property of the Linux runs from
`ContainerAssumption` alone.  `Structure` is the inductive core: besides `TypeOK` and
`MapsAgree`, `Position` says what the consumer thread may be at (which sockets it is
accepting for or erasing, and that a socket it works for is in the maps),
`PresentHasDescriptor` and `SocketsMatch` that the kernel has an open socket of the
right kind for each socket of the container, `NotGenerated` that an identifier not
given yet is unused everywhere, and `ClientsHaveIdentifiers` that each waiting client
has an identifier left.  `MapsAgree` alone is not inductive: after the `catch` of
`handleSocketEvents` it needs to know which socket is being erased.  That `UndoInsert`
restores both maps, and the kernel but for the client it took, is `UndoInsertRestores`:
the identifier is not given yet, and the descriptor is free.  `WireInOrder`
is inductive beside it: every send moves bytes from the front of `outgoing` to the end of
`wire` and adds the next number behind.  `NoEdgeLost` has a strengthening of its own,
`EdgesCovered`: a socket with something left to do is ready in the kernel, in the
rest of the batch, or in the hands of the handler.  `OpenMeansConnected` rests on
`EventsMeanConnected`, which says of every event in the batch what the handler will
take for granted, with the same exception for descriptors that were used again.  The
refinement adds `StageMatches`, from the type and the presence of a socket to what its
user was told.  `open(2)` returns the lowest free descriptor: that there is one is
`SmallestElement`.

`WindowsSocketContainer_proofs` proves `TypeCorrect`, `SocketsAlwaysServed`,
`AcceptsEndOnlyAtLimit` and `LifecycleImplemented`, also from its `ContainerAssumption`
alone.  `EverySocketServed` speaks of the moments between two packets, so that its
strengthening must say what holds inside an operation that failed: `ListenersServed`
lets one listening socket be `Unserved`, the one whose accept is failing, and
`ConnectionsServed` the socket that is being erased.  Two accepts are never in flight
for one listening socket because `acceptRescheduled_` is set exactly when the next one
was posted (`Position`).  `FailuresCounted` ties the count of failures to the history of
failures in a row, except for the one that is being handled (`Uncounted`), which bounds
the count and gives `AcceptsEndAtLimit`.  `IdentifiersSuffice` counts the identifiers
that accepts in flight will still take (`Committed`).  In the refinement the acceptor of
a pending socket is hidden until the socket is announced.

The proof found a mistake in the model: two cases of `EraseSocket` overlapped for a
pending socket whose listening socket is gone, so that TLC took the first and the
definition did not say which.  The code tests one after the other; the model now does.

`ProtocolReader_proofs` proves `TypeCorrect`, `BuffersAlwaysFramed`,
`OneShotConsumersRunOnce`, `RequestsAlwaysAnswered` and `DeliveryImplemented`, for any
number of sockets and identifiers and any bits in a byte, from `ReaderAssumption`:
frames hold their identifier, streams are laid out, and no message has the identifier
of a request (the registry has an identifier once), and consumers are registered for
identifiers of the registry.  `BuffersFramed` is not inductive,
since it says nothing of the socket that is read.  `Structure` does: every buffer ends
with the last byte that was delivered and has no gap (`Buffered`), a socket that nobody
reads `Waits` for bytes of its next frame, and the offset of the read under way is at
the first byte of the next frame (`OffsetAtFrame`).  From it, `AtCurrent` shows that what
the reader finds at its offset is the next frame of the stream and that its test for
enough bits is the test for the last byte of that frame; it rests on rounding
(`RoundedBehind`: whole bytes in front are not rounded) and on frames that do not overlap
(`FramesApart`).  The one-shot consumers need `OneShot` (a number that is awaited was
given, and no response to it was delivered before); the answers are `InOrder` because
the request that is answered is the last of those delivered, so that the places of the
others stay; a response that cannot be serialized takes answers from the end only
(`AnswersDropped`).  In the refinement only the consumers that a frame can find count,
those of messages under identifiers of messages and of requests under those of requests;
that a frame finds its own among them uses that the identifiers of the kinds are
disjoint.

`ProtocolDefinition_proofs` and `ProtocolRegistration_proofs` prove
`DefinitionsAcceptedAsWritten` and `RegistryIsSound` from `TextsAssumption` alone: the
texts are sequences of definitions, and each type in them is the bottom-up form of one.
The texts may have any length and their types any depth.  `AcceptedAsWritten` speaks of
the end; `ParseInv` says of every position in the text what the parser holds there.  The
position is between two definitions (`Between`), in a block of fields between two fields
or before its end, within the type of a field (`InType`, after n of its nodes) or before
a name; at each, what is left of `nodes` is the rest of the text, the `protocol` is that
of the definitions before (`Done`), the two lists of fields are those of the blocks before
and of the fields so far, and the stack of types is `StackOf` the nodes so far: cut after
each node where the number of operands is last that high, and each piece the nodes
of one type on the stack.  One lemma for each case of the loop moves this from a position to the
next one.  That a type is on top of the stack when a list or a map is reduced, and two
for a map, is what `Types` says of the number of operands; that the key is the lower one
is `KeyEnd`.

The other half is that an error is thrown only for a text that is not legal, and that
validation passes exactly for a legal one.  The first is read off the position: the
reserved name, the key that cannot be one, and the message that is not found are at that
position of the text.  For the second, names and keys that the parser has passed are
checked already, and part of the stages (an unknown message or a bad key does not come
to validation); the rest of `Legal` is compared with `ValidateProtocolDefinition`
condition by condition, which needs where a definition is among those of its kind
(`SelPositions`): the text has messages and requests in any order, the protocol has two
lists.  `Legal` sees the definitions above, validation all messages for each request, so
that a message below a request is not legal and must have been refused by the lookup.

`RegistrationInv` says that some number of initializers ran, that the registry holds
exactly the identifiers and descriptors of the protocols of those (`Filled`), and that the
rest is to come (`Left`).  That nobody finds an identifier taken unless two hash codes
coincide uses the validation, and that a request which was taken out again leaves the
registry as it was is `WithoutTheOne`: names of messages and requests are distinct, each hash has
the name in second place, and a response has the hash of its request and one element
more.  `Invariance` joins the two invariants.

The types of `ProtocolDefinition` were a recursive tree at first, which kept the provers
out; as sequences of nodes they are the same to the code of the loop, which never looks
below the top of what it pops.

`QueueLemmas` holds the facts about sequences that several use (append, tail, front,
split, and what they do to `HoldsOnce` of `Queues`), and `SmallestElement`.

The constants that bound a run (`MaxSockets`, `MaxFrames`, `MaxRequests` and the like)
stay in the theorems as arbitrary numbers.

Only model-checked: all liveness (`DestructorReturns`, `OperationsSettle`,
`TasksExecuted`, `FramesHandled`, `PeerEndNoticed`, `OutgoingDrained`,
`ClientsAccepted`), which is out of the prover's reach, and `FramesExact` of
`GeneratedProtocol`: values nest as their types do, to any depth, and what the recursive
`Serialize` and `Deserialize` compute of them can be proved only by induction over data,
which the installed provers cannot do.
`ClientsCannotClose` and `IdentifiersTellTypes` do not hold.

## 6. Not modelled

* The facade (`socket_provider.cpp`) keeps no state: it serializes an argument, which
  `GeneratedProtocol` models, and forwards it.  Common types have no behaviour, and the
  generator (`internal/service.cpp`) reads a file and writes two.
* The tokenizer and the parser of the glyph library, `hashCombine` and the bit
  operations of ballotin: other libraries, modelled from how the code uses them.
* The text of the generated code, and whether a C++ compiler takes it: names of fields
  or messages that clash with C++ or with the generated members.  `toString`, which
  prints a definition.
* Two endpoints composed: planned, see section 2.
* Linux: `~SocketContainer`, and failures of `EPOLL_CTL_MOD` (lack of kernel memory).
  The handler of `EPOLLRDHUP` is never reached: the code does not subscribe it.  `send`
  is called without `MSG_NOSIGNAL`; the model goes on as if `SIGPIPE` were ignored.
* Windows: the bytes of a stream (`WindowsSocketContainer` has at most one send at a
  time; framing is the matter of `ProtocolReader`), `WSAStartup` and `WSACleanup`, and
  users that name the identifier of a pending socket, which they were never told.
* The arguments of callbacks: on Linux `clientOpen` of a connecting socket carries the
  invalid identifier as its listening socket, on Windows the socket's own;
  `SocketLifecycle` does not look at it.
* Payload strings, addresses, logging.
* A provider destroyed by a callback on its own consumer thread.

In the modules, definitions under a comment "Faulty variant" are not part of the
specification: each is a plausible mistake in the definition that follows it, and
`PROJECT.json` names the property that catches it.
