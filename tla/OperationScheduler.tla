------------------------- MODULE OperationScheduler -------------------------
(***************************************************************************)
(* The operation scheduler of the Windows back end                         *)
(* (internal/windows/operation_scheduler.cpp): user threads that post      *)
(* operations to an I/O completion port, the consumer thread that dequeues *)
(* them in batches, system operations whose I/O the kernel completes, and  *)
(* the destructor that aborts the consumer.                                *)
(*                                                                         *)
(* The completion port is a FIFO of packets.  A packet is an operation or  *)
(* the abort packet (a null OVERLAPPED pointer).  What an operation does   *)
(* to its sockets is left out: executing one means scheduling some system  *)
(* operations and then returning true, returning false or throwing.        *)
(***************************************************************************)
EXTENDS Naturals, Sequences, FiniteSets, Queues

CONSTANTS
  UserOperations,    \* operations users submit, each by a call of its own
  SystemOperations,  \* operation objects that other operations schedule
  AbortPacket,       \* the packet that the destructor posts
  AbortingFlag,      \* the top bit of state_
  MaxEntries,        \* maximumNumberOfEntries of one dequeue
  MaxSpawns,         \* bound: system operations one execution may schedule
  Faults             \* which calls into the kernel may fail

Operations == UserOperations \cup SystemOperations
Packets == Operations \cup {AbortPacket}

ASSUME SchedulerAssumption ==
  /\ IsFiniteSet(UserOperations)
  /\ IsFiniteSet(SystemOperations)
  /\ UserOperations \cap SystemOperations = {}
  /\ AbortPacket \notin Operations
  /\ AbortingFlag \in Nat
  /\ Cardinality(Packets) < AbortingFlag
  /\ MaxEntries \in Nat \ {0}
  /\ MaxSpawns \in Nat
  /\ Faults \subseteq {"post", "abort", "dequeue", "drain"}

VARIABLES
  state,       \* state_: outstanding operations, plus AbortingFlag once aborting
  place,       \* who holds each packet
  port,        \* packets in the completion port, oldest first
  entries,     \* dequeued packets that the consumer has not come to yet
  consumer,    \* where the consumer thread is
  draining,    \* the consumer's local flag
  spawned,     \* system operations scheduled by the execution under way
  destructor,  \* where the destroying thread is
  ran,         \* history: user operations that were executed or failed
  ahead        \* history: user operations queued ahead of the abort packet

vars == <<state, place, port, entries, consumer, draining, spawned,
          destructor, ran, ahead>>

-----------------------------------------------------------------------------
(* Places of a packet.  "admitted": counted, about to be posted;           *)
(* "refused": counted, about to be uncounted because it was rejected or    *)
(* could not be posted; "pending": the kernel works on its I/O; "queued":  *)
(* in the port or among the dequeued entries.                              *)

Counted == {"admitted", "refused", "pending", "queued", "executing"}
Finished == {"rejected", "done", "dropped"}
Places == Counted \cup Finished \cup {"idle"}

(* state_ is an unsigned word: decrementing zero wraps around and sets the *)
(* aborting flag.                                                          *)

Incremented == IF state = 2 * AbortingFlag - 1 THEN 0 ELSE state + 1
Decremented == IF state = 0 THEN 2 * AbortingFlag - 1 ELSE state - 1
\* Faulty variant: the flag is added, which carries when it is already set.
WithFlagAdded(s) == s + AbortingFlag

WithFlag(s) == IF s < AbortingFlag THEN s + AbortingFlag ELSE s
Aborting == state >= AbortingFlag

\* The consumer thread is not inside scheduleSystemOperation.
NotScheduling == \A o \in SystemOperations : place[o] \notin {"admitted", "refused"}

\* A system operation that was freed is a new one when it is next scheduled.
Freed(p, outcome) == IF p \in SystemOperations THEN "idle" ELSE outcome

Init ==
  /\ state = 0
  /\ place = [p \in Packets |-> "idle"]
  /\ port = <<>>
  /\ entries = <<>>
  /\ consumer = "checking"
  /\ draining = FALSE
  /\ spawned = 0
  /\ destructor = "idle"
  /\ ran = {}
  /\ ahead = {}

-----------------------------------------------------------------------------
(* scheduleUserOperation, on any thread.                                   *)

\* fetch_add(1), and the test of the flag in the value it returned.
CountUserOperation(o) ==
  /\ destructor # "closed"
  /\ place[o] = "idle"
  /\ state' = Incremented
  /\ place' = [place EXCEPT ![o] = IF Aborting THEN "refused" ELSE "admitted"]
  /\ UNCHANGED <<port, entries, consumer, draining, spawned, destructor, ran, ahead>>

PostUserOperation(o) ==
  /\ place[o] = "admitted"
  /\ place' = [place EXCEPT ![o] = "queued"]
  /\ port' = Append(port, o)
  /\ UNCHANGED <<state, entries, consumer, draining, spawned, destructor, ran, ahead>>

PostUserOperationFails(o) ==
  /\ "post" \in Faults
  /\ place[o] = "admitted"
  /\ place' = [place EXCEPT ![o] = "refused"]
  /\ UNCHANGED <<state, port, entries, consumer, draining, spawned, destructor, ran, ahead>>

\* --state_ while the exception leaves scheduleUserOperation.
UncountUserOperation(o) ==
  /\ place[o] = "refused"
  /\ state' = Decremented
  /\ place' = [place EXCEPT ![o] = "rejected"]
  /\ UNCHANGED <<port, entries, consumer, draining, spawned, destructor, ran, ahead>>

ScheduleUserOperation(o) ==
  \/ CountUserOperation(o)
  \/ PostUserOperation(o)
  \/ PostUserOperationFails(o)
  \/ UncountUserOperation(o)

-----------------------------------------------------------------------------
(* scheduleSystemOperation, on the consumer thread only: called by the     *)
(* execute or onFailure of the operation that is executing.                *)

CountSystemOperation(o) ==
  /\ consumer \in {"executing", "failing"}
  /\ spawned < MaxSpawns
  /\ place[o] = "idle"
  /\ NotScheduling
  /\ spawned' = spawned + 1
  /\ state' = Incremented
  /\ place' = [place EXCEPT ![o] = "admitted"]
  /\ UNCHANGED <<port, entries, consumer, draining, destructor, ran, ahead>>

\* ISystemOperation::schedule hands the operation to the kernel.
PostSystemOperation(o) ==
  /\ place[o] = "admitted"
  /\ place' = [place EXCEPT ![o] = "pending"]
  /\ UNCHANGED <<state, port, entries, consumer, draining, spawned, destructor, ran, ahead>>

\* ISystemOperation::schedule throws: a socket is gone, or the call failed.
\* The exception ends execute, which calls the failure hook, or ends the hook.
PostSystemOperationFails(o) ==
  /\ place[o] = "admitted"
  /\ place' = [place EXCEPT ![o] = "refused"]
  /\ UNCHANGED <<state, port, entries, consumer, draining, spawned, destructor, ran, ahead>>

UncountSystemOperation(o) ==
  /\ place[o] = "refused"
  /\ state' = Decremented
  /\ place' = [place EXCEPT ![o] = "idle"]
  /\ consumer' = IF consumer = "executing" THEN "failing" ELSE "failed"
  /\ UNCHANGED <<port, entries, draining, spawned, destructor, ran, ahead>>

ScheduleSystemOperation(o) ==
  \/ CountSystemOperation(o)
  \/ PostSystemOperation(o)
  \/ PostSystemOperationFails(o)
  \/ UncountSystemOperation(o)

\* The kernel completes an I/O, with success or failure, and queues its packet.
CompleteIo(o) ==
  /\ place[o] = "pending"
  /\ place' = [place EXCEPT ![o] = "queued"]
  /\ port' = Append(port, o)
  /\ UNCHANGED <<state, entries, consumer, draining, spawned, destructor, ran, ahead>>

-----------------------------------------------------------------------------
(* consumeOperationsWork, the loop of the consumer thread.                 *)

\* Faulty variant: the drain ends as soon as the port is empty.
FinishDrainingEmptyPort ==
  /\ consumer = "checking"
  /\ draining
  /\ port = <<>>
  /\ consumer' = "drained"
  /\ UNCHANGED <<state, place, port, entries, draining, spawned, destructor, ran, ahead>>

\* The head of the loop: all operations are drained, or dequeue again.
FinishDraining ==
  /\ consumer = "checking"
  /\ draining
  /\ state = AbortingFlag
  /\ consumer' = "drained"
  /\ UNCHANGED <<state, place, port, entries, draining, spawned, destructor, ran, ahead>>

CheckDrained ==
  /\ consumer = "checking"
  /\ ~(draining /\ state = AbortingFlag)
  /\ consumer' = "dequeuing"
  /\ UNCHANGED <<state, place, port, entries, draining, spawned, destructor, ran, ahead>>

Dequeue ==
  /\ consumer = "dequeuing"
  /\ \E n \in 1 .. MaxEntries :
       /\ n <= Len(port)
       /\ entries' = SubSeq(port, 1, n)
       /\ port' = SubSeq(port, n + 1, Len(port))
  /\ consumer' = "batch"
  /\ UNCHANGED <<state, place, draining, spawned, destructor, ran, ahead>>

\* Faulty variant: a draining consumer waits without a timeout.
DequeueBlocks ==
  /\ consumer = "dequeuing"
  /\ draining
  /\ port = <<>>
  /\ UNCHANGED vars

\* Only a draining consumer dequeues with a timeout.
DequeueTimesOut ==
  /\ consumer = "dequeuing"
  /\ draining
  /\ port = <<>>
  /\ consumer' = "checking"
  /\ UNCHANGED <<state, place, port, entries, draining, spawned, destructor, ran, ahead>>

\* Faulty variants: the flag is not set, and the thread gives up at once.
DequeueFailsUnflagged ==
  /\ "dequeue" \in Faults
  /\ consumer = "dequeuing"
  /\ ~draining
  /\ draining' = TRUE
  /\ consumer' = "checking"
  /\ UNCHANGED <<state, place, port, entries, spawned, destructor, ran, ahead>>

DequeueFailsUndrained ==
  /\ "dequeue" \in Faults
  /\ consumer = "dequeuing"
  /\ ~draining
  /\ consumer' = "broken"
  /\ UNCHANGED <<state, place, port, entries, draining, spawned, destructor, ran, ahead>>

\* startDraining: set the flag and erase all sockets, which cancels their I/O.
DequeueFails ==
  /\ "dequeue" \in Faults
  /\ consumer = "dequeuing"
  /\ ~draining
  /\ draining' = TRUE
  /\ state' = WithFlag(state)
  /\ consumer' = "checking"
  /\ UNCHANGED <<place, port, entries, spawned, destructor, ran, ahead>>

DrainFails ==
  /\ "drain" \in Faults
  /\ consumer = "dequeuing"
  /\ draining
  /\ consumer' = "broken"
  /\ UNCHANGED <<state, place, port, entries, draining, spawned, destructor, ran, ahead>>

EndBatch ==
  /\ consumer = "batch"
  /\ entries = <<>>
  /\ consumer' = "checking"
  /\ UNCHANGED <<state, place, port, entries, draining, spawned, destructor, ran, ahead>>

\* Faulty variant: a null packet is not counted down.
DrainEntryNullUncounted ==
  /\ consumer = "batch"
  /\ entries # <<>>
  /\ draining
  /\ place' = [place EXCEPT ![Head(entries)] = Freed(Head(entries), "dropped")]
  /\ state' = IF Head(entries) = AbortPacket THEN state ELSE Decremented
  /\ entries' = Tail(entries)
  /\ UNCHANGED <<port, consumer, draining, spawned, destructor, ran, ahead>>

\* While draining, the operation (or the null abort packet) is deleted unexecuted.
DrainEntry ==
  /\ consumer = "batch"
  /\ entries # <<>>
  /\ draining
  /\ place' = [place EXCEPT ![Head(entries)] = Freed(Head(entries), "dropped")]
  /\ state' = Decremented
  /\ entries' = Tail(entries)
  /\ UNCHANGED <<port, consumer, draining, spawned, destructor, ran, ahead>>

\* Faulty variants: the rest of the batch is left; the abort is looked for first.
ReceiveAbortLeavesBatch ==
  /\ consumer = "batch"
  /\ entries # <<>>
  /\ ~draining
  /\ Head(entries) = AbortPacket
  /\ draining' = TRUE
  /\ place' = [place EXCEPT ![AbortPacket] = "done"]
  /\ state' = WithFlag(Decremented)
  /\ entries' = <<>>
  /\ UNCHANGED <<port, consumer, spawned, destructor, ran, ahead>>

ReceiveAbortFirst ==
  /\ consumer = "batch"
  /\ ~draining
  /\ \E k \in 1 .. Len(entries) :
       /\ entries[k] = AbortPacket
       /\ entries' = SubSeq(entries, 1, k - 1) \o SubSeq(entries, k + 1, Len(entries))
  /\ draining' = TRUE
  /\ place' = [place EXCEPT ![AbortPacket] = "done"]
  /\ state' = WithFlag(Decremented)
  /\ UNCHANGED <<port, consumer, spawned, destructor, ran, ahead>>

ReceiveAbort ==
  /\ consumer = "batch"
  /\ entries # <<>>
  /\ ~draining
  /\ Head(entries) = AbortPacket
  /\ draining' = TRUE
  /\ place' = [place EXCEPT ![AbortPacket] = "done"]
  /\ state' = WithFlag(Decremented)
  /\ entries' = Tail(entries)
  /\ UNCHANGED <<port, consumer, spawned, destructor, ran, ahead>>

\* consumeOperation: execute the operation, or its failure hook when its
\* status is an error (which the packet of a new user operation never has).
ConsumeEntry ==
  /\ consumer = "batch"
  /\ entries # <<>>
  /\ ~draining
  /\ Head(entries) # AbortPacket
  /\ place' = [place EXCEPT ![Head(entries)] = "executing"]
  /\ entries' = Tail(entries)
  /\ spawned' = 0
  /\ consumer' \in IF Head(entries) \in UserOperations \ ran
                   THEN {"executing"} ELSE {"executing", "failing"}
  /\ ran' = ran \cup ({Head(entries)} \cap UserOperations)
  /\ UNCHANGED <<state, port, draining, destructor, ahead>>

\* execute throws: handleSuccessfulOperation calls the failure hook.
ExecuteThrows ==
  /\ consumer = "executing"
  /\ NotScheduling
  /\ consumer' = "failing"
  /\ UNCHANGED <<state, place, port, entries, draining, spawned, destructor, ran, ahead>>

\* execute returns true: it has posted its I/O again and is not deleted.
Reschedule(o) ==
  /\ consumer = "executing"
  /\ place[o] = "executing"
  /\ NotScheduling
  /\ place' = [place EXCEPT ![o] = "pending"]
  /\ consumer' = "batch"
  /\ UNCHANGED <<state, port, entries, draining, spawned, destructor, ran, ahead>>

\* execute returns false, or the failure hook is over: delete and uncount.
EraseOperation(o) ==
  /\ consumer \in {"executing", "failing", "failed"}
  /\ place[o] = "executing"
  /\ NotScheduling
  /\ place' = [place EXCEPT ![o] = Freed(o, "done")]
  /\ state' = Decremented
  /\ consumer' = "batch"
  /\ UNCHANGED <<port, entries, draining, spawned, destructor, ran, ahead>>

Consumer ==
  \/ FinishDraining \/ CheckDrained
  \/ Dequeue \/ DequeueTimesOut \/ DequeueFails \/ DrainFails
  \/ EndBatch \/ DrainEntry \/ ReceiveAbort \/ ConsumeEntry \/ ExecuteThrows
  \/ \E o \in Operations : Reschedule(o) \/ EraseOperation(o)
  \/ \E o \in SystemOperations : ScheduleSystemOperation(o)

-----------------------------------------------------------------------------
(* ~OperationScheduler: scheduleAbortOperation, join, CloseHandle.         *)

SetAbortingFlag ==
  /\ destructor = "idle"
  /\ destructor' = "flagged"
  /\ state' = WithFlag(state)
  /\ UNCHANGED <<place, port, entries, consumer, draining, spawned, ran, ahead>>

CountAbortPacket ==
  /\ destructor = "flagged"
  /\ place[AbortPacket] = "idle"
  /\ place' = [place EXCEPT ![AbortPacket] = "admitted"]
  /\ state' = Incremented
  /\ UNCHANGED <<port, entries, consumer, draining, spawned, destructor, ran, ahead>>

PostAbortPacket ==
  /\ place[AbortPacket] = "admitted"
  /\ place' = [place EXCEPT ![AbortPacket] = "queued"]
  /\ port' = Append(port, AbortPacket)
  /\ ahead' = {o \in UserOperations : place[o] = "queued"}
  /\ destructor' = "joining"
  /\ UNCHANGED <<state, entries, consumer, draining, spawned, ran>>

\* The failure is only logged, and the destructor goes on to join.
PostAbortPacketFails ==
  /\ "abort" \in Faults
  /\ place[AbortPacket] = "admitted"
  /\ place' = [place EXCEPT ![AbortPacket] = "rejected"]
  /\ state' = Decremented
  /\ destructor' = "joining"
  /\ UNCHANGED <<port, entries, consumer, draining, spawned, ran, ahead>>

Join ==
  /\ destructor = "joining"
  /\ consumer \in {"drained", "broken"}
  /\ destructor' = "closed"
  /\ UNCHANGED <<state, place, port, entries, consumer, draining, spawned, ran, ahead>>

Destructor ==
  \/ SetAbortingFlag \/ CountAbortPacket
  \/ PostAbortPacket \/ PostAbortPacketFails \/ Join

-----------------------------------------------------------------------------
Next ==
  \/ \E o \in UserOperations : ScheduleUserOperation(o)
  \/ Consumer
  \/ \E o \in Operations : CompleteIo(o)
  \/ Destructor

Spec == Init /\ [][Next]_vars

(* Fairness: every thread that is inside the scheduler keeps running.      *)
(* Users need not submit anything and the destructor need not be called.   *)
(* An I/O need not complete until it is cancelled, by erasing its socket,  *)
(* which startDraining does for every socket.                              *)

Fairness ==
  /\ WF_vars(Consumer)
  /\ \A o \in UserOperations :
       WF_vars(PostUserOperation(o) \/ PostUserOperationFails(o) \/ UncountUserOperation(o))
  /\ \A o \in Operations : WF_vars(draining /\ CompleteIo(o))
  /\ WF_vars(CountAbortPacket \/ PostAbortPacket \/ PostAbortPacketFails \/ Join)

FairSpec == Spec /\ Fairness

-----------------------------------------------------------------------------
\* The packets that were counted and not uncounted yet.
Outstanding == {p \in Packets : place[p] \in Counted}

\* The state of each variable in a state the program can be in.
TypeOK ==
  /\ state \in 0 .. 2 * AbortingFlag - 1
  /\ place \in [Packets -> Places]
  /\ port \in Seq(Packets)
  /\ entries \in Seq(Packets)
  /\ consumer \in {"checking", "dequeuing", "batch", "executing", "failing",
                   "failed", "drained", "broken"}
  /\ draining \in BOOLEAN
  /\ spawned \in 0 .. MaxSpawns
  /\ destructor \in {"idle", "flagged", "joining", "closed"}
  /\ ran \subseteq UserOperations
  /\ ahead \subseteq UserOperations

\* state_ is exact: its low bits hold the number of packets that somebody
\* still has to uncount, and its top bit is set once anyone aborts.  An
\* underflow, a lost increment or a packet uncounted twice breaks it.
CounterExact ==
  state = Cardinality(Outstanding)
          + (IF draining \/ destructor # "idle" THEN AbortingFlag ELSE 0)

\* Ownership: the port and the dequeued entries hold exactly the packets
\* that were handed to them, each once, so that none is deleted twice,
\* deleted while the kernel still has it, or lost.
SingleOwner == HoldsOnce(entries \o port, {p \in Packets : place[p] = "queued"})

\* The consumer thread never returns while an operation can still reach the
\* port: nothing is queued, awaits the kernel, or was admitted by a user
\* thread that has yet to post it.  Only the failure of a dequeue while
\* draining, which the code logs and gives up on, is excepted.
NoOperationLeftBehind ==
  consumer = "drained" =>
    \A o \in Operations : place[o] \notin Counted \ {"refused"}

\* "Operations preceding the abort are consumed as usual": whatever a user
\* had queued when the abort packet was posted was run before draining
\* starts, unless draining started because a dequeue failed.
AbortIsBarrier ==
  place[AbortPacket] = "done" => ahead \subseteq ran

\* What the scheduler does, as its users see it.
statusBar ==
  [o \in UserOperations |->
     CASE place[o] = "idle" -> "new"
       [] place[o] \in {"admitted", "queued", "pending", "executing"} -> "admitted"
       [] place[o] \in {"refused", "rejected"} -> "refused"
       [] OTHER -> place[o]]

phaseBar ==
  CASE consumer \in {"drained", "broken"} -> consumer
    [] draining /\ consumer \notin {"drained", "broken"} -> "draining"
    [] destructor # "idle" /\ ~draining /\ consumer \notin {"drained", "broken"} -> "aborting"
    [] OTHER -> "open"

Channel == INSTANCE OperationChannel WITH status <- statusBar, phase <- phaseBar

\* The scheduler keeps the promise of OperationChannel.
ImplementsChannel == Channel!ChannelSpec

\* Once called, the destructor returns: the drain ends although rejected
\* users overcount the operations and cancelled I/O completes late.
DestructorReturns == destructor # "idle" ~> destructor = "closed"

\* Every call of a user that was counted ends in exactly one of: run and
\* deleted, dropped by the drain, rejected; or its I/O is pending.
OperationsSettle ==
  \A o \in UserOperations :
    place[o] \in {"admitted", "refused", "queued", "executing"}
      ~> place[o] \in Finished \cup {"pending"}
=============================================================================
