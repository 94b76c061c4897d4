------------------------------ MODULE TaskQueue ------------------------------
(***************************************************************************)
(* The task queue of the Linux back end (internal/linux/task_queue.cpp)    *)
(* and the thread that consumes it (linux_socket_provider_implementation   *)
(* .cpp): users push tasks under a mutex and add one to the counter of a   *)
(* non-blocking event file descriptor; the consumer waits for an edge      *)
(* triggered event on that descriptor, reads the counter to zero and takes *)
(* all tasks.  What a task does to its socket is left out, and so are the  *)
(* socket events that the same thread handles between two transfers.       *)
(***************************************************************************)
EXTENDS Naturals, Sequences, FiniteSets

CONSTANTS
  Tasks,       \* tasks that users insert, each by a call of its own
  AbortTask,   \* the null task that the destructor inserts
  NoThread,    \* nobody holds the mutex
  MaxCounter,  \* largest value of the event counter (2^64 - 2 in Linux)
  WaitMayFail  \* whether epoll_wait may return an error, such as EINTR

Items == Tasks \cup {AbortTask}

ASSUME QueueAssumption ==
  /\ IsFiniteSet(Tasks)
  /\ AbortTask \notin Tasks
  /\ NoThread \notin Items
  /\ MaxCounter \in Nat \ {0}
  /\ WaitMayFail \in BOOLEAN

VARIABLES
  tasks,       \* tasks_
  mutex,       \* mutex_: the item whose insert holds it, or NoThread
  counter,     \* the counter of the event file descriptor
  armed,       \* the descriptor is on the ready list of the event poll
  buffer,      \* tasksBuffer: transferred and not executed yet
  life,        \* what became of each item
  consumer,    \* where the consumer thread is
  destructor   \* where the destroying thread is

vars == <<tasks, mutex, counter, armed, buffer, life, consumer, destructor>>

Init ==
  /\ tasks = <<>>
  /\ mutex = NoThread
  /\ counter = 0
  /\ armed = FALSE
  /\ buffer = <<>>
  /\ life = [i \in Items |-> "new"]
  /\ consumer = "waiting"
  /\ destructor = "idle"

-----------------------------------------------------------------------------
(* TaskQueue::insert, on the thread of the caller.  Only a callback on the *)
(* consumer thread may still call while the provider is being destroyed;   *)
(* the model allows it to any thread until the destructor has returned.    *)

Push(i) ==
  /\ destructor \notin {"closed", "terminated"}
  /\ life[i] = "new"
  /\ mutex = NoThread
  /\ mutex' = i
  /\ tasks' = Append(tasks, i)
  /\ life' = [life EXCEPT ![i] = "inserting"]
  /\ UNCHANGED <<counter, armed, buffer, consumer>>

\* The write adds one, and makes the descriptor ready again.
Write(i) ==
  /\ destructor # "terminated"
  /\ mutex = i
  /\ counter < MaxCounter
  /\ counter' = counter + 1
  /\ armed' = TRUE
  /\ mutex' = NoThread
  /\ life' = [life EXCEPT ![i] = "accepted"]
  /\ UNCHANGED <<tasks, buffer, consumer>>

\* Faulty variant: the task stays in the queue.
WriteFailsKeepsTask(i) ==
  /\ destructor # "terminated"
  /\ mutex = i
  /\ counter = MaxCounter
  /\ mutex' = NoThread
  /\ life' = [life EXCEPT ![i] = "refused"]
  /\ UNCHANGED <<tasks, counter, armed, buffer, consumer>>

\* A full counter makes the write fail: pop_back, and throw to the caller.
WriteFails(i) ==
  /\ destructor # "terminated"
  /\ mutex = i
  /\ counter = MaxCounter
  /\ tasks' = SubSeq(tasks, 1, Len(tasks) - 1)
  /\ mutex' = NoThread
  /\ life' = [life EXCEPT ![i] = "refused"]
  /\ UNCHANGED <<counter, armed, buffer, consumer>>

Insert(t) ==
  /\ Push(t) \/ Write(t) \/ WriteFails(t)
  /\ UNCHANGED destructor

-----------------------------------------------------------------------------
(* ~LinuxSocketProviderImplementation: insert(nullptr), join.  It is       *)
(* noexcept: an exception from insert terminates the process.              *)

PushAbort ==
  /\ destructor = "idle"
  /\ Push(AbortTask)
  /\ destructor' = "inserting"

WriteAbort ==
  /\ Write(AbortTask)
  /\ destructor' = "joining"

WriteAbortFails ==
  /\ WriteFails(AbortTask)
  /\ destructor' = "terminated"

Join ==
  /\ destructor = "joining"
  /\ consumer \in {"returned", "dead"}
  /\ destructor' = "closed"
  /\ UNCHANGED <<tasks, mutex, counter, armed, buffer, life, consumer>>

Destructor == PushAbort \/ WriteAbort \/ WriteAbortFails \/ Join

-----------------------------------------------------------------------------
(* consumeEventsWork and consumeTasks, on the consumer thread.             *)

\* epoll_wait takes the descriptor off the ready list, asks it whether it is
\* readable, and reports it only then.
Wait ==
  /\ destructor # "terminated"
  /\ consumer = "waiting"
  /\ armed
  /\ armed' = FALSE
  /\ consumer' = IF counter > 0 THEN "notified" ELSE "waiting"
  /\ UNCHANGED <<tasks, mutex, counter, buffer, life, destructor>>

WaitFails ==
  /\ WaitMayFail
  /\ destructor # "terminated"
  /\ consumer = "waiting"
  /\ consumer' = "dead"
  /\ UNCHANGED <<tasks, mutex, counter, armed, buffer, life, destructor>>

\* Faulty variants: one task per event; and no mutex.
TransferOne ==
  /\ destructor # "terminated"
  /\ consumer = "notified"
  /\ mutex = NoThread
  /\ counter > 0
  /\ counter' = counter - 1
  /\ buffer' = Append(buffer, Head(tasks))
  /\ tasks' = Tail(tasks)
  /\ consumer' = "executing"
  /\ UNCHANGED <<mutex, armed, life, destructor>>

TransferUnlocked ==
  /\ destructor # "terminated"
  /\ consumer = "notified"
  /\ counter > 0
  /\ counter' = 0
  /\ buffer' = buffer \o tasks
  /\ tasks' = <<>>
  /\ consumer' = "executing"
  /\ UNCHANGED <<mutex, armed, life, destructor>>

\* Reading an event counter sets it to zero.  Reading a zero counter fails,
\* which throws out of consumeEventsWork and ends the thread.
Transfer ==
  /\ destructor # "terminated"
  /\ consumer = "notified"
  /\ mutex = NoThread
  /\ IF counter > 0
     THEN /\ counter' = 0
          /\ buffer' = buffer \o tasks
          /\ tasks' = <<>>
          /\ consumer' = "executing"
     ELSE /\ consumer' = "dead"
          /\ UNCHANGED <<tasks, counter, buffer>>
  /\ UNCHANGED <<mutex, armed, life, destructor>>

\* Whatever a task throws is caught and logged.
Execute ==
  /\ destructor # "terminated"
  /\ consumer = "executing"
  /\ buffer # <<>>
  /\ Head(buffer) # AbortTask
  /\ life' = [life EXCEPT ![Head(buffer)] = "executed"]
  /\ buffer' = Tail(buffer)
  /\ UNCHANGED <<tasks, mutex, counter, armed, consumer, destructor>>

\* Faulty variant: the abort task is skipped.
SkipAbort ==
  /\ destructor # "terminated"
  /\ consumer = "executing"
  /\ buffer # <<>>
  /\ Head(buffer) = AbortTask
  /\ buffer' = Tail(buffer)
  /\ UNCHANGED <<tasks, mutex, counter, armed, life, consumer, destructor>>

\* Tasks behind the abort are cleared with the buffer.
ReceiveAbort ==
  /\ destructor # "terminated"
  /\ consumer = "executing"
  /\ buffer # <<>>
  /\ Head(buffer) = AbortTask
  /\ buffer' = <<>>
  /\ consumer' = "returned"
  /\ UNCHANGED <<tasks, mutex, counter, armed, life, destructor>>

\* Faulty variant: transfer again until there is nothing left.
FinishTasksAgain ==
  /\ destructor # "terminated"
  /\ consumer = "executing"
  /\ buffer = <<>>
  /\ consumer' = "notified"
  /\ UNCHANGED <<tasks, mutex, counter, armed, buffer, life, destructor>>

FinishTasks ==
  /\ destructor # "terminated"
  /\ consumer = "executing"
  /\ buffer = <<>>
  /\ consumer' = "waiting"
  /\ UNCHANGED <<tasks, mutex, counter, armed, buffer, life, destructor>>

Consumer ==
  \/ Wait \/ WaitFails \/ Transfer \/ Execute \/ ReceiveAbort \/ FinishTasks

-----------------------------------------------------------------------------
Next == (\E t \in Tasks : Insert(t)) \/ Destructor \/ Consumer

Spec == Init /\ [][Next]_vars

(* Fairness: the consumer thread runs, a caller that holds the mutex goes  *)
(* on to release it, and the destructor, once called, is carried on.       *)
(* Users need not insert anything and epoll_wait need not fail.            *)

Fairness ==
  /\ WF_vars(Wait \/ Transfer \/ Execute \/ ReceiveAbort \/ FinishTasks)
  /\ \A t \in Tasks : WF_vars(Insert(t) /\ mutex = t)
  /\ WF_vars(WriteAbort \/ WriteAbortFails \/ Join)

FairSpec == Spec /\ Fairness

-----------------------------------------------------------------------------
Running == consumer \notin {"returned", "dead"}

\* The values each variable may take.
TypeOK ==
  /\ tasks \in Seq(Items)
  /\ buffer \in Seq(Items)
  /\ mutex \in Items \cup {NoThread}
  /\ counter \in 0 .. MaxCounter
  /\ armed \in BOOLEAN
  /\ life \in [Items -> {"new", "inserting", "accepted", "executed", "refused"}]
  /\ consumer \in {"waiting", "notified", "executing", "returned", "dead"}
  /\ destructor \in {"idle", "inserting", "joining", "closed", "terminated"}

\* Whoever does not hold the mutex sees one count of the event per task.
CounterMatchesTasks ==
  Len(tasks) = counter + (IF mutex = NoThread THEN 0 ELSE 1)

\* The edge is never lost: a consumer that waits although tasks were
\* announced has an event coming, so an accepted task cannot be stranded
\* between the transfer that missed it and a wait that never returns.
NoLostWakeup == consumer = "waiting" /\ counter > 0 => armed

\* The consumer never reads an empty counter, whose error would kill the
\* thread and with it every socket: one event is reported for several writes
\* but never after the transfer that consumed them.
NoSpuriousTransfer == consumer = "notified" => counter > 0

\* The queue keeps the promise of TaskChannel.
Committed == IF mutex = NoThread THEN tasks ELSE SubSeq(tasks, 1, Len(tasks) - 1)

Channel ==
  INSTANCE TaskChannel WITH
    queue <- IF Running THEN buffer \o Committed ELSE <<>>,
    outcome <- [i \in Items |->
                  CASE life[i] \in {"new", "inserting"} -> "new"
                    [] life[i] = "accepted" -> IF Running THEN "queued" ELSE "dropped"
                    [] OTHER -> life[i]],
    running <- Running

ImplementsChannel == Channel!ChannelSpec

\* While the thread lives, an accepted task is executed, unless the abort
\* stops the thread first.
TasksExecuted ==
  \A t \in Tasks :
    life[t] = "accepted" ~> life[t] = "executed" \/ ~Running \/ destructor = "terminated"

\* The destructor, once called, returns (or the process is terminated by the
\* exception that a full counter throws through it).
DestructorReturns == destructor = "inserting" ~> destructor \in {"closed", "terminated"}
=============================================================================
