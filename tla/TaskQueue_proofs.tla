-------------------------- MODULE TaskQueue_proofs --------------------------
(***************************************************************************)
(* Proofs, for every number of tasks and every limit of the event counter, *)
(* that the task queue loses no wake-up, never reads an empty counter and  *)
(* implements TaskChannel.                                                 *)
(***************************************************************************)
EXTENDS TaskQueue, QueueLemmas

\* The item whose insert holds the mutex is the last of the queue.
MutexHolder ==
  mutex # NoThread =>
    /\ life[mutex] = "inserting"
    /\ tasks # <<>>
    /\ tasks[Len(tasks)] = mutex

\* A consumer that is going to wait has an event coming, as one that waits.
WakeupPending ==
  consumer \in {"waiting", "executing"} /\ counter > 0 => armed

\* What the consumer holds and what it will transfer are the items that
\* were pushed and not executed or refused, each of them once.
Pushed == {i \in Items : life[i] \in {"inserting", "accepted"}}

QueuedOnce == Running => HoldsOnce(buffer \o tasks, Pushed)

IInv ==
  /\ TypeOK
  /\ QueuedOnce
  /\ MutexHolder
  /\ CounterMatchesTasks
  /\ WakeupPending
  /\ NoSpuriousTransfer

\* The queue is made with the inductive invariant.
LEMMA InitInvariant == Init => IInv
<1> SUFFICES ASSUME Init PROVE IInv
  OBVIOUS
<1>1. TypeOK
  <2>1. tasks \in Seq(Items) /\ buffer \in Seq(Items)
    BY EmptySeq DEF Init
  <2>2. counter \in 0 .. MaxCounter
    BY QueueAssumption DEF Init
  <2>3. life \in [Items -> {"new", "inserting", "accepted", "executed", "refused"}]
    BY DEF Init
  <2>4. /\ mutex \in Items \cup {NoThread}
        /\ armed \in BOOLEAN
        /\ consumer \in {"waiting", "notified", "executing", "returned", "dead"}
        /\ destructor \in {"idle", "inserting", "joining", "closed", "terminated"}
    BY DEF Init
  <2> QED BY <2>1, <2>2, <2>3, <2>4 DEF TypeOK
<1>2. MutexHolder /\ CounterMatchesTasks /\ WakeupPending /\ NoSpuriousTransfer
  BY EmptySeq DEF Init, MutexHolder, CounterMatchesTasks, WakeupPending, NoSpuriousTransfer
<1>3. QueuedOnce
  <2>1. buffer \o tasks = <<>>
    BY ConcatEmptySeq, EmptySeq DEF Init
  <2>2. HoldsOnce(<<>>, {})
    BY DEF HoldsOnce
  <2>3. Pushed = {}
    BY DEF Init, Pushed
  <2> QED BY <2>1, <2>2, <2>3 DEF QueuedOnce
<1> QED BY <1>1, <1>2, <1>3 DEF IInv

-----------------------------------------------------------------------------
(* One lemma for each action that changes the queue.                       *)

\* push_back under the mutex keeps the queue and its counter in step.
LEMMA PushStep ==
  ASSUME IInv, NEW i \in Items, Push(i)
  PROVE  /\ tasks' \in Seq(Items)
         /\ life' \in [Items -> {"new", "inserting", "accepted", "executed", "refused"}]
         /\ mutex' \in Items
         /\ QueuedOnce'
         /\ MutexHolder'
         /\ CounterMatchesTasks'
<1> USE DEF IInv, TypeOK
<1>1. /\ tasks' \in Seq(Items)
      /\ tasks' # <<>>
      /\ Len(tasks') = Len(tasks) + 1
      /\ tasks'[Len(tasks) + 1] = i
  BY AppendProperties DEF Push
<1>2. life' \in [Items -> {"new", "inserting", "accepted", "executed", "refused"}]
      /\ life'[i] = "inserting" /\ mutex' = i /\ i # NoThread
  BY QueueAssumption DEF Push
<1>3. Len(tasks) = counter /\ counter' = counter /\ counter \in Nat
  BY QueueAssumption DEF Push, CounterMatchesTasks
<1>4. QueuedOnce'
  <2> SUFFICES ASSUME Running PROVE HoldsOnce(buffer' \o tasks', Pushed')
    BY DEF Push, QueuedOnce, Running
  <2>1. buffer' \o tasks' = Append(buffer \o tasks, i)
    BY AppendToConcat DEF Push
  <2>2. Pushed' = Pushed \cup {i} /\ i \notin Pushed
    BY DEF Push, Pushed
  <2>3. buffer \o tasks \in Seq(Items) /\ HoldsOnce(buffer \o tasks, Pushed)
    BY ConcatProperties DEF QueuedOnce
  <2>4. HoldsOnce(Append(buffer \o tasks, i), Pushed \cup {i})
    BY <2>2, <2>3, HoldsOnceAppend
  <2> QED BY <2>1, <2>2, <2>4
<1> QED BY <1>1, <1>2, <1>3, <1>4 DEF MutexHolder, CounterMatchesTasks

\* The write to the event counter announces the task that was pushed.
LEMMA WriteStep ==
  ASSUME IInv, NEW i \in Items, Write(i)
  PROVE  /\ life' \in [Items -> {"new", "inserting", "accepted", "executed", "refused"}]
         /\ counter' \in 1 .. MaxCounter
         /\ QueuedOnce'
         /\ MutexHolder'
         /\ CounterMatchesTasks'
<1> USE DEF IInv, TypeOK
<1>1. i # NoThread
  BY QueueAssumption
<1>2. counter' = counter + 1 /\ counter \in 0 .. MaxCounter - 1 /\ MaxCounter \in Nat
  BY QueueAssumption DEF Write
<1>3. Len(tasks) = counter + 1
  BY <1>1 DEF Write, CounterMatchesTasks
<1>4. CounterMatchesTasks'
  BY <1>2, <1>3 DEF Write, CounterMatchesTasks
<1>5. life' \in [Items -> {"new", "inserting", "accepted", "executed", "refused"}]
  BY DEF Write
<1>6. MutexHolder'
  BY DEF Write, MutexHolder
<1>7. QueuedOnce'
  <2>1. life[i] = "inserting"
    BY <1>1 DEF Write, MutexHolder
  <2>2. Pushed' = Pushed
    BY <2>1 DEF Write, Pushed
  <2> QED BY <2>2 DEF Write, QueuedOnce, Running
<1> QED BY <1>2, <1>4, <1>5, <1>6, <1>7

\* A write that fails takes the task out again.
LEMMA WriteFailsStep ==
  ASSUME IInv, NEW i \in Items, WriteFails(i)
  PROVE  /\ tasks' \in Seq(Items)
         /\ life' \in [Items -> {"new", "inserting", "accepted", "executed", "refused"}]
         /\ QueuedOnce'
         /\ MutexHolder'
         /\ CounterMatchesTasks'
<1> USE DEF IInv, TypeOK
<1>1. i # NoThread /\ mutex = i
  BY QueueAssumption DEF WriteFails
<1>2. tasks # <<>>
  BY <1>1 DEF MutexHolder
<1>3. tasks' \in Seq(Items) /\ Len(tasks') = Len(tasks) - 1
  BY <1>2, FrontAndLast DEF WriteFails
<1>4. Len(tasks) = counter + 1 /\ counter \in Nat
  BY <1>1, QueueAssumption DEF CounterMatchesTasks
<1>5. CounterMatchesTasks'
  BY <1>3, <1>4 DEF WriteFails, CounterMatchesTasks
<1>6. life' \in [Items -> {"new", "inserting", "accepted", "executed", "refused"}]
  BY DEF WriteFails
<1>7. MutexHolder'
  BY DEF WriteFails, MutexHolder
<1>8. QueuedOnce'
  <2> SUFFICES ASSUME Running PROVE HoldsOnce(buffer' \o tasks', Pushed')
    BY DEF WriteFails, QueuedOnce, Running
  <2>1. tasks[Len(tasks)] = i
    BY <1>1 DEF MutexHolder
  <2>2. tasks = Append(tasks', i)
    BY <1>2, <2>1, FrontAndLast DEF WriteFails
  <2>3. buffer \o tasks = Append(buffer \o tasks', i)
    BY <1>3, <2>2, AppendToConcat
  <2>4. Pushed' = Pushed \ {i}
    BY DEF WriteFails, Pushed
  <2>5. buffer \o tasks' \in Seq(Items)
    BY <1>3, ConcatProperties
  <2>6. HoldsOnce(buffer \o tasks', Pushed \ {i})
    BY <2>3, <2>5, HoldsOnceFront DEF QueuedOnce
  <2> QED BY <2>4, <2>6 DEF WriteFails
<1> QED BY <1>3, <1>5, <1>6, <1>7, <1>8

\* The read and the swap take all that was announced.
LEMMA TransferStep ==
  ASSUME IInv, Transfer
  PROVE  /\ counter > 0
         /\ counter' = 0
         /\ tasks' = <<>>
         /\ buffer' = buffer \o tasks
         /\ consumer' = "executing"
<1> USE DEF IInv
<1>1. counter > 0
  BY DEF Transfer, NoSpuriousTransfer
<1> QED BY <1>1 DEF Transfer

\* A task of the buffer is executed once.
LEMMA ExecuteStep ==
  ASSUME IInv, Execute
  PROVE  /\ Head(buffer) \in Items
         /\ buffer' \in Seq(Items)
         /\ QueuedOnce'
         /\ MutexHolder'
<1> USE DEF IInv, TypeOK
<1>1. /\ Head(buffer) \in Items
      /\ buffer' \in Seq(Items)
      /\ Running
      /\ Running'
  BY HeadTailProperties DEF Execute, Running
<1>2. /\ buffer \o tasks \in Seq(Items)
      /\ buffer \o tasks # <<>>
      /\ Head(buffer \o tasks) = Head(buffer)
      /\ Tail(buffer \o tasks) = buffer' \o tasks'
  BY TailOfConcat DEF Execute
<1>3. HoldsOnce(buffer' \o tasks', Pushed \ {Head(buffer)})
  BY <1>1, <1>2, HoldsOnceTail DEF QueuedOnce
<1>4. Pushed' = Pushed \ {Head(buffer)}
  BY <1>1 DEF Execute, Pushed
<1>5. MutexHolder'
  <2> SUFFICES ASSUME mutex # NoThread PROVE Head(buffer) # mutex
    BY <1>1 DEF MutexHolder, Execute
  <2> DEFINE q == buffer \o tasks
  <2>1. /\ Len(buffer) \in Nat \ {0}
        /\ Len(tasks) \in Nat \ {0}
        /\ tasks[Len(tasks)] = mutex
    BY EmptySeq DEF MutexHolder, Execute
  <2>2. /\ DOMAIN q = 1 .. Len(buffer) + Len(tasks)
        /\ \A n \in 1 .. Len(buffer) + Len(tasks) :
             q[n] = IF n <= Len(buffer) THEN buffer[n] ELSE tasks[n - Len(buffer)]
    BY <1>2, ConcatProperties, LenProperties
  <2>3. HoldsOnce(q, Pushed)
    BY <1>1 DEF QueuedOnce
  <2> HIDE DEF q
  <2>4. q[1] = Head(buffer) /\ q[Len(buffer) + Len(tasks)] = mutex
    BY <2>1, <2>2
  <2>5. 1 \in DOMAIN q /\ Len(buffer) + Len(tasks) \in DOMAIN q /\ Len(buffer) + Len(tasks) # 1
    BY <2>1, <2>2
  <2> QED BY <2>3, <2>4, <2>5 DEF HoldsOnce
<1> QED BY <1>1, <1>3, <1>4, <1>5 DEF QueuedOnce

\* Every step keeps the inductive invariant.
LEMMA NextInvariant == IInv /\ [Next]_vars => IInv'
<1> SUFFICES ASSUME IInv, [Next]_vars PROVE IInv'
  OBVIOUS
<1> USE DEF IInv
<1>0. Tasks \subseteq Items /\ AbortTask \in Items /\ MaxCounter \in Nat \ {0}
  BY QueueAssumption DEF Items
<1>1. ASSUME NEW i \in Items, Push(i),
             destructor' \in {"idle", "inserting", "joining", "closed", "terminated"}
      PROVE  IInv'
  <2>1. TypeOK'
    BY <1>1, PushStep DEF TypeOK, Push
  <2>2. WakeupPending' /\ NoSpuriousTransfer'
    BY <1>1 DEF Push, WakeupPending, NoSpuriousTransfer
  <2> QED BY <1>1, <2>1, <2>2, PushStep
<1>2. ASSUME NEW i \in Items, Write(i),
             destructor' \in {"idle", "inserting", "joining", "closed", "terminated"}
      PROVE  IInv'
  <2>1. TypeOK'
    BY <1>0, <1>2, WriteStep DEF TypeOK, Write
  <2>2. WakeupPending'
    BY <1>2 DEF Write, WakeupPending
  <2>3. NoSpuriousTransfer'
    <3>1. counter' \in 1 .. MaxCounter
      BY <1>2, WriteStep
    <3> QED BY <1>0, <3>1 DEF NoSpuriousTransfer
  <2> QED BY <1>2, <2>1, <2>2, <2>3, WriteStep
<1>3. ASSUME NEW i \in Items, WriteFails(i),
             destructor' \in {"idle", "inserting", "joining", "closed", "terminated"}
      PROVE  IInv'
  <2>1. TypeOK'
    BY <1>3, WriteFailsStep DEF TypeOK, WriteFails
  <2>2. WakeupPending' /\ NoSpuriousTransfer'
    BY <1>3 DEF WriteFails, WakeupPending, NoSpuriousTransfer
  <2> QED BY <1>3, <2>1, <2>2, WriteFailsStep
<1>4. ASSUME NEW t \in Tasks, Insert(t) PROVE IInv'
  <2>1. t \in Items /\ destructor' = destructor
    BY <1>0, <1>4 DEF Insert
  <2>2. destructor' \in {"idle", "inserting", "joining", "closed", "terminated"}
    BY <2>1 DEF TypeOK
  <2> QED BY <1>1, <1>2, <1>3, <1>4, <2>1, <2>2 DEF Insert
<1>5. CASE PushAbort
  BY <1>0, <1>1, <1>5 DEF PushAbort
<1>6. CASE WriteAbort
  BY <1>0, <1>2, <1>6 DEF WriteAbort
<1>7. CASE WriteAbortFails
  BY <1>0, <1>3, <1>7 DEF WriteAbortFails
<1>8. CASE Join
  BY <1>8 DEF Join, TypeOK, QueuedOnce, Running, Pushed, MutexHolder, CounterMatchesTasks, WakeupPending, NoSpuriousTransfer
<1>9. CASE Wait
  <2>1. TypeOK' /\ MutexHolder' /\ CounterMatchesTasks'
    BY <1>9 DEF Wait, TypeOK, MutexHolder, CounterMatchesTasks
  <2>2. WakeupPending' /\ NoSpuriousTransfer'
    BY <1>9 DEF Wait, WakeupPending, NoSpuriousTransfer
  <2>3. QueuedOnce'
    BY <1>9 DEF Wait, QueuedOnce, Running, Pushed
  <2> QED BY <2>1, <2>2, <2>3
<1>10. CASE WaitFails
  BY <1>10 DEF WaitFails, TypeOK, MutexHolder, CounterMatchesTasks, WakeupPending,
               NoSpuriousTransfer, QueuedOnce, Running
<1>11. CASE Transfer
  <2>1. mutex = NoThread /\ UNCHANGED <<mutex, armed, life, destructor>>
    BY <1>11 DEF Transfer
  <2>2. tasks' \in Seq(Items) /\ Len(tasks') = 0 /\ buffer' \in Seq(Items)
    <3>1. tasks' = <<>> /\ buffer' = buffer \o tasks
      BY <1>11, TransferStep
    <3>2. buffer \o tasks \in Seq(Items)
      BY ConcatProperties DEF TypeOK
    <3> QED BY <3>1, <3>2
  <2>3. TypeOK'
    BY <1>0, <1>11, <2>1, <2>2, TransferStep DEF TypeOK
  <2>4. MutexHolder' /\ CounterMatchesTasks'
    BY <1>11, <2>1, <2>2, TransferStep DEF MutexHolder, CounterMatchesTasks
  <2>5. WakeupPending' /\ NoSpuriousTransfer'
    <3>1. counter' = 0 /\ ~(0 > 0)
      BY <1>11, TransferStep
    <3> QED BY <1>11, <3>1, TransferStep DEF WakeupPending, NoSpuriousTransfer
  <2>6. QueuedOnce'
    <3>1. buffer' \o tasks' = buffer \o tasks
      BY <1>11, <2>2, TransferStep, ConcatEmptySeq
    <3>2. Running /\ Pushed' = Pushed
      BY <1>11, <2>1 DEF Transfer, Running, Pushed
    <3> QED BY <3>1, <3>2 DEF QueuedOnce
  <2> QED BY <2>3, <2>4, <2>5, <2>6
<1>12. CASE Execute
  <2>1. TypeOK'
    BY <1>12, ExecuteStep DEF Execute, TypeOK
  <2>2. CounterMatchesTasks' /\ WakeupPending' /\ NoSpuriousTransfer'
    BY <1>12 DEF Execute, CounterMatchesTasks, WakeupPending, NoSpuriousTransfer
  <2> QED BY <1>12, <2>1, <2>2, ExecuteStep
<1>13. CASE ReceiveAbort \/ FinishTasks
  <2>1. buffer' \in Seq(Items)
    BY <1>13, EmptySeq DEF ReceiveAbort, FinishTasks, TypeOK
  <2>2. TypeOK' /\ MutexHolder' /\ CounterMatchesTasks'
    BY <1>13, <2>1
       DEF ReceiveAbort, FinishTasks, TypeOK, MutexHolder, CounterMatchesTasks
  <2>3. WakeupPending' /\ NoSpuriousTransfer'
    BY <1>13 DEF ReceiveAbort, FinishTasks, WakeupPending, NoSpuriousTransfer
  <2>4. QueuedOnce'
    BY <1>13 DEF ReceiveAbort, FinishTasks, QueuedOnce, Running, Pushed
  <2> QED BY <2>2, <2>3, <2>4
<1>14. CASE UNCHANGED vars
  BY <1>14 DEF vars, TypeOK, MutexHolder, CounterMatchesTasks, WakeupPending,
               NoSpuriousTransfer, QueuedOnce, Running, Pushed
<1> QED
  BY <1>4, <1>5, <1>6, <1>7, <1>8, <1>9, <1>10, <1>11, <1>12, <1>13, <1>14
     DEF Next, Destructor, Consumer

-----------------------------------------------------------------------------
(* The safety properties.                                                  *)

\* The inductive invariant of the queue: types, each task at one place, the
\* mutex with who is inside, and the counter equal to the tasks announced.
THEOREM InductiveInvariant == Spec => []IInv
BY InitInvariant, NextInvariant, PTL DEF Spec

\* Every variable of the task queue stays in its type.
THEOREM TypeCorrect == Spec => []TypeOK
BY InductiveInvariant, PTL DEF IInv

\* The event counter and the queue never drift apart, whatever inserts fail.
THEOREM CounterCorrect == Spec => []CounterMatchesTasks
BY InductiveInvariant, PTL DEF IInv

\* A consumer that waits although tasks were announced has an event coming.
THEOREM WakeupCorrect == Spec => []NoLostWakeup
<1>1. IInv => NoLostWakeup
  BY DEF IInv, WakeupPending, NoLostWakeup
<1> QED BY <1>1, InductiveInvariant, PTL

\* The consumer thread is never killed by an empty event counter.
THEOREM TransferCorrect == Spec => []NoSpuriousTransfer
BY InductiveInvariant, PTL DEF IInv

-----------------------------------------------------------------------------
(* The task queue implements TaskChannel: tasks are delivered in the order *)
(* in which they were accepted, each once, until the abort.                *)

queueBar == IF Running THEN buffer \o Committed ELSE <<>>
outcomeBar ==
  [i \in Items |->
     CASE life[i] \in {"new", "inserting"} -> "new"
       [] life[i] = "accepted" -> IF Running THEN "queued" ELSE "dropped"
       [] OTHER -> life[i]]

\* What the channel has accepted is a sequence of tasks.
LEMMA CommittedType ==
  ASSUME IInv
  PROVE  /\ Committed \in Seq(Items)
         /\ buffer \o Committed \in Seq(Items)
<1> USE DEF IInv, TypeOK
<1>1. Committed \in Seq(Items)
  <2>1. CASE mutex = NoThread
    BY <2>1 DEF Committed
  <2>2. CASE mutex # NoThread
    BY <2>2, FrontAndLast DEF Committed, MutexHolder
  <2> QED BY <2>1, <2>2
<1> QED BY <1>1, ConcatProperties

\* An insert shows in the channel when it lets go of the mutex.
LEMMA PushStutters ==
  ASSUME IInv, NEW i \in Items, Push(i)
  PROVE  UNCHANGED <<queueBar, outcomeBar, Running>>
<1> USE DEF IInv, TypeOK
<1>1. Committed' = Committed
  <2>1. i # NoThread
    BY QueueAssumption
  <2>2. SubSeq(Append(tasks, i), 1, Len(Append(tasks, i)) - 1) = tasks
    BY FrontOfAppend
  <2> QED BY <2>1, <2>2 DEF Push, Committed
<1>2. Running' = Running
  BY DEF Push, Running
<1>3. outcomeBar' = outcomeBar
  BY <1>2 DEF Push, outcomeBar
<1> QED BY <1>1, <1>2, <1>3 DEF queueBar, Push

\* The write is the step at which the channel accepts the task.
LEMMA WriteAccepts ==
  ASSUME IInv, NEW i \in Items, Write(i)
  PROVE  Channel!Accept(i) \/ Channel!AcceptInVain(i)
<1> USE DEF IInv, TypeOK
<1>1. /\ i # NoThread
      /\ mutex = i
      /\ life[i] = "inserting"
      /\ tasks # <<>>
      /\ tasks[Len(tasks)] = i
  BY QueueAssumption DEF Write, MutexHolder
<1>2. Committed' = Append(Committed, i) /\ Committed \in Seq(Items)
  BY <1>1, FrontAndLast DEF Write, Committed
<1>3. Running' = Running
  BY DEF Write, Running
<1>4. outcomeBar[i] = "new"
  BY <1>1 DEF outcomeBar
<1>5. outcomeBar' = [outcomeBar EXCEPT ![i] = IF Running THEN "queued" ELSE "dropped"]
  BY <1>3 DEF Write, outcomeBar
<1>6. CASE Running
  <2>1. queueBar' = Append(queueBar, i)
    BY <1>2, <1>3, <1>6, AppendToConcat DEF queueBar, Write
  <2> QED BY <1>3, <1>4, <1>5, <1>6, <2>1 DEF Channel!Accept, queueBar, outcomeBar
<1>7. CASE ~Running
  <2>1. queueBar' = queueBar
    BY <1>3, <1>7 DEF queueBar
  <2> QED BY <1>3, <1>4, <1>5, <1>7, <2>1 DEF Channel!AcceptInVain, queueBar, outcomeBar
<1> QED BY <1>6, <1>7

\* The write that fails is the step at which the channel refuses it.
LEMMA WriteFailsRefuses ==
  ASSUME IInv, NEW i \in Items, WriteFails(i)
  PROVE  Channel!Refuse(i)
<1> USE DEF IInv, TypeOK
<1>1. i # NoThread /\ mutex = i /\ life[i] = "inserting"
  BY QueueAssumption DEF WriteFails, MutexHolder
<1>2. Committed' = Committed
  BY <1>1 DEF WriteFails, Committed
<1>3. Running' = Running
  BY DEF WriteFails, Running
<1>4. outcomeBar[i] = "new"
  BY <1>1 DEF outcomeBar
<1>5. outcomeBar' = [outcomeBar EXCEPT ![i] = "refused"]
  BY <1>3 DEF WriteFails, outcomeBar
<1>6. queueBar' = queueBar
  BY <1>2, <1>3 DEF queueBar, WriteFails
<1> QED BY <1>3, <1>4, <1>5, <1>6 DEF Channel!Refuse, queueBar, outcomeBar

\* The execution of a task is its delivery.
LEMMA ExecuteDelivers ==
  ASSUME IInv, Execute
  PROVE  Channel!Deliver
<1> USE DEF IInv, TypeOK
<1>1. Running /\ Running'
  BY DEF Execute, Running
<1>2. Committed' = Committed /\ Committed \in Seq(Items)
  BY CommittedType DEF Execute, Committed
<1>3. /\ queueBar # <<>>
      /\ Head(queueBar) = Head(buffer)
      /\ queueBar' = Tail(queueBar)
  BY <1>1, <1>2, TailOfConcat DEF Execute, queueBar
<1>4. outcomeBar' = [outcomeBar EXCEPT ![Head(buffer)] = "executed"]
  BY <1>1, ExecuteStep DEF Execute, outcomeBar
<1> QED BY <1>1, <1>3, <1>4 DEF Channel!Deliver, Execute, queueBar, outcomeBar

\* The thread stops: what it had, and what was accepted, is dropped.
LEMMA StopDrops ==
  ASSUME IInv, Running, ~Running', life' = life
  PROVE  queueBar' = <<>> /\ outcomeBar' = Channel!Dropped
<1>1. queueBar' = <<>>
  BY DEF queueBar
<1>2. outcomeBar' = [i \in Items |-> IF outcomeBar[i] = "queued" THEN "dropped" ELSE outcomeBar[i]]
  BY DEF IInv, TypeOK, outcomeBar
<1> QED BY <1>1, <1>2 DEF Channel!Dropped, Channel!Items, Items, outcomeBar

\* The abort task of the destructor aborts the channel.
LEMMA AbortAborts ==
  ASSUME IInv, ReceiveAbort
  PROVE  Channel!Abort
<1> USE DEF IInv, TypeOK
<1>1. Running /\ ~Running' /\ life' = life
  BY DEF ReceiveAbort, Running
<1>2. queueBar # <<>> /\ Head(queueBar) = AbortTask
  BY <1>1, CommittedType, TailOfConcat DEF ReceiveAbort, queueBar
<1> QED BY <1>1, <1>2, StopDrops DEF Channel!Abort, queueBar, outcomeBar

\* A failing epoll_wait is the end of the channel.
LEMMA WaitFailsDies ==
  ASSUME IInv, WaitFails
  PROVE  Channel!Die
<1>1. Running /\ ~Running' /\ life' = life
  BY DEF WaitFails, Running
<1> QED BY <1>1, StopDrops DEF Channel!Die, queueBar, outcomeBar

\* Users do not see the transfer from the queue to the buffer.
LEMMA TransferStutters ==
  ASSUME IInv, Transfer
  PROVE  UNCHANGED <<queueBar, outcomeBar, Running>>
<1> USE DEF IInv, TypeOK
<1>1. /\ mutex = NoThread /\ mutex' = NoThread /\ life' = life
      /\ Running /\ Running'
  BY TransferStep DEF Transfer, Running
<1>2. queueBar = buffer \o tasks
  BY <1>1 DEF queueBar, Committed
<1>3. queueBar' = (buffer \o tasks) \o <<>>
  BY <1>1, TransferStep DEF queueBar, Committed
<1>4. queueBar' = queueBar
  BY <1>2, <1>3, ConcatProperties, ConcatEmptySeq
<1> QED BY <1>1, <1>4 DEF outcomeBar

\* Users see nothing of waiting and joining.
LEMMA QuietStutters ==
  ASSUME IInv, Join \/ Wait \/ FinishTasks \/ UNCHANGED vars
  PROVE  UNCHANGED <<queueBar, outcomeBar, Running>>
BY DEF Join, Wait, FinishTasks, vars, queueBar, outcomeBar, Committed, Running

\* Every step of the queue is one of the channel or a stutter.
LEMMA StepRefines == IInv /\ [Next]_vars => [Channel!ChannelNext]_(Channel!channelVars)
<1> SUFFICES ASSUME IInv, [Next]_vars
             PROVE  Channel!ChannelNext \/ UNCHANGED <<queueBar, outcomeBar, Running>>
  BY DEF Channel!channelVars, queueBar, outcomeBar
<1>1. Tasks \subseteq Items /\ AbortTask \in Items /\ Items = Channel!Items
  BY DEF Items, Channel!Items
<1>2. ASSUME NEW i \in Items, Push(i) \/ Write(i) \/ WriteFails(i)
      PROVE  Channel!ChannelNext \/ UNCHANGED <<queueBar, outcomeBar, Running>>
  BY <1>1, <1>2, PushStutters, WriteAccepts, WriteFailsRefuses DEF Channel!ChannelNext
<1>3. CASE \E t \in Tasks : Insert(t)
  BY <1>1, <1>2, <1>3 DEF Insert
<1>4. CASE PushAbort \/ WriteAbort \/ WriteAbortFails
  BY <1>1, <1>2, <1>4 DEF PushAbort, WriteAbort, WriteAbortFails
<1>5. CASE Execute \/ ReceiveAbort \/ WaitFails
  BY <1>5, ExecuteDelivers, AbortAborts, WaitFailsDies DEF Channel!ChannelNext
<1>6. CASE Transfer
  BY <1>6, TransferStutters
<1>7. CASE Join \/ Wait \/ FinishTasks \/ UNCHANGED vars
  BY <1>7, QuietStutters
<1> QED BY <1>3, <1>4, <1>5, <1>6, <1>7 DEF Next, Destructor, Consumer

\* The queue begins as an empty channel.
LEMMA InitRefines == Init => Channel!ChannelInit
<1> SUFFICES ASSUME Init PROVE Channel!ChannelInit
  OBVIOUS
<1>1. Running
  BY DEF Init, Running
<1>2. queueBar = <<>>
  BY <1>1, EmptySeq, ConcatEmptySeq DEF Init, queueBar, Committed
<1>3. outcomeBar = [i \in Items |-> "new"]
  BY DEF Init, outcomeBar
<1> QED BY <1>1, <1>2, <1>3 DEF Channel!ChannelInit, Channel!Items, Items, queueBar, outcomeBar

\* Tasks are delivered first in, first out, each of them once, and none is
\* lost but those that the abort or the end of the thread overtakes.
THEOREM ChannelImplemented == Spec => ImplementsChannel
BY InitRefines, StepRefines, InductiveInvariant, PTL
   DEF Spec, ImplementsChannel, Channel!ChannelSpec
=============================================================================
