--------------------- MODULE OperationScheduler_proofs ---------------------
(***************************************************************************)
(* Proofs, for every number of operations, that the scheduler's counter is *)
(* exact, that every packet has one owner, that a drain is complete, that  *)
(* the abort is a barrier, and that the scheduler implements               *)
(* OperationChannel.                                                       *)
(***************************************************************************)
EXTENDS OperationScheduler, QueueLemmas, FiniteSetTheorems

Executing == {"executing", "failing", "failed"}

\* Where the consumer and the destructor are says which places are possible.
ControlInv ==
  /\ \A p, q \in Packets : place[p] = "executing" /\ place[q] = "executing" => p = q
  /\ \A p \in Packets : place[p] = "executing" => p # AbortPacket
  /\ (\E p \in Packets : place[p] = "executing") <=> consumer \in Executing
  /\ consumer \in Executing => ~draining
  /\ consumer \in {"drained", "broken"} => draining
  /\ entries # <<>> => consumer \in {"batch"} \cup Executing
  /\ \A o \in SystemOperations :
       place[o] \in {"admitted", "refused"} => consumer \in Executing
  /\ place[AbortPacket] \notin {"refused", "pending"}
  /\ place[AbortPacket] # "idle" => destructor # "idle"
  /\ destructor \in {"joining", "closed"} => place[AbortPacket] # "admitted"

IInv ==
  /\ TypeOK
  /\ ControlInv
  /\ SingleOwner
  /\ CounterExact
  /\ NoOperationLeftBehind
-----------------------------------------------------------------------------
(* Type correctness.                                                       *)

\* There are finitely many packets, and the flag is apart from their number.
LEMMA PacketsFinite ==
  /\ IsFiniteSet(Packets)
  /\ Cardinality(Packets) \in Nat
  /\ AbortingFlag \in Nat \ {0}
<1>1. IsFiniteSet(Operations)
  BY SchedulerAssumption, FS_Union DEF Operations
<1>2. IsFiniteSet(Packets)
  BY <1>1, FS_AddElement DEF Packets
<1>3. Cardinality(Packets) \in Nat
  BY <1>2, FS_CardinalityType
<1> QED BY <1>2, <1>3, SchedulerAssumption

\* The scheduler is made with every variable in its type.
LEMMA InitType == Init => TypeOK
<1> SUFFICES ASSUME Init PROVE TypeOK
  OBVIOUS
<1>1. state \in 0 .. 2 * AbortingFlag - 1 /\ spawned \in 0 .. MaxSpawns
  BY PacketsFinite, SchedulerAssumption DEF Init
<1>2. place \in [Packets -> Places]
  BY DEF Init, Places
<1>3. port \in Seq(Packets) /\ entries \in Seq(Packets)
  BY EmptySeq DEF Init
<1>4. ran \subseteq UserOperations /\ ahead \subseteq UserOperations
  BY DEF Init
<1>5. /\ consumer \in {"checking", "dequeuing", "batch", "executing", "failing",
                     "failed", "drained", "broken"}
      /\ draining \in BOOLEAN
      /\ destructor \in {"idle", "flagged", "joining", "closed"}
  BY DEF Init
<1> QED BY <1>1, <1>2, <1>3, <1>4, <1>5 DEF TypeOK

\* The words that state_ can hold.
LEMMA StateType ==
  ASSUME state \in 0 .. 2 * AbortingFlag - 1
  PROVE  /\ Incremented \in 0 .. 2 * AbortingFlag - 1
         /\ Decremented \in 0 .. 2 * AbortingFlag - 1
         /\ WithFlag(state) \in 0 .. 2 * AbortingFlag - 1
         /\ WithFlag(Decremented) \in 0 .. 2 * AbortingFlag - 1
BY SchedulerAssumption DEF Incremented, Decremented, WithFlag

\* Every step keeps every variable in its type.
LEMMA NextType == TypeOK /\ [Next]_vars => TypeOK'
<1> SUFFICES ASSUME TypeOK, [Next]_vars PROVE TypeOK'
  OBVIOUS
<1> USE DEF TypeOK, Places, Counted, Finished
<1>0. /\ UserOperations \subseteq Packets
      /\ SystemOperations \subseteq Packets
      /\ Operations \subseteq Packets
      /\ AbortPacket \in Packets
  BY DEF Packets, Operations
<1>1. ASSUME NEW o \in UserOperations, ScheduleUserOperation(o) PROVE TypeOK'
  <2>1. CASE CountUserOperation(o)
    BY <2>1, StateType, <1>0 DEF CountUserOperation
  <2>2. CASE PostUserOperation(o)
    BY <2>2, <1>0, AppendProperties DEF PostUserOperation
  <2>3. CASE PostUserOperationFails(o)
    BY <2>3, <1>0 DEF PostUserOperationFails
  <2>4. CASE UncountUserOperation(o)
    BY <2>4, StateType, <1>0 DEF UncountUserOperation
  <2> QED BY <1>1, <2>1, <2>2, <2>3, <2>4 DEF ScheduleUserOperation
<1>2. ASSUME NEW o \in SystemOperations, ScheduleSystemOperation(o) PROVE TypeOK'
  <2>1. CASE CountSystemOperation(o)
    BY <2>1, StateType, <1>0, SchedulerAssumption DEF CountSystemOperation
  <2>2. CASE PostSystemOperation(o)
    BY <2>2, <1>0 DEF PostSystemOperation
  <2>3. CASE PostSystemOperationFails(o)
    BY <2>3, <1>0 DEF PostSystemOperationFails
  <2>4. CASE UncountSystemOperation(o)
    BY <2>4, StateType, <1>0 DEF UncountSystemOperation
  <2> QED BY <1>2, <2>1, <2>2, <2>3, <2>4 DEF ScheduleSystemOperation
<1>3. ASSUME NEW o \in Operations, CompleteIo(o) PROVE TypeOK'
  BY <1>3, <1>0, AppendProperties DEF CompleteIo
<1>4. CASE FinishDraining \/ CheckDrained \/ DequeueTimesOut \/ DrainFails \/ EndBatch \/ ExecuteThrows
  BY <1>4 DEF FinishDraining, CheckDrained, DequeueTimesOut, DrainFails, EndBatch, ExecuteThrows
<1>5. CASE Dequeue
  BY <1>5, SplitQueue, SchedulerAssumption DEF Dequeue
<1>6. CASE DequeueFails
  BY <1>6, StateType DEF DequeueFails
<1>7. CASE DrainEntry
  BY <1>7, StateType, HeadTailProperties DEF DrainEntry, Freed
<1>8. CASE ReceiveAbort
  BY <1>8, <1>0, StateType, HeadTailProperties DEF ReceiveAbort
<1>9. CASE ConsumeEntry
  <2>1. Head(entries) \in Packets /\ Tail(entries) \in Seq(Packets)
    BY <1>9, HeadTailProperties DEF ConsumeEntry
  <2> QED BY <1>9, <2>1, SchedulerAssumption DEF ConsumeEntry
<1>10. ASSUME NEW o \in Operations, Reschedule(o) \/ EraseOperation(o) PROVE TypeOK'
  BY <1>10, <1>0, StateType DEF Reschedule, EraseOperation, Freed
<1>11. CASE Destructor
  <2>1. CASE SetAbortingFlag
    BY <2>1, StateType DEF SetAbortingFlag
  <2>2. CASE CountAbortPacket
    BY <2>2, <1>0, StateType DEF CountAbortPacket
  <2>3. CASE PostAbortPacket
    BY <2>3, <1>0, AppendProperties DEF PostAbortPacket
  <2>4. CASE PostAbortPacketFails
    BY <2>4, <1>0, StateType DEF PostAbortPacketFails
  <2>5. CASE Join
    BY <2>5 DEF Join
  <2> QED BY <1>11, <2>1, <2>2, <2>3, <2>4, <2>5 DEF Destructor
<1>12. CASE UNCHANGED vars
  BY <1>12 DEF vars
<1> QED BY <1>1, <1>2, <1>3, <1>4, <1>5, <1>6, <1>7, <1>8, <1>9, <1>10, <1>11, <1>12
        DEF Next, Consumer

\* TypeOK holds of every state the scheduler can reach.
THEOREM TypeCorrect == Spec => []TypeOK
BY InitType, NextType, PTL DEF Spec

-----------------------------------------------------------------------------
(* The control of the three kinds of threads.                              *)

\* The threads begin where their flags say.
LEMMA InitControl == Init => ControlInv
BY DEF Init, ControlInv, Executing, Packets, Operations

\* The packet the consumer comes to next is a queued one.
LEMMA HeadIsQueued ==
  ASSUME TypeOK, SingleOwner, entries # <<>>
  PROVE  Head(entries) \in Packets /\ place[Head(entries)] = "queued"
<1>1. /\ entries \o port \in Seq(Packets)
      /\ entries \o port # <<>>
      /\ Head(entries \o port) = Head(entries)
  BY TailOfConcat DEF TypeOK
<1>2. Head(entries \o port) \in {p \in Packets : place[p] = "queued"}
  BY <1>1, HoldsOnceTail DEF SingleOwner
<1> QED BY <1>1, <1>2

\* Every step leaves the threads where their flags say.
LEMMA NextControl == TypeOK /\ ControlInv /\ SingleOwner /\ [Next]_vars => ControlInv'
<1> SUFFICES ASSUME TypeOK, ControlInv, SingleOwner, [Next]_vars PROVE ControlInv'
  OBVIOUS
<1> USE DEF ControlInv, Executing
<1>0. /\ UserOperations \subseteq Packets
      /\ SystemOperations \subseteq Packets
      /\ Operations \subseteq Packets
      /\ AbortPacket \in Packets
      /\ AbortPacket \notin Operations
      /\ UserOperations \subseteq Operations
      /\ SystemOperations \subseteq Operations
      /\ Packets = Operations \cup {AbortPacket}
      /\ UserOperations \cap SystemOperations = {}
      /\ place \in [Packets -> Places]
      /\ consumer \in {"checking", "dequeuing", "batch", "executing", "failing",
                   "failed", "drained", "broken"}
      /\ destructor \in {"idle", "flagged", "joining", "closed"}
  BY SchedulerAssumption DEF Packets, Operations, TypeOK
<1>1. ASSUME NEW o \in UserOperations, ScheduleUserOperation(o) PROVE ControlInv'
  <2>1. CASE CountUserOperation(o)
    BY <2>1, <1>0 DEF CountUserOperation
  <2>2. CASE PostUserOperation(o)
    BY <2>2, <1>0 DEF PostUserOperation
  <2>3. CASE PostUserOperationFails(o)
    BY <2>3, <1>0 DEF PostUserOperationFails
  <2>4. CASE UncountUserOperation(o)
    BY <2>4, <1>0 DEF UncountUserOperation
  <2> QED BY <1>1, <2>1, <2>2, <2>3, <2>4 DEF ScheduleUserOperation
<1>2. ASSUME NEW o \in SystemOperations, ScheduleSystemOperation(o) PROVE ControlInv'
  <2>1. CASE CountSystemOperation(o)
    BY <2>1, <1>0 DEF CountSystemOperation
  <2>2. CASE PostSystemOperation(o)
    BY <2>2, <1>0 DEF PostSystemOperation
  <2>3. CASE PostSystemOperationFails(o)
    BY <2>3, <1>0 DEF PostSystemOperationFails
  <2>4. CASE UncountSystemOperation(o)
    BY <2>4, <1>0 DEF UncountSystemOperation
  <2> QED BY <1>2, <2>1, <2>2, <2>3, <2>4 DEF ScheduleSystemOperation
<1>3. ASSUME NEW o \in Operations, CompleteIo(o) PROVE ControlInv'
  BY <1>3, <1>0 DEF CompleteIo
<1>4. CASE FinishDraining \/ CheckDrained \/ DequeueTimesOut \/ DrainFails
  BY <1>4, <1>0 DEF FinishDraining, CheckDrained, DequeueTimesOut, DrainFails
<1>5. CASE EndBatch \/ ExecuteThrows
  BY <1>5, <1>0 DEF EndBatch, ExecuteThrows
<1>6. CASE Dequeue \/ DequeueFails
  BY <1>6, <1>0 DEF Dequeue, DequeueFails
<1>7. CASE DrainEntry
  BY <1>7, <1>0, HeadIsQueued DEF DrainEntry, Freed
<1>8. CASE ReceiveAbort
  BY <1>8, <1>0, HeadIsQueued DEF ReceiveAbort
<1>9. CASE ConsumeEntry
  BY <1>9, <1>0, HeadIsQueued DEF ConsumeEntry
<1>10. ASSUME NEW o \in Operations, Reschedule(o) PROVE ControlInv'
  BY <1>10, <1>0 DEF Reschedule, NotScheduling
<1>11. ASSUME NEW o \in Operations, EraseOperation(o) PROVE ControlInv'
  BY <1>11, <1>0 DEF EraseOperation, Freed, NotScheduling
<1>12. CASE SetAbortingFlag \/ CountAbortPacket
  BY <1>12, <1>0 DEF SetAbortingFlag, CountAbortPacket
<1>13. CASE PostAbortPacket \/ PostAbortPacketFails
  BY <1>13, <1>0 DEF PostAbortPacket, PostAbortPacketFails
<1>14. CASE Join
  BY <1>14, <1>0 DEF Join
<1>15. CASE UNCHANGED vars
  BY <1>15 DEF vars
<1> QED BY <1>1, <1>2, <1>3, <1>4, <1>5, <1>6, <1>7, <1>8, <1>9, <1>10, <1>11,
           <1>12, <1>13, <1>14, <1>15
        DEF Next, Consumer, Destructor

-----------------------------------------------------------------------------
(* Ownership of the packets.                                               *)

Queued == {p \in Packets : place[p] = "queued"}

\* Nothing is queued at first.
LEMMA InitOwner == Init => SingleOwner
<1> SUFFICES ASSUME Init PROVE SingleOwner
  OBVIOUS
<1>1. entries \o port = <<>>
  BY ConcatEmptySeq, EmptySeq DEF Init
<1>2. {p \in Packets : place[p] = "queued"} = {}
  BY DEF Init
<1> QED BY <1>1, <1>2 DEF SingleOwner, HoldsOnce

\* A packet that is moved from the port to the entries has one owner still.
LEMMA OwnerUnchanged ==
  ASSUME SingleOwner, Queued' = Queued, entries' \o port' = entries \o port
  PROVE  SingleOwner'
BY DEF SingleOwner, Queued

\* A packet that was nowhere is posted: the port owns it.
LEMMA OwnerAppend ==
  ASSUME TypeOK, SingleOwner, NEW x \in Packets, place[x] # "queued",
         place' = [place EXCEPT ![x] = "queued"],
         port' = Append(port, x), entries' = entries
  PROVE  SingleOwner'
<1>1. entries \o port \in Seq(Packets)
  BY ConcatProperties DEF TypeOK
<1>2. entries' \o port' = Append(entries \o port, x)
  BY AppendToConcat DEF TypeOK
<1>3. Queued' = Queued \cup {x} /\ x \notin Queued
  BY DEF Queued, TypeOK
<1>4. HoldsOnce(Append(entries \o port, x), Queued \cup {x})
  BY <1>1, <1>3, HoldsOnceAppend DEF SingleOwner, Queued
<1> QED BY <1>2, <1>3, <1>4 DEF SingleOwner, Queued

\* The first entry is taken: nobody owns it any more.
LEMMA OwnerTail ==
  ASSUME TypeOK, SingleOwner, entries # <<>>, NEW v, v # "queued",
         place' = [place EXCEPT ![Head(entries)] = v],
         entries' = Tail(entries), port' = port
  PROVE  SingleOwner'
<1>1. /\ entries \o port \in Seq(Packets)
      /\ entries \o port # <<>>
      /\ Head(entries \o port) = Head(entries)
      /\ Tail(entries \o port) = entries' \o port'
  BY TailOfConcat DEF TypeOK
<1>2. HoldsOnce(entries' \o port', Queued \ {Head(entries)})
  BY <1>1, HoldsOnceTail DEF SingleOwner, Queued
<1>3. Queued' = Queued \ {Head(entries)}
  BY HeadIsQueued DEF Queued, TypeOK
<1> QED BY <1>2, <1>3 DEF SingleOwner, Queued

\* Every step leaves each queued packet with one owner.
LEMMA NextOwner == TypeOK /\ ControlInv /\ SingleOwner /\ [Next]_vars => SingleOwner'
<1> SUFFICES ASSUME TypeOK, ControlInv, SingleOwner, [Next]_vars PROVE SingleOwner'
  OBVIOUS
<1>0. /\ \A o \in Operations : o \in Packets
      /\ \A o \in UserOperations \cup SystemOperations : o \in Packets
      /\ AbortPacket \in Packets
      /\ place \in [Packets -> Places]
  BY DEF Packets, Operations, TypeOK
<1>1. ASSUME NEW o \in UserOperations, ScheduleUserOperation(o) PROVE SingleOwner'
  <2>1. CASE CountUserOperation(o)
    BY <2>1, <1>0, OwnerUnchanged DEF CountUserOperation, Queued
  <2>2. CASE PostUserOperation(o)
    BY <2>2, <1>0, OwnerAppend DEF PostUserOperation
  <2>3. CASE PostUserOperationFails(o)
    BY <2>3, <1>0, OwnerUnchanged DEF PostUserOperationFails, Queued
  <2>4. CASE UncountUserOperation(o)
    BY <2>4, <1>0, OwnerUnchanged DEF UncountUserOperation, Queued
  <2> QED BY <1>1, <2>1, <2>2, <2>3, <2>4 DEF ScheduleUserOperation
<1>2. ASSUME NEW o \in SystemOperations, ScheduleSystemOperation(o) PROVE SingleOwner'
  BY <1>2, <1>0, OwnerUnchanged
     DEF ScheduleSystemOperation, CountSystemOperation, PostSystemOperation,
         PostSystemOperationFails, UncountSystemOperation, Queued
<1>3. ASSUME NEW o \in Operations, CompleteIo(o) PROVE SingleOwner'
  BY <1>3, <1>0, OwnerAppend DEF CompleteIo
<1>4. CASE \/ FinishDraining \/ CheckDrained \/ DequeueTimesOut \/ DequeueFails
           \/ DrainFails \/ EndBatch \/ ExecuteThrows \/ SetAbortingFlag \/ Join
  BY <1>4, OwnerUnchanged
     DEF FinishDraining, CheckDrained, DequeueTimesOut, DequeueFails, DrainFails,
         EndBatch, ExecuteThrows, SetAbortingFlag, Join, Queued
<1>5. CASE Dequeue
  <2>1. entries = <<>>
    BY <1>5 DEF Dequeue, ControlInv, Executing
  <2>2. entries \o port = port
    BY <2>1, ConcatEmptySeq DEF TypeOK
  <2>3. entries' \o port' = port
    BY <1>5, SplitQueue, LenProperties DEF Dequeue, TypeOK
  <2> QED BY <1>5, <2>2, <2>3, OwnerUnchanged DEF Dequeue, Queued
<1>6. CASE DrainEntry
  <2>1. Freed(Head(entries), "dropped") # "queued"
    BY DEF Freed
  <2> QED BY <1>6, <2>1, OwnerTail DEF DrainEntry
<1>7. CASE ReceiveAbort
  BY <1>7, OwnerTail DEF ReceiveAbort
<1>8. CASE ConsumeEntry
  BY <1>8, OwnerTail DEF ConsumeEntry
<1>9. ASSUME NEW o \in Operations, Reschedule(o) \/ EraseOperation(o) PROVE SingleOwner'
  BY <1>9, <1>0, OwnerUnchanged DEF Reschedule, EraseOperation, Freed, Queued
<1>10. CASE CountAbortPacket
  BY <1>10, <1>0, OwnerUnchanged DEF CountAbortPacket, Queued
<1>11. CASE PostAbortPacket
  BY <1>11, <1>0, OwnerAppend DEF PostAbortPacket
<1>12. CASE PostAbortPacketFails
  BY <1>12, <1>0, OwnerUnchanged DEF PostAbortPacketFails, Queued
<1>13. CASE UNCHANGED vars
  BY <1>13, OwnerUnchanged DEF vars, Queued
<1> QED BY <1>1, <1>2, <1>3, <1>4, <1>5, <1>6, <1>7, <1>8, <1>9, <1>10, <1>11, <1>12, <1>13
        DEF Next, Consumer, Destructor

-----------------------------------------------------------------------------
(* The counter.                                                            *)

FlagValue == IF draining \/ destructor # "idle" THEN AbortingFlag ELSE 0

\* Nothing is counted at first.
LEMMA InitCounter == Init => CounterExact
<1> SUFFICES ASSUME Init PROVE CounterExact
  OBVIOUS
<1>1. Outstanding = {}
  BY DEF Init, Outstanding, Counted
<1> QED BY <1>1, FS_EmptySet DEF Init, CounterExact

\* The count fits below the flag, so the top bit of state_ is the flag.
LEMMA CountBound ==
  ASSUME CounterExact, TypeOK
  PROVE  /\ IsFiniteSet(Outstanding)
         /\ Cardinality(Outstanding) \in Nat
         /\ Cardinality(Outstanding) < AbortingFlag
         /\ state = Cardinality(Outstanding) + FlagValue
         /\ Aborting <=> FlagValue = AbortingFlag
         /\ FlagValue \in {0, AbortingFlag}
<1>1. Outstanding \in SUBSET Packets
  BY DEF Outstanding
<1>2. IsFiniteSet(Outstanding) /\ Cardinality(Outstanding) <= Cardinality(Packets)
  BY <1>1, PacketsFinite, FS_Subset
<1>3. Cardinality(Outstanding) \in Nat
  BY <1>2, FS_CardinalityType
<1> QED BY <1>2, <1>3, PacketsFinite, SchedulerAssumption
        DEF CounterExact, FlagValue, Aborting

\* A packet that becomes counted, one that stops being counted, and one
\* that changes hands.
LEMMA CountEnters ==
  ASSUME TypeOK, CounterExact, NEW x \in Packets, place[x] \notin Counted,
         NEW v \in Counted, place' = [place EXCEPT ![x] = v]
  PROVE  /\ Cardinality(Outstanding') = Cardinality(Outstanding) + 1
         /\ Incremented = state + 1
<1>1. Outstanding' = Outstanding \cup {x} /\ x \notin Outstanding
  BY DEF Outstanding, TypeOK
<1>2. Cardinality(Outstanding') = Cardinality(Outstanding) + 1
  BY <1>1, CountBound, FS_AddElement
<1>3. Outstanding' \in SUBSET Packets
  BY DEF Outstanding
<1>4. Cardinality(Outstanding') <= Cardinality(Packets)
  BY <1>3, PacketsFinite, FS_Subset
<1>5. state # 2 * AbortingFlag - 1
  BY <1>2, <1>4, CountBound, PacketsFinite, SchedulerAssumption
<1> QED BY <1>2, <1>5 DEF Incremented

\* A packet that leaves is one less, in the set and in state_, which cannot
\* underflow.
LEMMA CountLeaves ==
  ASSUME TypeOK, CounterExact, NEW x \in Packets, place[x] \in Counted,
         NEW v, v \notin Counted, place' = [place EXCEPT ![x] = v]
  PROVE  /\ Cardinality(Outstanding') = Cardinality(Outstanding) - 1
         /\ Decremented = state - 1
         /\ state # 0
<1>1. Outstanding' = Outstanding \ {x} /\ x \in Outstanding
  BY DEF Outstanding, TypeOK
<1>2. Cardinality(Outstanding') = Cardinality(Outstanding) - 1
  BY <1>1, CountBound, FS_RemoveElement
<1>3. Cardinality(Outstanding) # 0
  BY <1>1, CountBound, FS_EmptySet
<1>4. state # 0
  BY <1>3, CountBound, PacketsFinite
<1> QED BY <1>2, <1>4 DEF Decremented

\* A packet that goes on is counted still.
LEMMA CountStays ==
  ASSUME TypeOK, NEW x \in Packets, place[x] \in Counted,
         NEW v \in Counted, place' = [place EXCEPT ![x] = v]
  PROVE  Outstanding' = Outstanding
BY DEF Outstanding, TypeOK

\* Steps that count or uncount one packet, and leave the flag alone, keep the
\* counter exact.
LEMMA EnterExact ==
  ASSUME TypeOK, CounterExact, NEW x \in Packets, place[x] \notin Counted,
         NEW v \in Counted, place' = [place EXCEPT ![x] = v],
         state' = Incremented, FlagValue' = FlagValue
  PROVE  state' = Cardinality(Outstanding') + FlagValue'
<1>1. /\ state = Cardinality(Outstanding) + FlagValue
      /\ Cardinality(Outstanding) \in Nat
      /\ FlagValue \in Nat
  BY CountBound, PacketsFinite
<1>2. Cardinality(Outstanding') = Cardinality(Outstanding) + 1 /\ state' = state + 1
  BY CountEnters
<1> QED BY <1>1, <1>2

\* The decrement of state_ for a packet that leaves keeps the counter exact.
LEMMA LeaveExact ==
  ASSUME TypeOK, CounterExact, NEW x \in Packets, place[x] \in Counted,
         NEW v, v \notin Counted, place' = [place EXCEPT ![x] = v],
         state' = Decremented, FlagValue' = FlagValue
  PROVE  state' = Cardinality(Outstanding') + FlagValue'
<1>1. /\ state = Cardinality(Outstanding) + FlagValue
      /\ Cardinality(Outstanding) \in Nat
      /\ FlagValue \in Nat
  BY CountBound, PacketsFinite
<1>2. Cardinality(Outstanding') = Cardinality(Outstanding) - 1 /\ state' = state - 1
  BY CountLeaves
<1> QED BY <1>1, <1>2

\* Every step keeps the counter exact.
LEMMA NextCounter ==
  TypeOK /\ ControlInv /\ SingleOwner /\ CounterExact /\ [Next]_vars => CounterExact'
<1> SUFFICES ASSUME TypeOK, ControlInv, SingleOwner, CounterExact, [Next]_vars
             PROVE  CounterExact'
  OBVIOUS
<1>0. /\ \A o \in Operations : o \in Packets /\ o # AbortPacket
      /\ \A o \in UserOperations \cup SystemOperations : o \in Operations
      /\ AbortPacket \in Packets
      /\ place \in [Packets -> Places]
  BY SchedulerAssumption DEF Packets, Operations, TypeOK
\* It is enough that the count and the flag move as state_ does.
<1>a. SUFFICES state' = Cardinality(Outstanding') + FlagValue'
  BY DEF CounterExact, FlagValue
<1>b. /\ state = Cardinality(Outstanding) + FlagValue
      /\ Cardinality(Outstanding) \in Nat
      /\ Cardinality(Outstanding) < AbortingFlag
      /\ FlagValue \in {0, AbortingFlag}
      /\ AbortingFlag \in Nat \ {0}
  BY CountBound, PacketsFinite
<1>1. ASSUME NEW o \in UserOperations, ScheduleUserOperation(o)
      PROVE  state' = Cardinality(Outstanding') + FlagValue'
  <2>0. o \in Packets
    BY <1>0
  <2>1. CASE CountUserOperation(o)
    <3>1. FlagValue' = FlagValue /\ place[o] \notin Counted
      BY <2>1 DEF CountUserOperation, Counted, FlagValue
    <3>2. (IF Aborting THEN "refused" ELSE "admitted") \in Counted
      BY DEF Counted
    <3> QED BY <2>0, <2>1, <3>1, <3>2, EnterExact DEF CountUserOperation
  <2>2. CASE PostUserOperation(o)
    BY <2>0, <2>2, <1>b, CountStays DEF PostUserOperation, Counted, FlagValue
  <2>3. CASE PostUserOperationFails(o)
    BY <2>0, <2>3, <1>b, CountStays DEF PostUserOperationFails, Counted, FlagValue
  <2>4. CASE UncountUserOperation(o)
    <3>1. FlagValue' = FlagValue /\ place[o] \in Counted /\ "rejected" \notin Counted
      BY <2>4 DEF UncountUserOperation, Counted, FlagValue
    <3> QED BY <2>0, <2>4, <3>1, LeaveExact DEF UncountUserOperation
  <2> QED BY <1>1, <2>1, <2>2, <2>3, <2>4 DEF ScheduleUserOperation
<1>2. ASSUME NEW o \in SystemOperations, ScheduleSystemOperation(o)
      PROVE  state' = Cardinality(Outstanding') + FlagValue'
  <2>0. o \in Packets
    BY <1>0
  <2>1. CASE CountSystemOperation(o)
    <3>1. FlagValue' = FlagValue /\ place[o] \notin Counted /\ "admitted" \in Counted
      BY <2>1 DEF CountSystemOperation, Counted, FlagValue
    <3> QED BY <2>0, <2>1, <3>1, EnterExact DEF CountSystemOperation
  <2>2. CASE PostSystemOperation(o)
    BY <2>0, <2>2, <1>b, CountStays DEF PostSystemOperation, Counted, FlagValue
  <2>3. CASE PostSystemOperationFails(o)
    BY <2>0, <2>3, <1>b, CountStays DEF PostSystemOperationFails, Counted, FlagValue
  <2>4. CASE UncountSystemOperation(o)
    <3>1. FlagValue' = FlagValue /\ place[o] \in Counted /\ "idle" \notin Counted
      BY <2>4 DEF UncountSystemOperation, Counted, FlagValue
    <3> QED BY <2>0, <2>4, <3>1, LeaveExact DEF UncountSystemOperation
  <2> QED BY <1>2, <2>1, <2>2, <2>3, <2>4 DEF ScheduleSystemOperation
<1>3. ASSUME NEW o \in Operations, CompleteIo(o)
      PROVE  state' = Cardinality(Outstanding') + FlagValue'
  BY <1>0, <1>3, <1>b, CountStays DEF CompleteIo, Counted, FlagValue
<1>4. CASE \/ FinishDraining \/ CheckDrained \/ DequeueTimesOut
           \/ DrainFails \/ EndBatch \/ ExecuteThrows \/ Dequeue \/ Join
  <2>1. Outstanding' = Outstanding /\ FlagValue' = FlagValue /\ state' = state
    BY <1>4
     DEF FinishDraining, CheckDrained, DequeueTimesOut, DrainFails, EndBatch,
         ExecuteThrows, Dequeue, Join, Outstanding, FlagValue
  <2> QED BY <2>1, <1>b
<1>5. CASE DequeueFails \/ SetAbortingFlag
  <2>1. Outstanding' = Outstanding /\ FlagValue' = AbortingFlag /\ state' = WithFlag(state)
    BY <1>5 DEF DequeueFails, SetAbortingFlag, Outstanding, FlagValue
  <2>2. WithFlag(state) = Cardinality(Outstanding) + AbortingFlag
    BY <1>b DEF WithFlag
  <2> QED BY <2>1, <2>2
<1>6. CASE DrainEntry
  <2>1. Freed(Head(entries), "dropped") \notin Counted
    BY DEF Freed, Counted
  <2>2. Head(entries) \in Packets /\ place[Head(entries)] \in Counted
    BY <1>6, HeadIsQueued DEF DrainEntry, Counted
  <2>3. FlagValue' = FlagValue
    BY <1>6 DEF DrainEntry, FlagValue
  <2> QED BY <1>6, <2>1, <2>2, <2>3, LeaveExact DEF DrainEntry
<1>7. CASE ReceiveAbort
  <2>1. place[AbortPacket] \in Counted
    BY <1>7, HeadIsQueued DEF ReceiveAbort, Counted
  <2>2. destructor # "idle" /\ FlagValue = AbortingFlag
    BY <2>1 DEF ControlInv, Counted, FlagValue
  <2>3. /\ Cardinality(Outstanding') = Cardinality(Outstanding) - 1
        /\ Decremented = state - 1
        /\ Cardinality(Outstanding') \in Nat
    <3>1. /\ Cardinality(Outstanding') = Cardinality(Outstanding) - 1
          /\ Decremented = state - 1
      BY <1>0, <1>7, <2>1, CountLeaves DEF ReceiveAbort, Counted
    <3>2. Cardinality(Outstanding) # 0
      BY <1>0, <2>1, CountBound, FS_EmptySet DEF Outstanding
    <3> QED BY <3>1, <3>2, <1>b
  <2>4. state' = state - 1
    BY <1>7, <2>2, <2>3, <1>b DEF ReceiveAbort, WithFlag
  <2> QED BY <1>7, <2>2, <2>3, <2>4, <1>b DEF ReceiveAbort, FlagValue
<1>8. CASE ConsumeEntry
  <2>1. Head(entries) \in Packets /\ place[Head(entries)] \in Counted
    BY <1>8, HeadIsQueued DEF ConsumeEntry, Counted
  <2> QED BY <1>8, <2>1, <1>b, CountStays DEF ConsumeEntry, Counted, FlagValue
<1>9. ASSUME NEW o \in Operations, Reschedule(o)
      PROVE  state' = Cardinality(Outstanding') + FlagValue'
  BY <1>0, <1>9, <1>b, CountStays DEF Reschedule, Counted, FlagValue
<1>10. ASSUME NEW o \in Operations, EraseOperation(o)
       PROVE  state' = Cardinality(Outstanding') + FlagValue'
  <2>1. Freed(o, "done") \notin Counted
    BY DEF Freed, Counted
  <2>2. FlagValue' = FlagValue /\ place[o] \in Counted /\ o \in Packets
    BY <1>0, <1>10 DEF EraseOperation, Counted, FlagValue
  <2> QED BY <1>10, <2>1, <2>2, LeaveExact DEF EraseOperation
<1>11. CASE CountAbortPacket
  <2>1. FlagValue' = FlagValue /\ place[AbortPacket] \notin Counted /\ "admitted" \in Counted
    BY <1>11 DEF CountAbortPacket, Counted, FlagValue
  <2> QED BY <1>0, <1>11, <2>1, EnterExact DEF CountAbortPacket
<1>12. CASE PostAbortPacket
  BY <1>0, <1>12, <1>b, CountStays DEF PostAbortPacket, Counted, FlagValue, ControlInv
<1>13. CASE PostAbortPacketFails
  <2>1. FlagValue' = FlagValue /\ place[AbortPacket] \in Counted /\ "rejected" \notin Counted
    BY <1>13 DEF PostAbortPacketFails, Counted, FlagValue, ControlInv
  <2> QED BY <1>0, <1>13, <2>1, LeaveExact DEF PostAbortPacketFails
<1>14. CASE UNCHANGED vars
  BY <1>14, <1>b DEF vars, Outstanding, FlagValue
<1> QED BY <1>1, <1>2, <1>3, <1>4, <1>5, <1>6, <1>7, <1>8, <1>9, <1>10, <1>11, <1>12, <1>13, <1>14
        DEF Next, Consumer, Destructor

-----------------------------------------------------------------------------
(* A drain is complete.                                                    *)

\* Every step keeps the drained port closed to operations.
LEMMA NextDrain ==
  TypeOK /\ ControlInv /\ CounterExact /\ NoOperationLeftBehind /\ [Next]_vars
    => NoOperationLeftBehind'
<1> SUFFICES ASSUME TypeOK, ControlInv, CounterExact, NoOperationLeftBehind, [Next]_vars,
                    consumer' = "drained", NEW p \in Operations
             PROVE  place'[p] \notin Counted \ {"refused"}
  BY DEF NoOperationLeftBehind
<1>0. /\ \A o \in Operations : o \in Packets /\ o # AbortPacket
      /\ \A o \in UserOperations \cup SystemOperations : o \in Operations
      /\ place \in [Packets -> Places]
  BY SchedulerAssumption DEF Packets, Operations, TypeOK
\* The counter is zero when the consumer returns, so nothing is counted.
<1>1. CASE FinishDraining
  <2>1. Cardinality(Outstanding) = 0
    BY <1>1, CountBound, PacketsFinite DEF FinishDraining, FlagValue
  <2>2. Outstanding = {}
    BY <2>1, CountBound, FS_EmptySet
  <2> QED BY <1>0, <1>1, <2>2 DEF FinishDraining, Outstanding
\* Afterwards the flag stands, so a user operation is counted only to be refused.
<1>2. CASE consumer = "drained"
  <2>1. draining /\ Aborting
    BY <1>2, CountBound, PacketsFinite DEF ControlInv, FlagValue
  <2>2. place[p] \notin Counted \ {"refused"}
    BY <1>2 DEF NoOperationLeftBehind
  <2>3. \A o \in Operations : place[o] \notin {"admitted", "pending", "executing"}
    BY <1>2 DEF NoOperationLeftBehind, Counted
  <2>4. ASSUME NEW o \in UserOperations, ScheduleUserOperation(o)
        PROVE  place'[p] \notin Counted \ {"refused"}
    BY <1>0, <2>1, <2>2, <2>3, <2>4
       DEF ScheduleUserOperation, CountUserOperation, PostUserOperation,
           PostUserOperationFails, UncountUserOperation, Counted
  <2>5. CASE Destructor
    BY <1>0, <2>2, <2>5
       DEF Destructor, SetAbortingFlag, CountAbortPacket, PostAbortPacket,
           PostAbortPacketFails, Join, Counted
  <2>6. ~(\E o \in Operations : CompleteIo(o))
    BY <2>3 DEF CompleteIo
  <2>7. ~(\E o \in SystemOperations : ScheduleSystemOperation(o))
    BY <1>0, <1>2, <2>3
       DEF ScheduleSystemOperation, CountSystemOperation, PostSystemOperation,
           PostSystemOperationFails, UncountSystemOperation, ControlInv, Executing
  <2>8. ~(\E o \in Operations : Reschedule(o) \/ EraseOperation(o))
    BY <2>3 DEF Reschedule, EraseOperation
  <2>9. ~(\/ FinishDraining \/ CheckDrained \/ Dequeue \/ DequeueTimesOut
          \/ DequeueFails \/ DrainFails \/ EndBatch \/ DrainEntry \/ ReceiveAbort
          \/ ConsumeEntry \/ ExecuteThrows)
    BY <1>2 DEF FinishDraining, CheckDrained, Dequeue, DequeueTimesOut, DequeueFails,
                DrainFails, EndBatch, DrainEntry, ReceiveAbort, ConsumeEntry, ExecuteThrows
  <2>10. CASE UNCHANGED vars
    BY <2>2, <2>10 DEF vars
  <2> QED BY <2>4, <2>5, <2>6, <2>7, <2>8, <2>9, <2>10 DEF Next, Consumer
\* No other step makes the consumer return.
<1>3. ASSUME consumer # "drained", ~FinishDraining PROVE FALSE
  <2>1. ASSUME NEW o \in UserOperations, ScheduleUserOperation(o) PROVE FALSE
    BY <1>3, <2>1
       DEF ScheduleUserOperation, CountUserOperation, PostUserOperation,
           PostUserOperationFails, UncountUserOperation
  <2>2. ASSUME NEW o \in SystemOperations, ScheduleSystemOperation(o) PROVE FALSE
    BY <1>3, <2>2
       DEF ScheduleSystemOperation, CountSystemOperation, PostSystemOperation,
           PostSystemOperationFails, UncountSystemOperation
  <2>3. ASSUME NEW o \in Operations, CompleteIo(o) \/ Reschedule(o) \/ EraseOperation(o)
        PROVE  FALSE
    BY <1>3, <2>3 DEF CompleteIo, Reschedule, EraseOperation
  <2>4. CASE \/ CheckDrained \/ Dequeue \/ DequeueTimesOut
             \/ DequeueFails \/ DrainFails \/ EndBatch \/ DrainEntry \/ ReceiveAbort
             \/ ConsumeEntry \/ ExecuteThrows
    BY <1>3, <2>4
       DEF CheckDrained, Dequeue, DequeueTimesOut, DequeueFails, DrainFails, EndBatch,
           DrainEntry, ReceiveAbort, ConsumeEntry, ExecuteThrows
  <2>5. CASE Destructor
    BY <1>3, <2>5
       DEF Destructor, SetAbortingFlag, CountAbortPacket, PostAbortPacket,
           PostAbortPacketFails, Join
  <2>6. CASE UNCHANGED vars
    BY <1>3, <2>6 DEF vars
  <2> QED BY <1>3, <2>1, <2>2, <2>3, <2>4, <2>5, <2>6 DEF Next, Consumer
<1> QED BY <1>1, <1>2, <1>3

-----------------------------------------------------------------------------
(* The inductive invariant and what follows from it.                       *)

\* The inductive invariant of the scheduler: types, where the threads are, one
\* owner for each packet, an exact counter and a complete drain, each of which
\* the others need.
THEOREM InductiveInvariant == Spec => []IInv
<1>1. Init => IInv
  <2>1. Init => NoOperationLeftBehind
    BY DEF Init, NoOperationLeftBehind
  <2> QED BY <2>1, InitType, InitControl, InitOwner, InitCounter DEF IInv
<1>2. IInv /\ [Next]_vars => IInv'
  BY NextType, NextControl, NextOwner, NextCounter, NextDrain DEF IInv
<1> QED BY <1>1, <1>2, PTL DEF Spec

\* Every packet is held by one owner: nothing is deleted twice, deleted
\* while the kernel has it, or lost between the port and the consumer.
THEOREM OwnershipCorrect == Spec => []SingleOwner
BY InductiveInvariant, PTL DEF IInv

\* state_ counts the outstanding packets exactly: it never underflows, and
\* the aborting flag is never set or cleared by counting.
THEOREM CounterCorrect == Spec => []CounterExact
BY InductiveInvariant, PTL DEF IInv

\* The consumer returns from a drain only when no operation is queued,
\* pending, or admitted by a user thread that has yet to post it.
THEOREM DrainComplete == Spec => []NoOperationLeftBehind
BY InductiveInvariant, PTL DEF IInv

-----------------------------------------------------------------------------
(* The abort is a barrier.  What was queued ahead of the abort packet and  *)
(* was not run yet is in front of it, in the port or among the entries.    *)

Ordered ==
  ~draining =>
    \A o \in ahead \ ran : \A j \in DOMAIN (entries \o port) :
      (entries \o port)[j] = AbortPacket => \E i \in 1 .. j - 1 : (entries \o port)[i] = o

BarrierInv == Ordered /\ AbortIsBarrier

\* Neither the queue nor the history gets worse.
LEMMA OrderedUnchanged ==
  ASSUME Ordered, entries' \o port' = entries \o port, ahead' = ahead, ran \subseteq ran',
         draining' \/ draining' = draining
  PROVE  Ordered'
BY DEF Ordered

\* What is queued is queued behind the abort packet.
LEMMA OrderedAppend ==
  ASSUME TypeOK, Ordered, NEW x \in Packets, x # AbortPacket, entries' = entries,
         port' = Append(port, x), ahead' = ahead, ran' = ran, draining' = draining
  PROVE  Ordered'
<1> DEFINE q == entries \o port
<1>1. q \in Seq(Packets) /\ entries' \o port' = Append(q, x)
  BY ConcatProperties, AppendToConcat DEF TypeOK
<1> HIDE DEF q
<1>2. SUFFICES ASSUME ~draining, NEW o \in ahead \ ran, NEW j \in DOMAIN Append(q, x),
                      Append(q, x)[j] = AbortPacket
               PROVE  \E i \in 1 .. j - 1 : Append(q, x)[i] = o
  BY <1>1 DEF Ordered
<1>3. /\ DOMAIN q = 1 .. Len(q) /\ Len(q) \in Nat
      /\ DOMAIN Append(q, x) = 1 .. Len(q) + 1
      /\ \A i \in 1 .. Len(q) : Append(q, x)[i] = q[i]
      /\ Append(q, x)[Len(q) + 1] = x
  BY <1>1, AppendProperties, LenProperties
<1>4. j \in 1 .. Len(q) /\ q[j] = AbortPacket
  BY <1>2, <1>3
<1>5. PICK i \in 1 .. j - 1 : q[i] = o
  BY <1>2, <1>3, <1>4 DEF Ordered, q
<1> QED BY <1>3, <1>4, <1>5

\* The head of the queue goes, and was run if it was ahead of the packet.
LEMMA OrderedTail ==
  ASSUME TypeOK, Ordered, entries # <<>>, entries' = Tail(entries), port' = port,
         ahead' = ahead, draining' = draining,
         ran' = ran \cup ({Head(entries)} \cap UserOperations)
  PROVE  Ordered'
<1> DEFINE q == entries \o port
           r == entries' \o port'
<1>1. q \in Seq(Packets) /\ q # <<>> /\ Head(q) = Head(entries) /\ r = Tail(q)
  BY TailOfConcat DEF TypeOK
<1>2. /\ DOMAIN q = 1 .. Len(q) /\ Len(q) \in Nat \ {0}
      /\ DOMAIN r = 1 .. Len(q) - 1
      /\ \A i \in 1 .. Len(q) - 1 : r[i] = q[i + 1]
      /\ q[1] = Head(entries)
  BY <1>1, HeadTailProperties, LenProperties, EmptySeq
<1> SUFFICES ASSUME ~draining, NEW o \in ahead' \ ran', NEW j \in DOMAIN r, r[j] = AbortPacket
             PROVE  \E i \in 1 .. j - 1 : r[i] = o
  BY DEF Ordered
<1> HIDE DEF q, r
<1>3. j \in 1 .. Len(q) - 1 /\ j + 1 \in DOMAIN q /\ q[j + 1] = AbortPacket
  BY <1>2
<1>4. \E i \in 1 .. j : q[i] = o
  BY <1>3 DEF Ordered, q
<1> PICK i \in 1 .. j : q[i] = o
  BY <1>4
<1>5. i # 1
  BY <1>2 DEF TypeOK
<1>6. i - 1 \in 1 .. j - 1 /\ r[i - 1] = o
  BY <1>2, <1>3, <1>5
<1> QED BY <1>6

\* The abort packet is posted behind what is queued, and is in no place else.
LEMMA OrderedPosted ==
  ASSUME TypeOK, SingleOwner, PostAbortPacket
  PROVE  Ordered'
<1> DEFINE q == entries \o port
<1>1. q \in Seq(Packets) /\ entries' \o port' = Append(q, AbortPacket)
  BY ConcatProperties, AppendToConcat DEF TypeOK, PostAbortPacket, Packets
<1>2. {q[i] : i \in DOMAIN q} = {p \in Packets : place[p] = "queued"}
  BY DEF SingleOwner, HoldsOnce
<1> HIDE DEF q
<1>3. SUFFICES ASSUME NEW o \in ahead', NEW j \in DOMAIN Append(q, AbortPacket),
                      Append(q, AbortPacket)[j] = AbortPacket
               PROVE  \E i \in 1 .. j - 1 : Append(q, AbortPacket)[i] = o
  BY <1>1 DEF Ordered
<1>4. /\ DOMAIN q = 1 .. Len(q) /\ Len(q) \in Nat
      /\ DOMAIN Append(q, AbortPacket) = 1 .. Len(q) + 1
      /\ \A i \in 1 .. Len(q) : Append(q, AbortPacket)[i] = q[i]
  BY <1>1, AppendProperties, LenProperties DEF Packets
<1>5. AbortPacket \notin {q[i] : i \in DOMAIN q} /\ o \in {q[i] : i \in DOMAIN q}
  BY <1>2, <1>3 DEF PostAbortPacket, Packets, Operations
<1>6. j = Len(q) + 1
  BY <1>3, <1>4, <1>5
<1>7. PICK i \in DOMAIN q : q[i] = o
  BY <1>5
<1> QED BY <1>4, <1>6, <1>7

\* Nothing is in front of the abort packet when it is received.
LEMMA NothingAhead ==
  ASSUME TypeOK, Ordered, ReceiveAbort
  PROVE  ahead \subseteq ran
<1> DEFINE q == entries \o port
<1>1. q \in Seq(Packets) /\ q # <<>> /\ Head(q) = AbortPacket
  BY TailOfConcat DEF TypeOK, ReceiveAbort
<1>2. 1 \in DOMAIN q /\ q[1] = AbortPacket
  BY <1>1, HeadTailProperties, LenProperties, EmptySeq
<1>3. 1 .. 1 - 1 = {}
  OBVIOUS
<1> HIDE DEF q
<1> QED BY <1>2, <1>3 DEF Ordered, ReceiveAbort, q

\* Every step keeps the abort packet behind what was queued before it.
LEMMA NextBarrier ==
  TypeOK /\ ControlInv /\ SingleOwner /\ BarrierInv /\ [Next]_vars => BarrierInv'
<1> SUFFICES ASSUME TypeOK, ControlInv, SingleOwner, BarrierInv, [Next]_vars
             PROVE  BarrierInv'
  OBVIOUS
<1> USE DEF BarrierInv, AbortIsBarrier
<1>0. /\ \A o \in Operations : o \in Packets /\ o # AbortPacket
      /\ \A o \in UserOperations \cup SystemOperations : o \in Operations
      /\ AbortPacket \in Packets
      /\ place \in [Packets -> Places]
  BY SchedulerAssumption DEF Packets, Operations, TypeOK
<1>1. ASSUME NEW o \in UserOperations, ScheduleUserOperation(o) PROVE BarrierInv'
  <2>1. CASE PostUserOperation(o)
    BY <1>0, <2>1, OrderedAppend DEF PostUserOperation
  <2>2. CASE CountUserOperation(o) \/ PostUserOperationFails(o) \/ UncountUserOperation(o)
    BY <1>0, <2>2, OrderedUnchanged
       DEF CountUserOperation, PostUserOperationFails, UncountUserOperation
  <2> QED BY <1>1, <2>1, <2>2 DEF ScheduleUserOperation
<1>2. ASSUME NEW o \in SystemOperations, ScheduleSystemOperation(o) PROVE BarrierInv'
  BY <1>0, <1>2, OrderedUnchanged
     DEF ScheduleSystemOperation, CountSystemOperation, PostSystemOperation,
         PostSystemOperationFails, UncountSystemOperation
<1>3. ASSUME NEW o \in Operations, CompleteIo(o) PROVE BarrierInv'
  BY <1>0, <1>3, OrderedAppend DEF CompleteIo
<1>4. ASSUME NEW o \in Operations, Reschedule(o) \/ EraseOperation(o) PROVE BarrierInv'
  BY <1>0, <1>4, OrderedUnchanged DEF Reschedule, EraseOperation
<1>5. CASE \/ FinishDraining \/ CheckDrained \/ DequeueTimesOut \/ DequeueFails
           \/ DrainFails \/ EndBatch \/ ExecuteThrows \/ SetAbortingFlag \/ Join
           \/ UNCHANGED vars
  BY <1>5, OrderedUnchanged
     DEF FinishDraining, CheckDrained, DequeueTimesOut, DequeueFails, DrainFails,
         EndBatch, ExecuteThrows, SetAbortingFlag, Join, vars
<1>6. CASE Dequeue
  <2>1. entries \o port = port
    BY <1>6, ConcatEmptySeq DEF Dequeue, ControlInv, Executing, TypeOK
  <2>2. entries' \o port' = port
    BY <1>6, SplitQueue, LenProperties DEF Dequeue, TypeOK
  <2> QED BY <1>6, <2>1, <2>2, OrderedUnchanged DEF Dequeue
<1>7. CASE DrainEntry
  <2>1. Ordered'
    BY <1>7 DEF DrainEntry, Ordered
  <2>2. place'[AbortPacket] = "done" => place[AbortPacket] = "done"
    BY <1>0, <1>7, HeadIsQueued DEF DrainEntry, Freed, Operations
  <2> QED BY <1>7, <2>1, <2>2 DEF DrainEntry
<1>8. CASE ReceiveAbort
  BY <1>8, NothingAhead DEF ReceiveAbort, Ordered
<1>9. CASE ConsumeEntry
  BY <1>0, <1>9, OrderedTail DEF ConsumeEntry
<1>10. CASE CountAbortPacket \/ PostAbortPacketFails
  BY <1>0, <1>10, OrderedUnchanged DEF CountAbortPacket, PostAbortPacketFails
<1>11. CASE PostAbortPacket
  BY <1>0, <1>11, OrderedPosted DEF PostAbortPacket
<1> QED BY <1>1, <1>2, <1>3, <1>4, <1>5, <1>6, <1>7, <1>8, <1>9, <1>10, <1>11
        DEF Next, Consumer, Destructor

\* Whatever a user had queued when the abort packet was posted has been run
\* when the packet is received.
THEOREM BarrierHolds == Spec => []AbortIsBarrier
<1>1. Init => BarrierInv
  BY DEF Init, BarrierInv, Ordered, AbortIsBarrier, Packets
<1>2. IInv /\ BarrierInv /\ [Next]_vars => BarrierInv'
  BY NextBarrier DEF IInv
<1>3. BarrierInv => AbortIsBarrier
  BY DEF BarrierInv
<1> QED BY <1>1, <1>2, <1>3, InductiveInvariant, PTL DEF Spec

-----------------------------------------------------------------------------
(* The scheduler implements OperationChannel.                              *)

\* The aborting flag stands exactly while somebody aborts or drains.
LEMMA FlagStands == ASSUME IInv PROVE Aborting <=> draining \/ destructor # "idle"
BY CountBound, PacketsFinite DEF IInv, FlagValue

StatusOf(v) ==
  CASE v = "idle" -> "new"
    [] v \in {"admitted", "queued", "pending", "executing"} -> "admitted"
    [] v \in {"refused", "rejected"} -> "refused"
    [] OTHER -> v

\* One packet changes its place: a user's, or another one.
LEMMA StatusStep ==
  ASSUME TypeOK, NEW p \in Packets, NEW v, place' = [place EXCEPT ![p] = v]
  PROVE  /\ p \in UserOperations => statusBar' = [statusBar EXCEPT ![p] = StatusOf(v)]
         /\ p \notin UserOperations => statusBar' = statusBar
<1>1. \A o \in UserOperations : o \in Packets
  BY DEF Packets, Operations
<1> QED BY <1>1 DEF TypeOK, statusBar, StatusOf

\* What an operation is to users depends on its place alone.
LEMMA StatusValue == \A o \in UserOperations : statusBar[o] = StatusOf(place[o])
BY DEF statusBar, StatusOf

\* Where no operation moves, users see none move.
LEMMA StatusSame == ASSUME place' = place PROVE statusBar' = statusBar
BY DEF statusBar

\* A packet that goes from one place to another of the same status.
LEMMA StatusStutters ==
  ASSUME TypeOK, NEW p \in Packets, NEW v, place' = [place EXCEPT ![p] = v],
         StatusOf(v) = StatusOf(place[p])
  PROVE  statusBar' = statusBar
<1>1. CASE p \in UserOperations
  <2>1. statusBar' = [statusBar EXCEPT ![p] = statusBar[p]]
    BY <1>1, StatusStep, StatusValue
  <2> QED BY <2>1 DEF statusBar
<1> QED BY <1>1, StatusStep

\* The phase of the channel is one of the flag, the drain and the end.
LEMMA PhaseSame ==
  ASSUME TypeOK, ControlInv, draining' = draining, destructor' = destructor,
         consumer' = consumer \/ {consumer, consumer'} \cap {"drained", "broken"} = {}
  PROVE  phaseBar' = phaseBar
BY DEF phaseBar

\* The phase of the channel, as guards of the scheduler tell it.
LEMMA PhaseValue ==
  ASSUME IInv
  PROVE  /\ phaseBar = "open" <=> ~Aborting
         /\ phaseBar = "drained" <=> consumer = "drained"
         /\ draining /\ consumer \notin {"drained", "broken"} => phaseBar = "draining"
         /\ ~draining /\ destructor # "idle" => phaseBar = "aborting"
         /\ ~draining /\ destructor = "idle" => phaseBar = "open"
<1>1. /\ consumer \in {"drained", "broken"} => draining
      /\ draining \in BOOLEAN
  BY DEF IInv, ControlInv, TypeOK
<1> QED BY <1>1, FlagStands DEF phaseBar

\* A user schedules an operation: the channel admits or rejects it.
LEMMA UserRefines ==
  ASSUME IInv, NEW o \in UserOperations, ScheduleUserOperation(o)
  PROVE  Channel!ChannelNext \/ UNCHANGED <<statusBar, phaseBar>>
<1>0. o \in Packets /\ o \in Operations /\ TypeOK /\ ControlInv
  BY DEF Packets, Operations, IInv
<1>1. CASE CountUserOperation(o)
  <2>1. statusBar[o] = "new" /\ phaseBar' = phaseBar
    BY <1>0, <1>1, StatusValue, PhaseSame DEF CountUserOperation, StatusOf
  <2>2. CASE Aborting
    <3>1. statusBar' = [statusBar EXCEPT ![o] = "refused"] /\ phaseBar # "open"
      BY <1>0, <1>1, <2>2, StatusStep, PhaseValue DEF CountUserOperation, StatusOf
    <3> QED BY <2>1, <3>1 DEF Channel!ChannelNext, Channel!RefuseNew
  <2>3. CASE ~Aborting
    <3>1. statusBar' = [statusBar EXCEPT ![o] = "admitted"] /\ phaseBar = "open"
      BY <1>0, <1>1, <2>3, StatusStep, PhaseValue DEF CountUserOperation, StatusOf
    <3> QED BY <2>1, <3>1 DEF Channel!ChannelNext, Channel!Admit
  <2> QED BY <2>2, <2>3
<1>2. CASE PostUserOperationFails(o)
  <2>1. statusBar[o] = "admitted" /\ phaseBar' = phaseBar
    BY <1>0, <1>2, StatusValue, PhaseSame DEF PostUserOperationFails, StatusOf
  <2>2. statusBar' = [statusBar EXCEPT ![o] = "refused"]
    BY <1>0, <1>2, StatusStep DEF PostUserOperationFails, StatusOf
  <2>3. phaseBar # "drained"
    BY <1>0, <1>2, PhaseValue DEF PostUserOperationFails, IInv, NoOperationLeftBehind, Counted
  <2> QED BY <2>1, <2>2, <2>3 DEF Channel!ChannelNext, Channel!RefuseAdmitted
<1>3. CASE PostUserOperation(o)
  BY <1>0, <1>3, StatusStutters, PhaseSame DEF PostUserOperation, StatusOf
<1>4. CASE UncountUserOperation(o)
  BY <1>0, <1>4, StatusStutters, PhaseSame DEF UncountUserOperation, StatusOf
<1> QED BY <1>1, <1>2, <1>3, <1>4 DEF ScheduleUserOperation

\* System operations are none of the channel's.
LEMMA SystemStutters ==
  ASSUME IInv, NEW o \in SystemOperations, ScheduleSystemOperation(o)
  PROVE  UNCHANGED <<statusBar, phaseBar>>
<1>0. o \in Packets /\ o \notin UserOperations /\ TypeOK /\ ControlInv
  BY SchedulerAssumption DEF Packets, Operations, IInv
<1>1. statusBar' = statusBar
  BY <1>0, StatusStep
     DEF ScheduleSystemOperation, CountSystemOperation, PostSystemOperation,
         PostSystemOperationFails, UncountSystemOperation
<1>2. CASE UncountSystemOperation(o)
  <2>1. consumer \in {"executing", "failing", "failed"}
    BY <1>0, <1>2 DEF UncountSystemOperation, ControlInv, Executing
  <2> QED BY <1>0, <1>1, <1>2, <2>1, PhaseSame DEF UncountSystemOperation
<1>3. CASE CountSystemOperation(o) \/ PostSystemOperation(o) \/ PostSystemOperationFails(o)
  BY <1>0, <1>1, <1>3, PhaseSame
     DEF CountSystemOperation, PostSystemOperation, PostSystemOperationFails
<1> QED BY <1>2, <1>3 DEF ScheduleSystemOperation

\* What becomes of an operation in flight is a step of the channel.
LEMMA OperationRefines ==
  ASSUME IInv, NEW o \in Operations, CompleteIo(o) \/ Reschedule(o) \/ EraseOperation(o)
  PROVE  Channel!ChannelNext \/ UNCHANGED <<statusBar, phaseBar>>
<1>0. o \in Packets /\ TypeOK /\ ControlInv
  BY DEF Packets, IInv
<1>1. CASE CompleteIo(o)
  BY <1>0, <1>1, StatusStutters, PhaseSame DEF CompleteIo, StatusOf
<1>2. CASE Reschedule(o)
  BY <1>0, <1>2, StatusStutters, PhaseSame DEF Reschedule, StatusOf
<1>3. CASE EraseOperation(o)
  <2>1. phaseBar' = phaseBar /\ phaseBar \in {"open", "aborting"}
    BY <1>0, <1>3, PhaseSame, PhaseValue DEF EraseOperation, ControlInv, Executing
  <2>2. CASE o \in UserOperations
    <3>1. statusBar[o] = "admitted" /\ statusBar' = [statusBar EXCEPT ![o] = "done"]
      BY <1>0, <1>3, <2>2, StatusValue, StatusStep, SchedulerAssumption
         DEF EraseOperation, StatusOf, Freed
    <3> QED BY <2>1, <2>2, <3>1 DEF Channel!ChannelNext, Channel!Complete
  <2>3. CASE o \notin UserOperations
    BY <1>0, <1>3, <2>1, <2>3, StatusStep DEF EraseOperation
  <2> QED BY <2>2, <2>3
<1> QED BY <1>1, <1>2, <1>3

\* Each entry of a batch is handled as one step of the channel.
LEMMA EntryRefines ==
  ASSUME IInv, DrainEntry \/ ReceiveAbort \/ ConsumeEntry
  PROVE  Channel!ChannelNext \/ UNCHANGED <<statusBar, phaseBar>>
<1> DEFINE p == Head(entries)
<1>0. /\ p \in Packets /\ place[p] = "queued"
      /\ TypeOK /\ ControlInv
      /\ AbortPacket \in Packets /\ AbortPacket \notin UserOperations
  BY HeadIsQueued, SchedulerAssumption
     DEF IInv, DrainEntry, ReceiveAbort, ConsumeEntry, Packets, Operations
<1> HIDE DEF p
<1>1. CASE DrainEntry
  <2>1. phaseBar' = phaseBar /\ phaseBar = "draining"
    BY <1>0, <1>1, PhaseSame, PhaseValue DEF DrainEntry
  <2>2. place' = [place EXCEPT ![p] = Freed(p, "dropped")]
    BY <1>1 DEF DrainEntry, p
  <2>3. CASE p \in UserOperations
    <3>1. statusBar[p] = "admitted" /\ statusBar' = [statusBar EXCEPT ![p] = "dropped"]
      BY <1>0, <2>2, <2>3, StatusValue, StatusStep, SchedulerAssumption DEF StatusOf, Freed
    <3> QED BY <2>1, <2>3, <3>1 DEF Channel!ChannelNext, Channel!Drop
  <2>4. CASE p \notin UserOperations
    BY <1>0, <2>1, <2>2, <2>4, StatusStep
  <2> QED BY <2>3, <2>4
<1>2. CASE ReceiveAbort
  <2>1. statusBar' = statusBar
    BY <1>0, <1>2, StatusStep DEF ReceiveAbort
  <2>2. phaseBar \in {"open", "aborting"} /\ phaseBar' = "draining"
    BY <1>2, PhaseValue DEF ReceiveAbort, phaseBar
  <2> QED BY <2>1, <2>2 DEF Channel!ChannelNext, Channel!StartDraining
<1>3. CASE ConsumeEntry
  <2>1. statusBar' = statusBar
    BY <1>0, <1>3, StatusStutters DEF ConsumeEntry, StatusOf, p
  <2> QED BY <1>0, <1>3, <2>1, PhaseSame DEF ConsumeEntry
<1> QED BY <1>1, <1>2, <1>3

\* The loop around the entries changes the phase of the channel, or nothing.
LEMMA LoopRefines ==
  ASSUME IInv, IInv',
         \/ FinishDraining \/ CheckDrained \/ Dequeue \/ DequeueTimesOut \/ DequeueFails
         \/ DrainFails \/ EndBatch \/ ExecuteThrows \/ UNCHANGED vars
  PROVE  Channel!ChannelNext \/ UNCHANGED <<statusBar, phaseBar>>
<1>0. TypeOK /\ ControlInv
  BY DEF IInv
<1>1. statusBar' = statusBar
  BY StatusSame
     DEF FinishDraining, CheckDrained, Dequeue, DequeueTimesOut, DequeueFails, DrainFails,
         EndBatch, ExecuteThrows, vars
<1>2. CASE FinishDraining
  <2>1. phaseBar = "draining" /\ phaseBar' = "drained"
    BY <1>2, PhaseValue DEF FinishDraining, phaseBar
  <2>2. \A o \in UserOperations : place[o] \notin Counted \ {"refused"}
    BY <1>2 DEF FinishDraining, IInv, NoOperationLeftBehind, Operations
  <2>3. \A o \in UserOperations : statusBar[o] # "admitted"
    BY <1>0, <2>2, StatusValue DEF TypeOK, StatusOf, Counted, Places, Finished
  <2> QED BY <1>1, <2>1, <2>3 DEF Channel!ChannelNext, Channel!FinishDraining
<1>3. CASE DequeueFails
  <2>1. phaseBar \in {"open", "aborting"} /\ phaseBar' = "draining"
    BY <1>3, PhaseValue DEF DequeueFails, phaseBar
  <2> QED BY <1>1, <2>1 DEF Channel!ChannelNext, Channel!StartDraining
<1>4. CASE DrainFails
  <2>1. phaseBar = "draining" /\ phaseBar' = "broken"
    BY <1>4, PhaseValue DEF DrainFails, phaseBar
  <2> QED BY <1>1, <2>1 DEF Channel!ChannelNext, Channel!Break
<1>5. CASE CheckDrained \/ Dequeue \/ DequeueTimesOut \/ EndBatch \/ ExecuteThrows
  BY <1>0, <1>1, <1>5, PhaseSame
     DEF CheckDrained, Dequeue, DequeueTimesOut, EndBatch, ExecuteThrows
<1>6. CASE UNCHANGED vars
  BY <1>1, <1>6 DEF vars, phaseBar
<1> QED BY <1>2, <1>3, <1>4, <1>5, <1>6

\* The destructor begins the abort of the channel once.
LEMMA DestructorRefines ==
  ASSUME IInv, Destructor
  PROVE  Channel!ChannelNext \/ UNCHANGED <<statusBar, phaseBar>>
<1>0. /\ AbortPacket \in Packets /\ AbortPacket \notin UserOperations
      /\ TypeOK /\ ControlInv
  BY SchedulerAssumption DEF Packets, Operations, IInv
<1>1. statusBar' = statusBar
  BY <1>0, StatusStep, StatusSame
     DEF Destructor, SetAbortingFlag, CountAbortPacket, PostAbortPacket,
         PostAbortPacketFails, Join
<1>2. CASE SetAbortingFlag /\ ~draining
  <2>1. phaseBar = "open"
    BY <1>2, PhaseValue DEF SetAbortingFlag
  <2>2. phaseBar' = "aborting"
    BY <1>0, <1>2 DEF SetAbortingFlag, phaseBar, ControlInv
  <2> QED BY <1>1, <2>1, <2>2 DEF Channel!ChannelNext, Channel!StartAborting
<1>3. CASE SetAbortingFlag /\ draining
  BY <1>1, <1>3 DEF SetAbortingFlag, phaseBar
<1>4. CASE CountAbortPacket \/ PostAbortPacket \/ PostAbortPacketFails \/ Join
  <2>1. destructor # "idle" /\ destructor' # "idle"
    BY <1>0, <1>4
       DEF CountAbortPacket, PostAbortPacket, PostAbortPacketFails, Join, ControlInv
  <2> QED BY <1>1, <1>4, <2>1
          DEF CountAbortPacket, PostAbortPacket, PostAbortPacketFails, Join, phaseBar
<1> QED BY <1>2, <1>3, <1>4 DEF Destructor, SetAbortingFlag

\* Every step of the scheduler is one of the channel or a stutter.
LEMMA StepRefines == IInv /\ IInv' /\ [Next]_vars => [Channel!ChannelNext]_(Channel!channelVars)
<1> SUFFICES ASSUME IInv, IInv', [Next]_vars
             PROVE  Channel!ChannelNext \/ UNCHANGED <<statusBar, phaseBar>>
  BY DEF Channel!channelVars
<1> QED BY UserRefines, SystemStutters, OperationRefines, EntryRefines, LoopRefines,
           DestructorRefines
        DEF Next, Consumer

\* The scheduler begins as an open channel.
LEMMA InitRefines == Init => Channel!ChannelInit
<1> SUFFICES ASSUME Init PROVE Channel!ChannelInit
  OBVIOUS
<1>1. statusBar = [o \in UserOperations |-> "new"]
  BY DEF Init, statusBar, Packets, Operations
<1>2. phaseBar = "open"
  BY DEF Init, phaseBar
<1> QED BY <1>1, <1>2 DEF Channel!ChannelInit

\* The scheduler keeps the promise of OperationChannel: an operation is
\* refused or admitted, an admitted one ends once, and a drain that is over
\* left nothing.
THEOREM ChannelImplemented == Spec => ImplementsChannel
BY InitRefines, StepRefines, InductiveInvariant, PTL
   DEF Spec, ImplementsChannel, Channel!ChannelSpec
=============================================================================
