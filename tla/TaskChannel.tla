---------------------------- MODULE TaskChannel ----------------------------
(***************************************************************************)
(* What the task queue of the Linux back end promises: tasks are delivered *)
(* to the consumer in the order in which they were accepted, each once,    *)
(* until the abort task is delivered; what comes after it is dropped.      *)
(***************************************************************************)
EXTENDS Sequences

CONSTANTS Tasks,     \* what users insert
          AbortTask  \* what the destructor inserts

VARIABLES queue,    \* accepted and not delivered, oldest first
          outcome,  \* what became of each task
          running   \* whether the consumer is still delivering

channelVars == <<queue, outcome, running>>

Items == Tasks \cup {AbortTask}

ChannelInit ==
  /\ queue = <<>>
  /\ outcome = [i \in Items |-> "new"]
  /\ running = TRUE

Accept(i) ==
  /\ outcome[i] = "new"
  /\ running
  /\ queue' = Append(queue, i)
  /\ outcome' = [outcome EXCEPT ![i] = "queued"]
  /\ UNCHANGED running

\* A stopped consumer delivers nothing, but the task is not refused.
AcceptInVain(i) ==
  /\ outcome[i] = "new"
  /\ ~running
  /\ outcome' = [outcome EXCEPT ![i] = "dropped"]
  /\ UNCHANGED <<queue, running>>

Refuse(i) ==
  /\ outcome[i] = "new"
  /\ outcome' = [outcome EXCEPT ![i] = "refused"]
  /\ UNCHANGED <<queue, running>>

Deliver ==
  /\ running
  /\ queue # <<>>
  /\ Head(queue) # AbortTask
  /\ queue' = Tail(queue)
  /\ outcome' = [outcome EXCEPT ![Head(queue)] = "executed"]
  /\ UNCHANGED running

Dropped == [i \in Items |-> IF outcome[i] = "queued" THEN "dropped" ELSE outcome[i]]

Abort ==
  /\ running
  /\ queue # <<>>
  /\ Head(queue) = AbortTask
  /\ running' = FALSE
  /\ queue' = <<>>
  /\ outcome' = Dropped

\* The thread that delivers dies of an error of the event poll.
Die ==
  /\ running
  /\ running' = FALSE
  /\ queue' = <<>>
  /\ outcome' = Dropped

ChannelNext ==
  \/ \E i \in Items : Accept(i) \/ AcceptInVain(i) \/ Refuse(i)
  \/ Deliver \/ Abort \/ Die

ChannelSpec == ChannelInit /\ [][ChannelNext]_channelVars
=============================================================================
