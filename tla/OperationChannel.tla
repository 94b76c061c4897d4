-------------------------- MODULE OperationChannel --------------------------
(***************************************************************************)
(* What a socket provider promises about the user operations submitted to  *)
(* it, whatever the queue, counter and thread that implement it: an        *)
(* operation is admitted or refused; an admitted one ends exactly once;    *)
(* once the provider aborts nothing more is admitted, once it drains       *)
(* nothing more runs, and it is drained only when nothing is admitted any  *)
(* more.                                                                   *)
(***************************************************************************)

CONSTANT UserOperations  \* the operations users submit, each of them once

VARIABLES status,  \* where each user operation is in its life
          phase    \* how far the shutdown of the provider has come

channelVars == <<status, phase>>

Statuses == {"new", "admitted", "done", "dropped", "refused"}
Phases == {"open", "aborting", "draining", "drained", "broken"}

ChannelInit ==
  /\ status = [o \in UserOperations |-> "new"]
  /\ phase = "open"

Admit(o) ==
  /\ phase = "open"
  /\ status[o] = "new"
  /\ status' = [status EXCEPT ![o] = "admitted"]
  /\ UNCHANGED phase

\* A new operation is refused only once the provider aborts.
RefuseNew(o) ==
  /\ phase # "open"
  /\ status[o] = "new"
  /\ status' = [status EXCEPT ![o] = "refused"]
  /\ UNCHANGED phase

\* An admitted operation is given back to its caller when it cannot be queued.
RefuseAdmitted(o) ==
  /\ phase # "drained"
  /\ status[o] = "admitted"
  /\ status' = [status EXCEPT ![o] = "refused"]
  /\ UNCHANGED phase

Complete(o) ==
  /\ phase \in {"open", "aborting"}
  /\ status[o] = "admitted"
  /\ status' = [status EXCEPT ![o] = "done"]
  /\ UNCHANGED phase

Drop(o) ==
  /\ phase = "draining"
  /\ status[o] = "admitted"
  /\ status' = [status EXCEPT ![o] = "dropped"]
  /\ UNCHANGED phase

StartAborting ==
  /\ phase = "open"
  /\ phase' = "aborting"
  /\ UNCHANGED status

StartDraining ==
  /\ phase \in {"open", "aborting"}
  /\ phase' = "draining"
  /\ UNCHANGED status

FinishDraining ==
  /\ phase = "draining"
  /\ \A o \in UserOperations : status[o] # "admitted"
  /\ phase' = "drained"
  /\ UNCHANGED status

\* The queue itself failed while draining: what it still held is lost.
Break ==
  /\ phase = "draining"
  /\ phase' = "broken"
  /\ UNCHANGED status

ChannelNext ==
  \/ \E o \in UserOperations :
       Admit(o) \/ RefuseNew(o) \/ RefuseAdmitted(o) \/ Complete(o) \/ Drop(o)
  \/ StartAborting
  \/ StartDraining
  \/ FinishDraining
  \/ Break

ChannelSpec == ChannelInit /\ [][ChannelNext]_channelVars
=============================================================================
