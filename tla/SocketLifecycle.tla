-------------------------- MODULE SocketLifecycle --------------------------
(***************************************************************************)
(* What users see of their sockets through the connection callback.  Every *)
(* socket is announced at most once and its end at most once, in this      *)
(* order and never again: a listening socket by serverOpen and             *)
(* serverClosed, a connecting one by clientOpen and serverClosed, an       *)
(* accepted one by the clientOpen and clientClosed of its listening        *)
(* socket.  A socket that could not be opened may end without its          *)
(* announcement.  The end of an accepted socket is silent only when its    *)
(* listening socket ended before it.                                       *)
(***************************************************************************)
EXTENDS Naturals

CONSTANTS Identifiers,  \* socket identifiers, numbered from 1
          NoIdentifier  \* invalidSocketIdentifier

VARIABLES stage,    \* how far each socket has come
          acceptor  \* the listening socket that accepted it

lifecycleVars == <<stage, acceptor>>

LifecycleInit ==
  /\ stage = [i \in Identifiers |-> "new"]
  /\ acceptor = [i \in Identifiers |-> NoIdentifier]

\* listen or connect failed: its identifier is used up, in silence.
Spoil(i) ==
  /\ stage[i] = "new"
  /\ stage' = [stage EXCEPT ![i] = "failed"]
  /\ UNCHANGED acceptor

\* The same, but the user is told its end.
Refuse(i) ==
  /\ stage[i] = "new"
  /\ stage' = [stage EXCEPT ![i] = "closed"]
  /\ UNCHANGED acceptor

Listen(i) ==
  /\ stage[i] = "new"
  /\ stage' = [stage EXCEPT ![i] = "open"]
  /\ UNCHANGED acceptor

Connect(i) ==
  /\ stage[i] = "new"
  /\ stage' = [stage EXCEPT ![i] = "opening"]
  /\ UNCHANGED acceptor

Connected(i) ==
  /\ stage[i] = "opening"
  /\ stage' = [stage EXCEPT ![i] = "open"]
  /\ UNCHANGED acceptor

Accept(i, listening) ==
  /\ stage[i] = "new"
  /\ stage[listening] = "open"
  /\ acceptor[listening] = NoIdentifier
  /\ stage' = [stage EXCEPT ![i] = "open"]
  /\ acceptor' = [acceptor EXCEPT ![i] = listening]

Announced(i) == acceptor[i] = NoIdentifier \/ stage[acceptor[i]] = "open"

Close(i) ==
  /\ stage[i] \in {"opening", "open"}
  /\ stage' = [stage EXCEPT ![i] = IF Announced(i) THEN "closed" ELSE "lost"]
  /\ UNCHANGED acceptor

LifecycleNext ==
  \E i \in Identifiers :
    \/ Spoil(i) \/ Refuse(i) \/ Listen(i) \/ Connect(i) \/ Connected(i) \/ Close(i)
    \/ \E listening \in Identifiers : Accept(i, listening)

LifecycleSpec == LifecycleInit /\ [][LifecycleNext]_lifecycleVars
=============================================================================
