------------------------------ MODULE ConnLife ------------------------------
(***************************************************************************)
(* What the QUIC proxy promises about its backend sockets, whatever the    *)
(* interleaving of the receive loop, the setup goroutines, the relays and  *)
(* the garbage collector: a socket is dialled for one client, serves it at *)
(* most once, is the only one serving it, is closed only when nobody can   *)
(* find it any more, and is never left open unreachable.                   *)
(***************************************************************************)
CONSTANTS
  Clients,    \* client addresses, the keys of the session table
  Conns,      \* backend sockets
  NoClient    \* owner of a socket that is not open, no member of Clients

VARIABLES
  stage,      \* stage[w]: where socket w is in its life
  owner       \* owner[w]: the client socket w was dialled for

vars == <<stage, owner>>

Stages == {"none", "dialed", "bound", "detached"}

TypeOK ==
  /\ stage \in [Conns -> Stages]
  /\ owner \in [Conns -> Clients \cup {NoClient}]

Init ==
  /\ stage = [w \in Conns |-> "none"]
  /\ owner = [w \in Conns |-> NoClient]

Dial(w, c) ==
  /\ stage[w] = "none"
  /\ stage' = [stage EXCEPT ![w] = "dialed"]
  /\ owner' = [owner EXCEPT ![w] = c]

\* The socket starts serving its client: no other socket may be doing so.
Bind(w) ==
  /\ stage[w] = "dialed"
  /\ \A v \in Conns : owner[v] = owner[w] => stage[v] # "bound"
  /\ stage' = [stage EXCEPT ![w] = "bound"]
  /\ owner' = owner

\* A socket dialled in vain is closed without ever having served.
Discard(w) ==
  /\ stage[w] = "dialed"
  /\ stage' = [stage EXCEPT ![w] = "none"]
  /\ owner' = [owner EXCEPT ![w] = NoClient]

\* The socket stops being found for its client's datagrams.
Detach(w) ==
  /\ stage[w] = "bound"
  /\ stage' = [stage EXCEPT ![w] = "detached"]
  /\ owner' = owner

Close(w) ==
  /\ stage[w] = "detached"
  /\ stage' = [stage EXCEPT ![w] = "none"]
  /\ owner' = [owner EXCEPT ![w] = NoClient]

Next ==
  \E w \in Conns :
    \/ \E c \in Clients : Dial(w, c)
    \/ Bind(w)
    \/ Discard(w)
    \/ Detach(w)
    \/ Close(w)

SafeSpec == Init /\ [][Next]_vars

\* A dialled socket is used or thrown away; a detached one is closed.
Fairness ==
  \A w \in Conns :
    /\ WF_vars(Bind(w) \/ Discard(w))
    /\ WF_vars(Close(w))

Spec == SafeSpec /\ Fairness
=============================================================================
