---------------------------- MODULE QuicSession ----------------------------
(***************************************************************************)
(* The UDP session manager of cmd/quic-proxy/quic-proxy.go.                *)
(*                                                                         *)
(* A session is identified with the goroutine that creates it: worker w    *)
(* runs handleNewSession for one first datagram and, when it succeeds,     *)
(* becomes the relay of the session it inserted. conn[w] is the backend    *)
(* socket that goroutine dialled. Besides the workers there are the        *)
(* receive loop of main and the garbage collector. A step is what one of   *)
(* them does between two points where another can observe it: a critical   *)
(* section of the table's mutex, of a session's mutex, or a socket call.   *)
(***************************************************************************)
EXTENDS FiniteSets

CONSTANTS
  Clients,    \* client addresses (the keys of SessionManager.sessions)
  Workers,    \* goroutines of handleNewSession; their number bounds the model
  None        \* "no session"

ASSUME NoneAssumption == None \notin Clients \cup Workers

VARIABLES
  sessions,   \* SessionManager.sessions: client -> worker of the session, or None
  pc,         \* pc[w]: where goroutine w is
  client,     \* client[w]: the clientAddr goroutine w was started for
  conn,       \* conn[w]: the backend socket of w, "closed" before it is dialled too
  fresh,      \* fresh[w]: lastActivity of w's session is within idleTimeout
  held,       \* held[w]: the session w keeps a pointer to, outside the mutex
  hotPc,      \* where the receive loop is
  hot,        \* the session the receive loop looked up
  gcKeys,     \* the keys gcLoop found idle and has not removed yet
  gcVictim    \* the session gcLoop has taken out of the table and must close

vars == <<sessions, pc, client, conn, fresh, held, hotPc, hot, gcKeys, gcVictim>>

Stages == {"idle", "lookup", "dialed", "dup", "feed",
           "first", "relay", "send", "fail", "close"}

\* The types; the receive loop holds a pointer exactly when it will use it.
TypeOK ==
  /\ sessions \in [Clients -> Workers \cup {None}]
  /\ pc \in [Workers -> Stages]
  /\ client \in [Workers -> Clients]
  /\ conn \in [Workers -> {"open", "closed"}]
  /\ fresh \in [Workers -> BOOLEAN]
  /\ held \in [Workers -> Workers \cup {None}]
  /\ hotPc \in {"recv", "touch", "write"}
  /\ hot \in Workers \cup {None}
  /\ hot = None <=> hotPc = "recv"
  /\ gcKeys \in SUBSET Clients
  /\ gcVictim \in Workers \cup {None}

Init ==
  /\ sessions = [c \in Clients |-> None]
  /\ pc = [w \in Workers |-> "idle"]
  /\ client \in [Workers -> Clients]
  /\ conn = [w \in Workers |-> "closed"]
  /\ fresh = [w \in Workers |-> FALSE]
  /\ held = [w \in Workers |-> None]
  /\ hotPc = "recv"
  /\ hot = None
  /\ gcKeys = {}
  /\ gcVictim = None

Mapped(w) == \E c \in Clients : sessions[c] = w

\* The worker is finished and nobody has a pointer to its session any more,
\* so its name can stand for a goroutine started later.
Reusable(w) ==
  /\ pc[w] = "idle"
  /\ conn[w] # "open"
  /\ hot # w
  /\ gcVictim # w
  /\ \A v \in Workers : held[v] # w

-----------------------------------------------------------------------------
(* The receive loop of main.                                               *)

\* A datagram of a client without a session: a goroutine of its own sets one up.
ReceiveNew(c, w) ==
  /\ hotPc = "recv"
  /\ sessions[c] = None
  /\ Reusable(w)
  /\ pc' = [pc EXCEPT ![w] = "lookup"]
  /\ client' = [client EXCEPT ![w] = c]
  /\ fresh' = [fresh EXCEPT ![w] = FALSE]
  /\ UNCHANGED <<sessions, conn, held, hotPc, hot, gcKeys, gcVictim>>

\* What a bug would do: use the looked up session without asking if there is one.
ReceiveUnchecked(c) ==
  /\ hotPc = "recv"
  /\ hotPc' = "touch"
  /\ hot' = sessions[c]
  /\ UNCHANGED <<sessions, pc, client, conn, fresh, held, gcKeys, gcVictim>>

\* A datagram of a client with a session: the read lock is released at once.
ReceiveKnown(c) ==
  /\ hotPc = "recv"
  /\ sessions[c] # None
  /\ hotPc' = "touch"
  /\ hot' = sessions[c]
  /\ UNCHANGED <<sessions, pc, client, conn, fresh, held, gcKeys, gcVictim>>

HotTouch ==
  /\ hotPc = "touch"
  /\ fresh' = [fresh EXCEPT ![hot] = TRUE]
  /\ hotPc' = "write"
  /\ UNCHANGED <<sessions, pc, client, conn, held, hot, gcKeys, gcVictim>>

\* A failed write is only logged.
HotWrite ==
  /\ hotPc = "write"
  /\ hotPc' = "recv"
  /\ hot' = None
  /\ UNCHANGED <<sessions, pc, client, conn, fresh, held, gcKeys, gcVictim>>

-----------------------------------------------------------------------------
(* handleNewSession.                                                       *)

\* No SNI, no address, no IPv4 address, or the dial fails: the datagram is dropped.
SetupDrop(w) ==
  /\ pc[w] = "lookup"
  /\ pc' = [pc EXCEPT ![w] = "idle"]
  /\ UNCHANGED <<sessions, client, conn, fresh, held, hotPc, hot, gcKeys, gcVictim>>

SetupDial(w) ==
  /\ pc[w] = "lookup"
  /\ pc' = [pc EXCEPT ![w] = "dialed"]
  /\ conn' = [conn EXCEPT ![w] = "open"]
  /\ fresh' = [fresh EXCEPT ![w] = TRUE]
  /\ UNCHANGED <<sessions, client, held, hotPc, hot, gcKeys, gcVictim>>

\* What a bug would do: insert without looking for a session that won the race.
InsertNewNoCheck(w) ==
  /\ pc[w] = "dialed"
  /\ sessions' = [sessions EXCEPT ![client[w]] = w]
  /\ pc' = [pc EXCEPT ![w] = "first"]
  /\ UNCHANGED <<client, conn, fresh, held, hotPc, hot, gcKeys, gcVictim>>

InsertNew(w) ==
  /\ pc[w] = "dialed"
  /\ sessions[client[w]] = None
  /\ sessions' = [sessions EXCEPT ![client[w]] = w]
  /\ pc' = [pc EXCEPT ![w] = "first"]
  /\ UNCHANGED <<client, conn, fresh, held, hotPc, hot, gcKeys, gcVictim>>

\* Another goroutine of the same client was faster.
InsertExisting(w) ==
  /\ pc[w] = "dialed"
  /\ sessions[client[w]] # None
  /\ held' = [held EXCEPT ![w] = sessions[client[w]]]
  /\ pc' = [pc EXCEPT ![w] = "dup"]
  /\ UNCHANGED <<sessions, client, conn, fresh, hotPc, hot, gcKeys, gcVictim>>

\* What a bug would do: forget the socket dialled in vain.
DupKeep(w) ==
  /\ pc[w] = "dup"
  /\ pc' = [pc EXCEPT ![w] = "feed"]
  /\ UNCHANGED <<sessions, client, conn, fresh, held, hotPc, hot, gcKeys, gcVictim>>

DupClose(w) ==
  /\ pc[w] = "dup"
  /\ conn' = [conn EXCEPT ![w] = "closed"]
  /\ pc' = [pc EXCEPT ![w] = "feed"]
  /\ UNCHANGED <<sessions, client, fresh, held, hotPc, hot, gcKeys, gcVictim>>

\* The datagram goes to the session found under the lock, closed or not by now.
DupFeed(w) ==
  /\ pc[w] = "feed"
  /\ fresh' = [fresh EXCEPT ![held[w]] = TRUE]
  /\ held' = [held EXCEPT ![w] = None]
  /\ pc' = [pc EXCEPT ![w] = "idle"]
  /\ UNCHANGED <<sessions, client, conn, hotPc, hot, gcKeys, gcVictim>>

\* The session is in the table before its first datagram is written. The
\* write fails if the socket was closed meanwhile, and may fail if it was not.
FirstWrite(w) ==
  /\ pc[w] = "first"
  /\ \/ /\ conn[w] = "open"
        /\ pc' = [pc EXCEPT ![w] = "relay"]
     \/ pc' = [pc EXCEPT ![w] = "fail"]
  /\ UNCHANGED <<sessions, client, conn, fresh, held, hotPc, hot, gcKeys, gcVictim>>

-----------------------------------------------------------------------------
(* relayBackendToClient and removeSession.                                 *)

\* A datagram from the backend; it counts as activity.
RelayRead(w) ==
  /\ pc[w] = "relay"
  /\ conn[w] = "open"
  /\ fresh' = [fresh EXCEPT ![w] = TRUE]
  /\ pc' = [pc EXCEPT ![w] = "send"]
  /\ UNCHANGED <<sessions, client, conn, held, hotPc, hot, gcKeys, gcVictim>>

\* Read fails: always on a closed socket, on an open one when the peer refused.
RelayError(w) ==
  /\ pc[w] = "relay"
  /\ pc' = [pc EXCEPT ![w] = "fail"]
  /\ UNCHANGED <<sessions, client, conn, fresh, held, hotPc, hot, gcKeys, gcVictim>>

RelaySend(w) ==
  /\ pc[w] = "send"
  /\ \E next \in {"relay", "fail"} : pc' = [pc EXCEPT ![w] = next]
  /\ UNCHANGED <<sessions, client, conn, fresh, held, hotPc, hot, gcKeys, gcVictim>>

\* removeSession(key) takes out whatever session the key has now: that of w,
\* none, or a newer one.
Remove(w) ==
  /\ pc[w] = "fail"
  /\ held' = [held EXCEPT ![w] = sessions[client[w]]]
  /\ sessions' = [sessions EXCEPT ![client[w]] = None]
  /\ pc' = [pc EXCEPT ![w] = "close"]
  /\ UNCHANGED <<client, conn, fresh, hotPc, hot, gcKeys, gcVictim>>

RemoveClose(w) ==
  /\ pc[w] = "close"
  /\ conn' = IF held[w] = None THEN conn ELSE [conn EXCEPT ![held[w]] = "closed"]
  /\ held' = [held EXCEPT ![w] = None]
  /\ pc' = [pc EXCEPT ![w] = "idle"]
  /\ UNCHANGED <<sessions, client, fresh, hotPc, hot, gcKeys, gcVictim>>

-----------------------------------------------------------------------------
(* gcLoop, and the passage of time it looks at.                            *)

\* idleTimeout passes without a datagram of this session (only gcLoop can
\* tell, and only while the session is in the table).
Expire(w) ==
  /\ fresh[w]
  /\ Mapped(w)
  /\ fresh' = [fresh EXCEPT ![w] = FALSE]
  /\ UNCHANGED <<sessions, pc, client, conn, held, hotPc, hot, gcKeys, gcVictim>>

\* What a bug would do: take the busy sessions for the idle ones.
GcCollectFresh ==
  /\ gcKeys = {}
  /\ gcVictim = None
  /\ gcKeys' = {c \in Clients : sessions[c] # None /\ fresh[sessions[c]]}
  /\ UNCHANGED <<sessions, pc, client, conn, fresh, held, hotPc, hot, gcVictim>>

\* A tick: the idle keys are collected under the read lock.
GcCollect ==
  /\ gcKeys = {}
  /\ gcVictim = None
  /\ gcKeys' = {c \in Clients : sessions[c] # None /\ ~fresh[sessions[c]]}
  /\ UNCHANGED <<sessions, pc, client, conn, fresh, held, hotPc, hot, gcVictim>>

\* What a bug would do: close the session while it can still be found.
GcCloseEarly(c) ==
  /\ gcVictim = None
  /\ c \in gcKeys
  /\ gcKeys' = gcKeys \ {c}
  /\ conn' = IF sessions[c] = None THEN conn ELSE [conn EXCEPT ![sessions[c]] = "closed"]
  /\ UNCHANGED <<sessions, pc, client, fresh, held, hotPc, hot, gcVictim>>

\* removeSession for a key collected earlier: the idle time is not looked at again.
GcRemove(c) ==
  /\ gcVictim = None
  /\ c \in gcKeys
  /\ gcKeys' = gcKeys \ {c}
  /\ gcVictim' = sessions[c]
  /\ sessions' = [sessions EXCEPT ![c] = None]
  /\ UNCHANGED <<pc, client, conn, fresh, held, hotPc, hot>>

GcClose ==
  /\ gcVictim # None
  /\ conn' = [conn EXCEPT ![gcVictim] = "closed"]
  /\ gcVictim' = None
  /\ UNCHANGED <<sessions, pc, client, fresh, held, hotPc, hot, gcKeys>>

-----------------------------------------------------------------------------
Setup(w) ==
  \/ SetupDrop(w)
  \/ SetupDial(w)
  \/ InsertNew(w)
  \/ InsertExisting(w)
  \/ DupClose(w)
  \/ DupFeed(w)
  \/ FirstWrite(w)

Relay(w) ==
  \/ RelayRead(w)
  \/ RelayError(w)
  \/ RelaySend(w)
  \/ Remove(w)
  \/ RemoveClose(w)

Next ==
  \/ \E c \in Clients : ReceiveKnown(c) \/ GcRemove(c)
  \/ \E c \in Clients, w \in Workers : ReceiveNew(c, w)
  \/ \E w \in Workers : Setup(w) \/ Relay(w) \/ Expire(w)
  \/ HotTouch
  \/ HotWrite
  \/ GcCollect
  \/ GcClose

\* Go runs every runnable goroutine; lookups and dials end (SetupDrop is their
\* timeout); a Read on a closed socket returns. Nothing makes clients send,
\* backends answer, open sockets fail or time pass.
Fairness ==
  /\ \A w \in Workers :
       /\ WF_vars(Setup(w))
       /\ WF_vars(conn[w] # "open" /\ RelayError(w))
       /\ WF_vars(RelaySend(w) \/ Remove(w) \/ RemoveClose(w))
  /\ WF_vars(HotTouch \/ HotWrite)
  /\ WF_vars(GcCollect)
  /\ WF_vars((\E c \in Clients : GcRemove(c)) \/ GcClose)

SafeSpec == Init /\ [][Next]_vars

Spec == SafeSpec /\ Fairness

-----------------------------------------------------------------------------
(* Properties.                                                             *)

\* A session the table leads to is alive: it was inserted under its own
\* client's key, its socket is open, and its goroutine is still there to
\* notice a failure and remove it (removeSession deletes before it closes).
MapSound ==
  \A c \in Clients : sessions[c] # None =>
    /\ client[sessions[c]] = c
    /\ conn[sessions[c]] = "open"
    /\ pc[sessions[c]] \in {"first", "relay", "send", "fail"}

\* Taken out of the table by removeSession, not closed yet.
Condemned(w) ==
  \/ gcVictim = w
  \/ \E v \in Workers : pc[v] = "close" /\ held[v] = w

\* No backend socket leaks: an open one is in the table under its client's
\* key, or a goroutine that is about to insert or close it holds it.
NoLeak ==
  \A w \in Workers : conn[w] = "open" =>
    \/ sessions[client[w]] = w
    \/ pc[w] \in {"dialed", "dup"}
    \/ Condemned(w)

\* The life of each socket as ConnLife tells it, read off the proxy's state.
SocketStage(w) ==
  IF conn[w] # "open" THEN "none"
  ELSE IF pc[w] \in {"dialed", "dup"} THEN "dialed"
  ELSE IF sessions[client[w]] = w THEN "bound"
  ELSE "detached"

SocketOwner(w) == IF conn[w] = "open" THEN client[w] ELSE None

Life == INSTANCE ConnLife WITH
  Conns <- Workers,
  NoClient <- None,
  stage <- [w \in Workers |-> SocketStage(w)],
  owner <- [w \in Workers |-> SocketOwner(w)]

\* The session manager implements the promise about its sockets, with its
\* liveness: each dialled socket is used or closed, each detached one closed.
SocketLife == Life!Spec

\* The safety half of the promise.
SocketLifeSafe == Life!SafeSpec

\* A session that stays idle is collected (gcLoop, every 30 s).
IdleReclaimed ==
  \A w \in Workers : (Mapped(w) /\ ~fresh[w]) ~> (fresh[w] \/ ~Mapped(w))

\* "Hot path: forward to an existing session inline (... preserves datagram
\* order)": the receive loop writes nothing to a session's open socket before
\* the datagram that created the session.
HotPathKeepsOrder ==
  [][\A w \in Workers :
       hot = w /\ hotPc = "write" /\ hotPc' = "recv"
       => ~ (conn[w] = "open" /\ pc[w] = "first")]_vars
=============================================================================
