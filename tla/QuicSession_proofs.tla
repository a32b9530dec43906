------------------------- MODULE QuicSession_proofs -------------------------
(***************************************************************************)
(* For any number of clients and goroutines: the session table only leads  *)
(* to live sessions, no backend socket leaks, and the session manager      *)
(* implements the safety half of ConnLife.                                 *)
(***************************************************************************)
EXTENDS QuicSession, TLAPS

\* A dialled socket stays open until its goroutine inserts or closes it.
DialedOpen ==
  \A w \in Workers : pc[w] \in {"dialed", "dup"} => conn[w] = "open"

\* A session taken out of the table cannot be found in it again, and its
\* goroutine is past the point where it could insert it.
CondemnedGone ==
  \A w \in Workers : Condemned(w) =>
    /\ ~Mapped(w)
    /\ pc[w] \notin {"lookup", "dialed", "dup", "feed"}

\* The inductive strengthening: MapSound needs DialedOpen when a session is
\* inserted and CondemnedGone when one is closed.
IInv == TypeOK /\ MapSound /\ NoLeak /\ DialedOpen /\ CondemnedGone

LEMMA InitInv == Init => IInv
BY NoneAssumption DEF Init, IInv, TypeOK, Stages, MapSound, NoLeak, DialedOpen, CondemnedGone,
   Condemned, Mapped

\* The typing of each step.
LEMMA TypeStep == TypeOK /\ [Next]_vars => TypeOK'
<1> SUFFICES ASSUME TypeOK, [Next]_vars PROVE TypeOK'
  OBVIOUS
<1> USE DEF TypeOK, Stages
<1>1. ASSUME NEW c \in Clients, ReceiveKnown(c) PROVE TypeOK'
  BY <1>1 DEF ReceiveKnown
<1>2. ASSUME NEW c \in Clients, GcRemove(c) PROVE TypeOK'
  BY <1>2 DEF GcRemove
<1>3. ASSUME NEW c \in Clients, NEW w \in Workers, ReceiveNew(c, w) PROVE TypeOK'
  BY <1>3 DEF ReceiveNew
<1>4. ASSUME NEW w \in Workers, Setup(w) PROVE TypeOK'
  <2>1. CASE SetupDrop(w) \/ SetupDial(w)
    BY <2>1 DEF SetupDrop, SetupDial
  <2>3. CASE InsertNew(w)
    BY <2>3 DEF InsertNew
  <2>2. CASE InsertExisting(w) \/ DupClose(w) \/ DupFeed(w) \/ FirstWrite(w)
    BY <2>2 DEF InsertExisting, DupClose, DupFeed, FirstWrite
  <2> QED
    BY <1>4, <2>1, <2>2, <2>3 DEF Setup
<1>5. ASSUME NEW w \in Workers, Relay(w) PROVE TypeOK'
  BY <1>5 DEF Relay, RelayRead, RelayError, RelaySend, Remove, RemoveClose
<1>6. ASSUME NEW w \in Workers, Expire(w) PROVE TypeOK'
  BY <1>6 DEF Expire
<1>7. CASE HotTouch
  BY <1>7 DEF HotTouch
<1>8. CASE HotWrite
  BY <1>8 DEF HotWrite
<1>9. CASE GcCollect
  BY <1>9 DEF GcCollect
<1>10. CASE GcClose
  BY <1>10 DEF GcClose
<1>11. CASE UNCHANGED vars
  BY <1>11 DEF vars
<1> QED
  BY <1>1, <1>2, <1>3, <1>4, <1>5, <1>6, <1>7, <1>8, <1>9, <1>10, <1>11 DEF Next

\* The session manager is type correct.
THEOREM TypeCorrect == SafeSpec => []TypeOK
<1>1. Init => TypeOK
  BY InitInv DEF IInv
<1> QED
  BY <1>1, TypeStep, PTL DEF SafeSpec

-----------------------------------------------------------------------------
(* Steps that only move a goroutine between two points of its program.     *)

\* A step that leaves the table, the sockets and the pointers alone, and
\* moves goroutines neither past nor back to a point the invariant is about.
LEMMA QuietStep ==
  ASSUME IInv, TypeOK', UNCHANGED <<sessions, client, conn, gcVictim>>,
         \A w \in Workers : pc'[w] = "close" => pc[w] = "close" /\ held'[w] = held[w],
         \A w \in Workers : pc[w] = "close" => pc'[w] = "close" /\ held'[w] = held[w],
         \A w \in Workers : pc[w] \in {"dialed", "dup"} <=> pc'[w] \in {"dialed", "dup"},
         \A w \in Workers : pc[w] \in {"first", "relay", "send", "fail"}
                              <=> pc'[w] \in {"first", "relay", "send", "fail"},
         \A w \in Workers : Condemned(w) /\ pc'[w] \in {"lookup", "feed"}
                              => pc[w] \in {"lookup", "feed"}
  PROVE  IInv'
<1> USE DEF IInv
<1>1. \A w \in Workers : Condemned(w)' <=> Condemned(w)
  BY DEF Condemned
<1>2. MapSound'
  BY DEF MapSound, TypeOK
<1>3. NoLeak'
  BY <1>1 DEF NoLeak
<1>4. DialedOpen'
  BY DEF DialedOpen
<1>5. CondemnedGone'
  BY <1>1 DEF CondemnedGone, Mapped
<1> QED
  BY <1>2, <1>3, <1>4, <1>5

LEMMA ReceiveStep ==
  ASSUME IInv, TypeOK', NEW c \in Clients, NEW w \in Workers, ReceiveNew(c, w)
  PROVE  IInv'
<1> USE DEF IInv, ReceiveNew
<1>1. \A v \in Workers : Condemned(v)' <=> Condemned(v)
  BY DEF Condemned, Reusable, TypeOK
<1>2. ~Condemned(w)
  BY DEF Condemned, Reusable
<1>3. MapSound'
  BY DEF MapSound, TypeOK, Reusable
<1>4. NoLeak'
  BY <1>1 DEF NoLeak, TypeOK, Reusable
<1>5. DialedOpen'
  BY DEF DialedOpen, TypeOK
<1>6. CondemnedGone'
  BY <1>1, <1>2 DEF CondemnedGone, Mapped, TypeOK
<1> QED
  BY <1>3, <1>4, <1>5, <1>6

-----------------------------------------------------------------------------
(* handleNewSession.                                                       *)

LEMMA SetupStep ==
  ASSUME IInv, TypeOK', NEW w \in Workers, Setup(w)
  PROVE  IInv'
<1> USE DEF IInv
<1>1. CASE SetupDrop(w)
  BY <1>1, QuietStep DEF SetupDrop, TypeOK
<1>2. CASE SetupDial(w)
  <2> USE <1>2 DEF SetupDial
  <2>1. \A v \in Workers : Condemned(v)' <=> Condemned(v)
    BY DEF Condemned, TypeOK
  <2>2. MapSound'
    BY DEF MapSound, TypeOK
  <2>3. NoLeak' /\ DialedOpen'
    BY <2>1 DEF NoLeak, DialedOpen, TypeOK
  <2>4. CondemnedGone'
    BY <2>1 DEF CondemnedGone, Mapped, TypeOK
  <2> QED
    BY <2>2, <2>3, <2>4
<1>3. CASE InsertNew(w)
  <2> USE <1>3 DEF InsertNew
  <2>1. \A v \in Workers : Condemned(v)' <=> Condemned(v)
    BY DEF Condemned, TypeOK
  <2>2. MapSound'
    BY DEF MapSound, DialedOpen, TypeOK
  <2>3. NoLeak' /\ DialedOpen'
    BY <2>1, NoneAssumption DEF NoLeak, DialedOpen, TypeOK
  <2>4. ~Condemned(w)
    BY DEF CondemnedGone
  <2>5. CondemnedGone'
    BY <2>1, <2>4 DEF CondemnedGone, Mapped, TypeOK
  <2> QED
    BY <2>2, <2>3, <2>5
<1>4. CASE InsertExisting(w)
  BY <1>4, QuietStep DEF InsertExisting, TypeOK
<1>5. CASE DupClose(w)
  <2> USE <1>5 DEF DupClose
  <2>1. \A v \in Workers : Condemned(v)' <=> Condemned(v)
    BY DEF Condemned, TypeOK
  <2>2. MapSound'
    BY DEF MapSound, TypeOK
  <2>3. NoLeak' /\ DialedOpen'
    BY <2>1 DEF NoLeak, DialedOpen, TypeOK
  <2>4. CondemnedGone'
    BY <2>1 DEF CondemnedGone, Mapped, TypeOK
  <2> QED
    BY <2>2, <2>3, <2>4
<1>6. CASE DupFeed(w)
  BY <1>6, QuietStep DEF DupFeed, TypeOK
<1>7. CASE FirstWrite(w)
  BY <1>7, QuietStep DEF FirstWrite, TypeOK
<1> QED
  BY <1>1, <1>2, <1>3, <1>4, <1>5, <1>6, <1>7 DEF Setup

-----------------------------------------------------------------------------
(* The relay, removeSession and the collector.                             *)

LEMMA RelayStep ==
  ASSUME IInv, TypeOK', NEW w \in Workers, Relay(w)
  PROVE  IInv'
<1> USE DEF IInv
<1>1. CASE RelayRead(w)
  BY <1>1, QuietStep DEF RelayRead, TypeOK
<1>2. CASE RelayError(w)
  BY <1>2, QuietStep DEF RelayError, TypeOK
<1>3. CASE RelaySend(w)
  BY <1>3, QuietStep DEF RelaySend, TypeOK
<1>4. CASE Remove(w)
  <2> USE <1>4 DEF Remove
  <2> DEFINE s == sessions[client[w]]
  <2>1. \A v \in Workers : Condemned(v)' <=> Condemned(v) \/ v = s
    BY NoneAssumption DEF Condemned, TypeOK
  <2>2. MapSound'
    BY NoneAssumption DEF MapSound, TypeOK
  <2>3. NoLeak'
    BY <2>1, NoneAssumption DEF NoLeak, TypeOK
  <2>4. DialedOpen'
    BY DEF DialedOpen, TypeOK
  <2>5. CondemnedGone'
    BY <2>1, NoneAssumption DEF CondemnedGone, Mapped, MapSound, TypeOK
  <2> QED
    BY <2>2, <2>3, <2>4, <2>5
<1>5. CASE RemoveClose(w)
  <2> USE <1>5 DEF RemoveClose
  <2>1. \A v \in Workers : Condemned(v) => Condemned(v)' \/ v = held[w]
    BY DEF Condemned, TypeOK
  <2>2. \A v \in Workers : Condemned(v)' => Condemned(v)
    BY NoneAssumption DEF Condemned, TypeOK
  <2>3. held[w] # None => ~Mapped(held[w]) /\ pc[held[w]] \notin {"dialed", "dup"}
    BY DEF CondemnedGone, Condemned, TypeOK
  <2>4. MapSound'
    BY <2>3 DEF MapSound, Mapped, TypeOK
  <2>5. NoLeak'
    BY <2>1, NoneAssumption DEF NoLeak, TypeOK
  <2>6. DialedOpen'
    BY <2>3 DEF DialedOpen, TypeOK
  <2>7. CondemnedGone'
    BY <2>2 DEF CondemnedGone, Mapped, TypeOK
  <2> QED
    BY <2>4, <2>5, <2>6, <2>7
<1> QED
  BY <1>1, <1>2, <1>3, <1>4, <1>5 DEF Relay

LEMMA GcRemoveStep ==
  ASSUME IInv, TypeOK', NEW c \in Clients, GcRemove(c)
  PROVE  IInv'
<1> USE DEF IInv, GcRemove
<1>1. \A v \in Workers : Condemned(v)' <=> Condemned(v) \/ v = sessions[c]
  BY NoneAssumption DEF Condemned, TypeOK
<1>2. MapSound'
  BY NoneAssumption DEF MapSound, TypeOK
<1>3. NoLeak'
  BY <1>1, NoneAssumption DEF NoLeak, TypeOK
<1>4. DialedOpen'
  BY DEF DialedOpen
<1>5. CondemnedGone'
  BY <1>1, NoneAssumption DEF CondemnedGone, Mapped, MapSound, TypeOK
<1> QED
  BY <1>2, <1>3, <1>4, <1>5

LEMMA GcCloseStep ==
  ASSUME IInv, TypeOK', GcClose
  PROVE  IInv'
<1> USE DEF IInv, GcClose
<1>1. \A v \in Workers : Condemned(v) => Condemned(v)' \/ v = gcVictim
  BY DEF Condemned
<1>2. \A v \in Workers : Condemned(v)' => Condemned(v)
  BY NoneAssumption DEF Condemned
<1>3. ~Mapped(gcVictim) /\ pc[gcVictim] \notin {"dialed", "dup"}
  BY DEF CondemnedGone, Condemned, TypeOK
<1>4. MapSound'
  BY <1>3 DEF MapSound, Mapped, TypeOK
<1>5. NoLeak'
  BY <1>1 DEF NoLeak, TypeOK
<1>6. DialedOpen'
  BY <1>3 DEF DialedOpen, TypeOK
<1>7. CondemnedGone'
  BY <1>2 DEF CondemnedGone, Mapped
<1> QED
  BY <1>4, <1>5, <1>6, <1>7

LEMMA InvStep == IInv /\ [Next]_vars => IInv'
<1> SUFFICES ASSUME IInv, [Next]_vars PROVE IInv'
  OBVIOUS
<1>1. TypeOK /\ TypeOK'
  BY TypeStep DEF IInv
<1>2. ASSUME NEW c \in Clients, ReceiveKnown(c) PROVE IInv'
  BY <1>1, <1>2, QuietStep DEF ReceiveKnown
<1>3. ASSUME NEW c \in Clients, GcRemove(c) PROVE IInv'
  BY <1>1, <1>3, GcRemoveStep
<1>4. ASSUME NEW c \in Clients, NEW w \in Workers, ReceiveNew(c, w) PROVE IInv'
  BY <1>1, <1>4, ReceiveStep
<1>5. ASSUME NEW w \in Workers, Setup(w) PROVE IInv'
  BY <1>1, <1>5, SetupStep
<1>6. ASSUME NEW w \in Workers, Relay(w) PROVE IInv'
  BY <1>1, <1>6, RelayStep
<1>7. ASSUME NEW w \in Workers, Expire(w) PROVE IInv'
  BY <1>1, <1>7, QuietStep DEF Expire
<1>8. CASE HotTouch
  BY <1>1, <1>8, QuietStep DEF HotTouch
<1>9. CASE HotWrite
  BY <1>1, <1>9, QuietStep DEF HotWrite
<1>10. CASE GcCollect
  BY <1>1, <1>10, QuietStep DEF GcCollect
<1>11. CASE GcClose
  BY <1>1, <1>11, GcCloseStep
<1>12. CASE UNCHANGED vars
  BY <1>1, <1>12, QuietStep DEF vars
<1> QED
  BY <1>2, <1>3, <1>4, <1>5, <1>6, <1>7, <1>8, <1>9, <1>10, <1>11, <1>12 DEF Next

LEMMA Invariance == SafeSpec => []IInv
BY InitInv, InvStep, PTL DEF SafeSpec

\* Whatever the interleaving, the table only leads to live sessions: their
\* sockets are open and their goroutines still there to remove them.
THEOREM TableSound == SafeSpec => []MapSound
<1>1. IInv => MapSound
  BY DEF IInv
<1> QED
  BY <1>1, Invariance, PTL

\* Whatever the interleaving, no backend socket is left open and unreachable.
THEOREM NoSocketLeaks == SafeSpec => []NoLeak
<1>1. IInv => NoLeak
  BY DEF IInv
<1> QED
  BY <1>1, Invariance, PTL

-----------------------------------------------------------------------------
(* Refinement of ConnLife.                                                 *)

\* A step that changes none of what the refinement mapping reads stutters.
LEMMA QuietRefines ==
  ASSUME UNCHANGED <<sessions, client, conn>>,
         \A w \in Workers : pc'[w] \in {"dialed", "dup"} <=> pc[w] \in {"dialed", "dup"}
  PROVE  UNCHANGED Life!vars
BY DEF Life!vars, SocketStage, SocketOwner

\* A goroutine's name is given out again only when its socket is closed.
LEMMA ReceiveRefines ==
  ASSUME IInv, NEW c \in Clients, NEW w \in Workers, ReceiveNew(c, w)
  PROVE  UNCHANGED Life!vars
<1> USE DEF ReceiveNew, Reusable, IInv, TypeOK
<1>1. \A v \in Workers : SocketStage(v)' = SocketStage(v)
  BY DEF SocketStage
<1>2. \A v \in Workers : SocketOwner(v)' = SocketOwner(v)
  BY DEF SocketOwner
<1> QED
  BY <1>1, <1>2 DEF Life!vars

\* The stage and owner functions change at one socket only.
LEMMA OneSocket ==
  ASSUME NEW w \in Workers, NEW st, NEW ow,
         SocketStage(w)' = st, SocketOwner(w)' = ow,
         \A v \in Workers \ {w} : /\ SocketStage(v)' = SocketStage(v)
                                  /\ SocketOwner(v)' = SocketOwner(v)
  PROVE  /\ [v \in Workers |-> SocketStage(v)]'
              = [[v \in Workers |-> SocketStage(v)] EXCEPT ![w] = st]
         /\ [v \in Workers |-> SocketOwner(v)]'
              = [[v \in Workers |-> SocketOwner(v)] EXCEPT ![w] = ow]
OBVIOUS

LEMMA SetupRefines ==
  ASSUME IInv, NEW w \in Workers, Setup(w)
  PROVE  [Life!Next]_(Life!vars)
<1> USE DEF IInv, TypeOK
<1>1. CASE SetupDrop(w)
  BY <1>1, QuietRefines DEF SetupDrop
<1>2. CASE SetupDial(w)
  <2> USE <1>2 DEF SetupDial
  <2>1. conn[w] # "open"
    BY NoneAssumption DEF NoLeak, MapSound, CondemnedGone
  <2>2. SocketStage(w) = "none" /\ SocketStage(w)' = "dialed" /\ SocketOwner(w)' = client[w]
    BY <2>1 DEF SocketStage, SocketOwner
  <2>3. \A v \in Workers \ {w} : /\ SocketStage(v)' = SocketStage(v)
                                 /\ SocketOwner(v)' = SocketOwner(v)
    BY DEF SocketStage, SocketOwner
  <2>4. Life!Dial(w, client[w])
    BY <2>2, <2>3, OneSocket DEF Life!Dial
  <2> QED
    BY <2>4 DEF Life!Next
<1>3. CASE InsertNew(w)
  <2> USE <1>3 DEF InsertNew
  <2>1. conn[w] = "open"
    BY DEF DialedOpen
  <2>2. /\ SocketStage(w) = "dialed" /\ SocketStage(w)' = "bound"
        /\ SocketOwner(w) = client[w] /\ SocketOwner(w)' = SocketOwner(w)
    BY <2>1 DEF SocketStage, SocketOwner
  <2>3. \A v \in Workers \ {w} : /\ SocketStage(v)' = SocketStage(v)
                                 /\ SocketOwner(v)' = SocketOwner(v)
    BY NoneAssumption DEF SocketStage, SocketOwner
  <2>4. \A v \in Workers : SocketOwner(v) = SocketOwner(w) => SocketStage(v) # "bound"
    BY <2>1, NoneAssumption DEF SocketStage, SocketOwner
  <2>5. Life!Bind(w)
    BY <2>2, <2>3, <2>4, OneSocket DEF Life!Bind
  <2> QED
    BY <2>5 DEF Life!Next
<1>4. CASE InsertExisting(w)
  BY <1>4, QuietRefines DEF InsertExisting
<1>5. CASE DupClose(w)
  <2> USE <1>5 DEF DupClose
  <2>1. SocketStage(w) = "dialed" /\ SocketStage(w)' = "none" /\ SocketOwner(w)' = None
    BY DEF SocketStage, SocketOwner, DialedOpen
  <2>2. \A v \in Workers \ {w} : /\ SocketStage(v)' = SocketStage(v)
                                 /\ SocketOwner(v)' = SocketOwner(v)
    BY DEF SocketStage, SocketOwner
  <2>3. Life!Discard(w)
    BY <2>1, <2>2, OneSocket DEF Life!Discard
  <2> QED
    BY <2>3 DEF Life!Next
<1>6. CASE DupFeed(w)
  BY <1>6, QuietRefines DEF DupFeed
<1>7. CASE FirstWrite(w)
  BY <1>7, QuietRefines DEF FirstWrite
<1> QED
  BY <1>1, <1>2, <1>3, <1>4, <1>5, <1>6, <1>7 DEF Setup

\* Taking session s out of the table detaches its socket.
LEMMA DetachRefines ==
  ASSUME IInv, NEW c \in Clients, UNCHANGED <<client, conn>>,
         sessions' = [sessions EXCEPT ![c] = None],
         \A w \in Workers : pc'[w] \in {"dialed", "dup"} <=> pc[w] \in {"dialed", "dup"}
  PROVE  [Life!Next]_(Life!vars)
<1> USE DEF IInv, TypeOK
<1>1. CASE sessions[c] = None
  <2>1. sessions' = sessions
    BY <1>1
  <2> QED
    BY <2>1, QuietRefines
<1>2. CASE sessions[c] # None
  <2>1. PICK s \in Workers : /\ s = sessions[c]
                             /\ client[s] = c
                             /\ conn[s] = "open"
                             /\ pc[s] \notin {"dialed", "dup"}
    BY <1>2 DEF MapSound
  <2>2. /\ SocketStage(s) = "bound" /\ SocketStage(s)' = "detached"
        /\ SocketOwner(s)' = SocketOwner(s)
    BY <2>1, NoneAssumption DEF SocketStage, SocketOwner
  <2>3. \A v \in Workers \ {s} : /\ SocketStage(v)' = SocketStage(v)
                                 /\ SocketOwner(v)' = SocketOwner(v)
    BY <2>1, NoneAssumption DEF SocketStage, SocketOwner
  <2>4. Life!Detach(s)
    <3>1. /\ [v \in Workers |-> SocketStage(v)]'
              = [[v \in Workers |-> SocketStage(v)] EXCEPT ![s] = "detached"]
          /\ [v \in Workers |-> SocketOwner(v)]'
              = [[v \in Workers |-> SocketOwner(v)] EXCEPT ![s] = SocketOwner(s)]
      BY <2>2, <2>3, OneSocket
    <3> QED
      BY <2>2, <3>1 DEF Life!Detach
  <2> QED
    BY <2>1, <2>4 DEF Life!Next
<1> QED
  BY <1>1, <1>2

\* Closing a session that was taken out of the table ends its socket's life;
\* closing it a second time changes nothing.
LEMMA CloseRefines ==
  ASSUME IInv, NEW s \in Workers, Condemned(s), UNCHANGED <<sessions, client>>,
         conn' = [conn EXCEPT ![s] = "closed"],
         \A w \in Workers : pc'[w] \in {"dialed", "dup"} <=> pc[w] \in {"dialed", "dup"}
  PROVE  [Life!Next]_(Life!vars)
<1> USE DEF IInv, TypeOK
<1>1. CASE conn[s] # "open"
  <2>1. conn' = conn
    BY <1>1
  <2> QED
    BY <2>1, QuietRefines
<1>2. CASE conn[s] = "open"
  <2>1. /\ SocketStage(s) = "detached" /\ SocketStage(s)' = "none"
        /\ SocketOwner(s)' = None
    BY <1>2 DEF SocketStage, SocketOwner, CondemnedGone, Mapped
  <2>2. \A v \in Workers \ {s} : /\ SocketStage(v)' = SocketStage(v)
                                 /\ SocketOwner(v)' = SocketOwner(v)
    BY DEF SocketStage, SocketOwner
  <2>3. Life!Close(s)
    BY <2>1, <2>2, OneSocket DEF Life!Close
  <2> QED
    BY <2>3 DEF Life!Next
<1> QED
  BY <1>1, <1>2

LEMMA StepRefines == IInv /\ [Next]_vars => [Life!Next]_(Life!vars)
<1> SUFFICES ASSUME IInv, [Next]_vars PROVE [Life!Next]_(Life!vars)
  OBVIOUS
<1>0. TypeOK
  BY DEF IInv
<1>1. ASSUME NEW c \in Clients, ReceiveKnown(c) PROVE [Life!Next]_(Life!vars)
  BY <1>1, QuietRefines DEF ReceiveKnown
<1>2. ASSUME NEW c \in Clients, GcRemove(c) PROVE [Life!Next]_(Life!vars)
  BY <1>2, DetachRefines DEF GcRemove
<1>3. ASSUME NEW c \in Clients, NEW w \in Workers, ReceiveNew(c, w)
      PROVE  [Life!Next]_(Life!vars)
  BY <1>3, ReceiveRefines
<1>4. ASSUME NEW w \in Workers, Setup(w) PROVE [Life!Next]_(Life!vars)
  BY <1>4, SetupRefines
<1>5. ASSUME NEW w \in Workers, Relay(w) PROVE [Life!Next]_(Life!vars)
  <2>1. CASE RelayRead(w) \/ RelayError(w) \/ RelaySend(w)
    BY <1>0, <2>1, QuietRefines DEF RelayRead, RelayError, RelaySend, TypeOK
  <2>2. CASE Remove(w)
    <3>1. client[w] \in Clients
      BY <1>0 DEF TypeOK
    <3> QED
      BY <1>0, <2>2, <3>1, DetachRefines DEF Remove, TypeOK
  <2>3. CASE RemoveClose(w) /\ held[w] = None
    BY <1>0, <2>3, QuietRefines DEF RemoveClose, TypeOK
  <2>4. CASE RemoveClose(w) /\ held[w] # None
    <3>1. held[w] \in Workers /\ Condemned(held[w])
      BY <1>0, <2>4 DEF RemoveClose, Condemned, TypeOK
    <3> QED
      BY <1>0, <2>4, <3>1, CloseRefines DEF RemoveClose, TypeOK
  <2> QED
    BY <1>5, <2>1, <2>2, <2>3, <2>4 DEF Relay
<1>6. ASSUME NEW w \in Workers, Expire(w) PROVE [Life!Next]_(Life!vars)
  BY <1>6, QuietRefines DEF Expire
<1>7. CASE HotTouch
  BY <1>7, QuietRefines DEF HotTouch
<1>8. CASE HotWrite
  BY <1>8, QuietRefines DEF HotWrite
<1>9. CASE GcCollect
  BY <1>9, QuietRefines DEF GcCollect
<1>10. CASE GcClose
  <2>1. gcVictim \in Workers /\ Condemned(gcVictim)
    BY <1>0, <1>10 DEF GcClose, Condemned, TypeOK
  <2> QED
    BY <1>10, <2>1, CloseRefines DEF GcClose
<1>11. CASE UNCHANGED vars
  BY <1>11, QuietRefines DEF vars
<1> QED
  BY <1>1, <1>2, <1>3, <1>4, <1>5, <1>6, <1>7, <1>8, <1>9, <1>10, <1>11 DEF Next

\* The session manager keeps the safety half of the promise ConnLife states:
\* a socket serves at most once and only one client, no client is served by
\* two, and a socket is closed only once it cannot be found.
THEOREM ImplementsConnLife == SafeSpec => SocketLifeSafe
<1>1. Init => Life!Init
  BY DEF Init, Life!Init, SocketStage, SocketOwner
<1> QED
  BY <1>1, Invariance, StepRefines, PTL DEF SafeSpec, SocketLifeSafe, Life!SafeSpec
=============================================================================
