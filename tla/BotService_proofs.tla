-------------------------- MODULE BotService_proofs --------------------------
(***************************************************************************)
(* For any number of updates, messages, workers and crashes: what an       *)
(* update asks for is done once in a life of the process, a message is     *)
(* busy exactly while an operation for it is under way, and an update that *)
(* the messenger has forgotten was handled.                                *)
(***************************************************************************)
EXTENDS BotService, SequenceTheorems, FiniteSetTheorems, TLAPS

\* The tasks that do what an update asks for, and those that also keep a
\* message busy meanwhile; the others are parts of such a task.
IsOperation(t) == t.kind \in {"operate", "reply", "restart"}
OfMessage(t) == t.kind \in {"operate", "restart"}

Queued(s) == {s[i] : i \in {k \in 1..Len(s) : IsOperation(s[k])}}
Begun(R) == {r \in R : IsOperation(r.task)}
Live == Queued(queue) \cup {r.task : r \in Begun(running)}
Unrun == Queued(queue) \cup {r.task : r \in {s \in Begun(running) : s.pc = "begin"}}

\* The next update the main loop will take, now or after a request.
NextUp == IF batch # <<>> THEN batch[1] ELSE ConfirmedBy(offset) + 1

\* The main loop handles the updates one after the other.
InSequence ==
  /\ main.pc = "poll" => batch = <<>>
  /\ \A i \in 1..Len(batch) : batch[i] = batch[1] + i - 1
  /\ 1..NextUp - 1 \subseteq handled

OncePerUpdate(s) ==
  \A i, j \in 1..Len(s) : IsOperation(s[i]) /\ IsOperation(s[j]) /\ s[i].upd = s[j].upd => i = j

\* No two of the operations under way are for the same update.
OneTaskEach ==
  /\ OncePerUpdate(queue)
  /\ \A r, s \in Begun(running) : r.task.upd = s.task.upd => r = s
  /\ \A t \in Queued(queue), r \in Begun(running) : t.upd # r.task.upd

\* An operation that has begun and not ended is one that has a message to show
\* its result in, unless it is still to run.
OnlyMessagesWait == \A r \in running : r.pc # "begin" => OfMessage(r.task)

\* What has been asked for is behind the main loop, and is either a dialog or
\* a task.
AskedBefore ==
  /\ pending < NextUp
  /\ \A t \in Live : t.upd < NextUp /\ t.upd # pending

\* What is still to be done in this life was done in former ones at most.
DueOnce ==
  \A u \in Ids : u >= NextUp \/ u = pending \/ (\E t \in Unrun : t.upd = u) => ran[u] <= crashes

\* BUSY and the operations that keep messages busy.
BusySound ==
  /\ \A t \in Live : OfMessage(t) => sent[t.upd].kind = t.kind /\ sent[t.upd].msg \in BUSY
  /\ \A m \in BUSY : \E t \in Live : OfMessage(t) /\ sent[t.upd].msg = m
  /\ \A t, s \in Live : OfMessage(t) /\ OfMessage(s) /\ sent[t.upd].msg = sent[s.upd].msg => t = s

ServiceInv ==
  /\ TypeOK /\ ConfirmedWereHandled /\ InSequence
  /\ OneTaskEach /\ OnlyMessagesWait /\ AskedBefore
  /\ OncePerLife /\ DueOnce
  /\ BusySound /\ ResultShown

-----------------------------------------------------------------------------
(* The queue of the pool.                                                  *)

LEMMA QueuedIsTasks ==
  ASSUME NEW s \in Seq(Tasks)
  PROVE  /\ Queued(s) \subseteq Tasks
         /\ \A t \in Queued(s) : IsOperation(t)
<1>1. \A i \in 1..Len(s) : s[i] \in Tasks
  BY ElementOfSeq
<1> QED
  BY <1>1 DEF Queued

\* Submitting an operation for an update that has none in the queue.
LEMMA QueuedAppend ==
  ASSUME NEW s \in Seq(Tasks), NEW t \in Tasks, IsOperation(t)
  PROVE  /\ Queued(Append(s, t)) = Queued(s) \cup {t}
         /\ OncePerUpdate(s) /\ (\A x \in Queued(s) : x.upd # t.upd)
              => OncePerUpdate(Append(s, t))
<1>1. /\ Len(s) \in Nat /\ Len(Append(s, t)) = Len(s) + 1
      /\ \A i \in 1..Len(s) : Append(s, t)[i] = s[i]
      /\ Append(s, t)[Len(s) + 1] = t
  BY AppendProperties, LenProperties
<1>2. \A i \in 1..Len(Append(s, t)) : i \in 1..Len(s) \/ i = Len(s) + 1
  BY <1>1
<1>3. \A i \in 1..Len(s) : i \in 1..Len(Append(s, t))
  BY <1>1
<1>4. Len(s) + 1 \in 1..Len(Append(s, t))
  BY <1>1
<1>5. Queued(Append(s, t)) = Queued(s) \cup {t}
  <2>1. ASSUME NEW x \in Queued(Append(s, t)) PROVE x \in Queued(s) \cup {t}
    <3>1. PICK i \in 1..Len(Append(s, t)) : IsOperation(Append(s, t)[i]) /\ x = Append(s, t)[i]
      BY DEF Queued
    <3> QED
      BY <1>1, <1>2, <3>1 DEF Queued
  <2>2. ASSUME NEW x \in Queued(s) PROVE x \in Queued(Append(s, t))
    <3>1. PICK i \in 1..Len(s) : IsOperation(s[i]) /\ x = s[i]
      BY DEF Queued
    <3> QED
      BY <1>1, <1>3, <3>1 DEF Queued
  <2>3. t \in Queued(Append(s, t))
    BY <1>1, <1>4 DEF Queued
  <2> QED
    BY <2>1, <2>2, <2>3
<1>6. ASSUME OncePerUpdate(s), \A x \in Queued(s) : x.upd # t.upd
      PROVE  OncePerUpdate(Append(s, t))
  <2> SUFFICES ASSUME NEW i \in 1..Len(Append(s, t)), NEW j \in 1..Len(Append(s, t)),
                      IsOperation(Append(s, t)[i]), IsOperation(Append(s, t)[j]),
                      Append(s, t)[i].upd = Append(s, t)[j].upd
               PROVE  i = j
    BY DEF OncePerUpdate
  <2>1. \A k \in 1..Len(s) : IsOperation(s[k]) => s[k].upd # t.upd
    BY <1>6 DEF Queued
  <2>2. CASE i \in 1..Len(s) /\ j \in 1..Len(s)
    BY <1>1, <1>6, <2>2 DEF OncePerUpdate
  <2>3. CASE i = Len(s) + 1 \/ j = Len(s) + 1
    BY <1>1, <1>2, <2>1, <2>3
  <2> QED
    BY <1>2, <2>2, <2>3
<1> QED
  BY <1>5, <1>6

\* A worker takes the first task.
LEMMA QueuedTail ==
  ASSUME NEW s \in Seq(Tasks), s # <<>>, OncePerUpdate(s)
  PROVE  /\ Head(s) \in Tasks /\ Tail(s) \in Seq(Tasks)
         /\ IsOperation(Head(s)) =>
              /\ Head(s) \in Queued(s)
              /\ \A x \in Queued(Tail(s)) : x.upd # Head(s).upd
         /\ Queued(s) = Queued(Tail(s)) \cup (IF IsOperation(Head(s)) THEN {Head(s)} ELSE {})
         /\ OncePerUpdate(Tail(s))
<1>1. /\ Len(s) \in Nat \ {0} /\ Head(s) = s[1] /\ Tail(s) \in Seq(Tasks)
      /\ Len(Tail(s)) = Len(s) - 1
      /\ \A i \in 1..Len(Tail(s)) : Tail(s)[i] = s[i + 1]
  BY HeadTailProperties, LenProperties
<1>2. \A i \in 1..Len(s) : i = 1 \/ (i - 1 \in 1..Len(Tail(s)) /\ (i - 1) + 1 = i)
  BY <1>1
<1>3. 1 \in 1..Len(s) /\ \A i \in 1..Len(Tail(s)) : i + 1 \in 1..Len(s) /\ i + 1 # 1
  BY <1>1
<1>4. s[1] \in Tasks
  BY <1>3, ElementOfSeq
<1>5. \A x \in Queued(Tail(s)) : \E i \in 1..Len(Tail(s)) : IsOperation(s[i + 1]) /\ x = s[i + 1]
  BY <1>1 DEF Queued
<1>6. IsOperation(Head(s)) =>
        Head(s) \in Queued(s) /\ \A x \in Queued(Tail(s)) : x.upd # Head(s).upd
  <2>1. IsOperation(s[1]) => s[1] \in Queued(s)
    BY <1>3 DEF Queued
  <2>2. ASSUME IsOperation(s[1]), NEW x \in Queued(Tail(s)) PROVE x.upd # s[1].upd
    <3>1. PICK i \in 1..Len(Tail(s)) : IsOperation(s[i + 1]) /\ x = s[i + 1]
      BY <1>5
    <3> QED
      BY <1>3, <2>2, <3>1 DEF OncePerUpdate
  <2> QED
    BY <1>1, <2>1, <2>2
<1>7. Queued(s) = Queued(Tail(s)) \cup (IF IsOperation(Head(s)) THEN {Head(s)} ELSE {})
  <2>1. ASSUME NEW x \in Queued(s), x # s[1] PROVE x \in Queued(Tail(s))
    <3>1. PICK i \in 1..Len(s) : IsOperation(s[i]) /\ x = s[i]
      BY DEF Queued
    <3>2. i - 1 \in 1..Len(Tail(s)) /\ Tail(s)[i - 1] = s[i]
      BY <1>1, <1>2, <2>1, <3>1
    <3> QED
      BY <3>1, <3>2 DEF Queued
  <2>2. ASSUME NEW x \in Queued(Tail(s)) PROVE x \in Queued(s)
    <3>1. PICK i \in 1..Len(Tail(s)) : IsOperation(s[i + 1]) /\ x = s[i + 1]
      BY <1>5
    <3> QED
      BY <1>3, <3>1 DEF Queued
  <2>3. s[1] \in Queued(s) <=> IsOperation(s[1]) \/ s[1] \in Queued(Tail(s))
    <3>1. IsOperation(s[1]) => s[1] \in Queued(s)
      BY <1>3 DEF Queued
    <3>2. s[1] \in Queued(s) => IsOperation(s[1])
      BY DEF Queued
    <3> QED
      BY <2>2, <3>1, <3>2
  <2> QED
    BY <1>1, <2>1, <2>2, <2>3
<1>8. OncePerUpdate(Tail(s))
  <2> SUFFICES ASSUME NEW i \in 1..Len(Tail(s)), NEW j \in 1..Len(Tail(s)),
                      IsOperation(Tail(s)[i]), IsOperation(Tail(s)[j]),
                      Tail(s)[i].upd = Tail(s)[j].upd
               PROVE  i = j
    BY DEF OncePerUpdate
  <2>1. i + 1 = j + 1
    BY <1>1, <1>3 DEF OncePerUpdate
  <2> QED
    BY <1>1, <2>1
<1> QED
  BY <1>1, <1>4, <1>6, <1>7, <1>8

\* Tasks that are parts of others do not count.
LEMMA QueuedParts ==
  ASSUME NEW s \in Seq(Tasks), NEW c \in Seq(Tasks),
         \A i \in 1..Len(c) : ~ IsOperation(c[i])
  PROVE  /\ s \o c \in Seq(Tasks)
         /\ Queued(s \o c) = Queued(s)
         /\ OncePerUpdate(s) => OncePerUpdate(s \o c)
<1>1. /\ s \o c \in Seq(Tasks)
      /\ Len(s) \in Nat /\ Len(c) \in Nat /\ Len(s \o c) = Len(s) + Len(c)
      /\ \A i \in 1..Len(s) + Len(c) : (s \o c)[i] = IF i <= Len(s) THEN s[i] ELSE c[i - Len(s)]
  BY ConcatProperties, LenProperties
<1>2. \A i \in 1..Len(s \o c) :
        IsOperation((s \o c)[i]) => i \in 1..Len(s) /\ (s \o c)[i] = s[i]
  <2> SUFFICES ASSUME NEW i \in 1..Len(s \o c), IsOperation((s \o c)[i])
               PROVE  i \in 1..Len(s) /\ (s \o c)[i] = s[i]
    OBVIOUS
  <2>1. CASE i <= Len(s)
    BY <1>1, <2>1
  <2>2. CASE ~ (i <= Len(s))
    <3>1. i - Len(s) \in 1..Len(c) /\ (s \o c)[i] = c[i - Len(s)]
      BY <1>1, <2>2
    <3> QED
      BY <3>1
  <2> QED
    BY <2>1, <2>2
<1>3. \A i \in 1..Len(s) : i \in 1..Len(s \o c) /\ (s \o c)[i] = s[i]
  BY <1>1
<1>4. Queued(s \o c) = Queued(s)
  <2>1. ASSUME NEW x \in Queued(s) PROVE x \in Queued(s \o c)
    <3>1. PICK i \in 1..Len(s) : IsOperation(s[i]) /\ x = s[i]
      BY DEF Queued
    <3> QED
      BY <1>3, <3>1 DEF Queued
  <2>2. ASSUME NEW x \in Queued(s \o c) PROVE x \in Queued(s)
    <3>1. PICK i \in 1..Len(s \o c) : IsOperation((s \o c)[i]) /\ x = (s \o c)[i]
      BY DEF Queued
    <3> QED
      BY <1>2, <3>1 DEF Queued
  <2> QED
    BY <2>1, <2>2
<1>5. OncePerUpdate(s) => OncePerUpdate(s \o c)
  BY <1>2 DEF OncePerUpdate
<1> QED
  BY <1>1, <1>4, <1>5

\* op_status and op_restart_services submit such tasks.
LEMMA PartsAreTasks ==
  ASSUME NEW u \in Ids
  PROVE  /\ ProbeTasks(u) \in Seq(Tasks) /\ ChildTasks(u) \in Seq(Tasks)
         /\ \A i \in 1..Len(ProbeTasks(u)) : ~ IsOperation(ProbeTasks(u)[i])
         /\ \A i \in 1..Len(ChildTasks(u)) : ~ IsOperation(ChildTasks(u)[i])
<1> USE BotServiceAssumption DEF BotServiceAssumption
<1>1. \A i \in 1..Probes : Task("probe", u, i) \in Tasks
  BY DEF Task, Tasks, Ids
<1>2. \A i \in 1..Services : Task("child", u, i) \in Tasks
  BY DEF Task, Tasks, Ids
<1>3. ProbeTasks(u) \in [1..Probes -> Tasks] /\ ChildTasks(u) \in [1..Services -> Tasks]
  BY <1>1, <1>2 DEF ProbeTasks, ChildTasks
<1>4. ProbeTasks(u) \in Seq(Tasks) /\ ChildTasks(u) \in Seq(Tasks)
  BY <1>3, SeqDef
<1>5. Len(ProbeTasks(u)) = Probes /\ Len(ChildTasks(u)) = Services
  BY <1>3, <1>4, LenProperties
<1> QED
  BY <1>4, <1>5 DEF ProbeTasks, ChildTasks, Task, IsOperation

-----------------------------------------------------------------------------
(* What the steps have in common.                                          *)

LEMMA ServiceInitInv == Init => ServiceInv
<1> SUFFICES ASSUME Init PROVE ServiceInv
  OBVIOUS
<1> USE BotServiceAssumption DEF BotServiceAssumption
<1>1. TypeOK
  BY DEF Init, TypeOK, AtPoll, Ids
<1>2. Live = {} /\ Unrun = {} /\ Queued(queue) = {} /\ Begun(running) = {}
  BY DEF Init, Live, Unrun, Queued, Begun
<1>3. NextUp = 1
  BY DEF Init, NextUp, ConfirmedBy
<1>4. ConfirmedWereHandled /\ InSequence
  BY <1>3 DEF Init, ConfirmedWereHandled, InSequence
<1>5. OneTaskEach /\ OnlyMessagesWait
  BY <1>2 DEF Init, OneTaskEach, OncePerUpdate, OnlyMessagesWait
<1>6. AskedBefore
  BY <1>2, <1>3 DEF Init, AskedBefore
<1>7. OncePerLife /\ DueOnce
  BY DEF Init, OncePerLife, DueOnce
<1>8. BusySound /\ ResultShown
  BY <1>2 DEF Init, BusySound, ResultShown
<1> QED
  BY <1>1, <1>4, <1>5, <1>6, <1>7, <1>8 DEF ServiceInv

NextUpInRange == NextUp \in 1..MaxUpdates + 1

LEMMA NextUpTyped == TypeOK => NextUpInRange
<1> SUFFICES ASSUME TypeOK PROVE NextUp \in 1..MaxUpdates + 1
  BY DEF NextUpInRange
<1> USE BotServiceAssumption DEF BotServiceAssumption
<1>1. CASE batch # <<>>
  <2>1. batch[1] \in Ids
    BY <1>1, ElementOfSeq, LenProperties, EmptySeq DEF TypeOK
  <2> QED
    BY <1>1, <2>1 DEF TypeOK, NextUp, Ids
<1>2. CASE batch = <<>>
  BY <1>2 DEF TypeOK, NextUp, ConfirmedBy, Ids
<1> QED
  BY <1>1, <1>2

LEMMA LiveTasks ==
  ASSUME TypeOK
  PROVE  /\ Live \subseteq Tasks /\ Unrun \subseteq Live
         /\ \A t \in Live : t.upd \in Ids /\ IsOperation(t)
<1>1. Queued(queue) \subseteq Tasks /\ \A t \in Queued(queue) : IsOperation(t)
  BY QueuedIsTasks DEF TypeOK
<1>2. \A r \in Begun(running) : r.task \in Tasks /\ IsOperation(r.task)
  BY DEF TypeOK, Begun
<1>3. \A t \in Tasks : t.upd \in Ids
  BY DEF Tasks
<1> QED
  BY <1>1, <1>2, <1>3 DEF Live, Unrun

\* No two operations under way are for one update, wherever they are.
LEMMA LiveApart ==
  ASSUME OneTaskEach
  PROVE  \A t, s \in Live : t.upd = s.upd => t = s
<1>1. \A t, s \in Queued(queue) : t.upd = s.upd => t = s
  BY DEF OneTaskEach, OncePerUpdate, Queued
<1> QED
  BY <1>1 DEF OneTaskEach, Live

\* The main loop takes an update: it is the next one, and the one after it
\* becomes the next.
LEMMA LoopGoesOn ==
  ASSUME ServiceInv, NEW u, NEW ok, batch # <<>>, NextUpdate(u, ok),
         confirmed' = confirmed, main'.pc = "poll" => batch' = <<>>
  PROVE  /\ u \in Ids /\ u = NextUp /\ NextUp' = u + 1
         /\ batch' \in Seq(Ids) /\ offset' \in 0..MaxUpdates + 1 /\ handled' \subseteq Ids
         /\ InSequence' /\ ConfirmedWereHandled'
<1> USE BotServiceAssumption DEF BotServiceAssumption
<1>0. TypeOK /\ InSequence /\ ConfirmedWereHandled
  BY DEF ServiceInv
<1>1. /\ batch \in Seq(Ids) /\ Len(batch) \in Nat \ {0} /\ Head(batch) = batch[1]
      /\ Tail(batch) \in Seq(Ids) /\ Len(Tail(batch)) = Len(batch) - 1
      /\ \A i \in 1..Len(Tail(batch)) : Tail(batch)[i] = batch[i + 1]
  BY <1>0, HeadTailProperties, LenProperties, EmptySeq DEF TypeOK
<1>2. u = batch[1] /\ u \in Ids /\ u = NextUp /\ u \in Nat
  <2>1. batch[1] \in Ids
    BY <1>1, ElementOfSeq
  <2> QED
    BY <1>1, <2>1 DEF NextUpdate, NextUp, Ids
<1>3. offset' = u + 1 /\ batch' = Tail(batch) /\ handled' = handled \cup {u}
  BY DEF NextUpdate
<1>4. \A i \in 1..Len(batch') : batch'[i] = u + i
  <2> SUFFICES ASSUME NEW i \in 1..Len(batch') PROVE batch'[i] = u + i
    OBVIOUS
  <2>1. i + 1 \in 1..Len(batch) /\ batch'[i] = batch[i + 1]
    BY <1>1, <1>3
  <2>2. batch[i + 1] = batch[1] + (i + 1) - 1
    BY <1>0, <2>1 DEF InSequence
  <2> QED
    BY <1>1, <1>2, <1>3, <2>1, <2>2
<1>5. NextUp' = u + 1
  <2>1. CASE batch' = <<>>
    BY <1>2, <1>3, <2>1 DEF NextUp, ConfirmedBy
  <2>2. CASE batch' # <<>>
    <3>1. 1 \in 1..Len(batch')
      BY <1>1, <1>3, <2>2, EmptySeq
    <3> QED
      BY <1>4, <2>2, <3>1 DEF NextUp
  <2> QED
    BY <2>1, <2>2
<1>6. InSequence'
  <2>1. \A i \in 1..Len(batch') : batch'[i] = batch'[1] + i - 1
    <3> SUFFICES ASSUME NEW i \in 1..Len(batch') PROVE batch'[i] = batch'[1] + i - 1
      OBVIOUS
    <3>1. 1 \in 1..Len(batch')
      BY <1>1, <1>3
    <3>2. batch'[1] = u + 1 /\ batch'[i] = u + i
      BY <1>4, <3>1
    <3> QED
      BY <1>1, <1>2, <1>3, <3>2
  <2>2. 1..NextUp' - 1 \subseteq handled'
    BY <1>0, <1>2, <1>3, <1>5 DEF InSequence
  <2> QED
    BY <2>1, <2>2 DEF InSequence
<1>7. ConfirmedWereHandled'
  BY <1>0, <1>3 DEF ConfirmedWereHandled
<1> QED
  BY <1>0, <1>1, <1>2, <1>3, <1>5, <1>6, <1>7 DEF TypeOK, Ids

\* Steps that neither ask for anything nor do what was asked for.
LEMMA AskedKept ==
  ASSUME ServiceInv, TypeOK', Live' \subseteq Live, NextUp' >= NextUp,
         pending' \in {pending, 0} \/ (pending' = NextUp /\ NextUp' > NextUp)
  PROVE  AskedBefore'
<1> USE BotServiceAssumption DEF BotServiceAssumption
<1>1. TypeOK /\ AskedBefore
  BY DEF ServiceInv
<1>2. NextUp \in Nat \ {0} /\ NextUp' \in Nat /\ pending \in Nat
  <2>1. NextUpInRange /\ NextUpInRange'
    BY <1>1, NextUpTyped, PTL
  <2> QED
    BY <1>1, <2>1 DEF NextUpInRange, TypeOK
<1>3. \A t \in Live : t.upd \in Ids /\ t.upd \in Nat \ {0}
  BY <1>1, LiveTasks DEF Ids
<1> QED
  BY <1>1, <1>2, <1>3 DEF AskedBefore

LEMMA DueKept ==
  ASSUME ServiceInv, TypeOK', Unrun' \subseteq Unrun, NextUp' >= NextUp,
         pending' \in {pending, 0, NextUp}, UNCHANGED <<ran, crashes>>
  PROVE  OncePerLife' /\ DueOnce'
<1> USE BotServiceAssumption DEF BotServiceAssumption
<1>1. TypeOK /\ OncePerLife /\ DueOnce
  BY DEF ServiceInv
<1>2. NextUp \in Nat /\ NextUp' \in Nat
  <2>1. NextUpInRange /\ NextUpInRange'
    BY <1>1, NextUpTyped, PTL
  <2> QED
    BY <2>1 DEF NextUpInRange
<1>3. \A u \in Ids : u \in Nat \ {0}
  BY DEF Ids
<1> QED
  BY <1>1, <1>2, <1>3 DEF OncePerLife, DueOnce

\* A step that does what an update asks for, which was still to be done.
LEMMA RanOnce ==
  ASSUME ServiceInv, TypeOK', NEW u \in Ids, ran[u] <= crashes, u < NextUp,
         ran' = [ran EXCEPT ![u] = @ + 1], crashes' = crashes,
         Unrun' \subseteq Unrun, \A t \in Unrun' : t.upd # u,
         NextUp' >= NextUp, pending' \in {pending, 0}, pending' # u
  PROVE  OncePerLife' /\ DueOnce'
<1> USE BotServiceAssumption DEF BotServiceAssumption
<1>1. TypeOK /\ OncePerLife /\ DueOnce
  BY DEF ServiceInv
<1>2. NextUp \in Nat /\ NextUp' \in Nat
  <2>1. NextUpInRange /\ NextUpInRange'
    BY <1>1, NextUpTyped, PTL
  <2> QED
    BY <2>1 DEF NextUpInRange
<1>3. \A v \in Ids : v \in Nat \ {0}
  BY DEF Ids
<1>4. crashes \in Nat /\ \A v \in Ids : ran[v] \in Nat /\ ran'[v] = IF v = u THEN ran[v] + 1 ELSE ran[v]
  BY <1>1 DEF TypeOK
<1>5. OncePerLife'
  BY <1>1, <1>4 DEF OncePerLife
<1>6. DueOnce'
  <2> SUFFICES ASSUME NEW v \in Ids,
                      v >= NextUp' \/ v = pending' \/ (\E t \in Unrun' : t.upd = v)
               PROVE  ran'[v] <= crashes
    BY DEF DueOnce
  <2>1. v # u
    BY <1>2, <1>3
  <2>2. v >= NextUp \/ v = pending \/ \E t \in Unrun : t.upd = v
    BY <1>2, <1>3
  <2> QED
    BY <1>1, <1>4, <2>1, <2>2 DEF DueOnce
<1> QED
  BY <1>5, <1>6

\* The operations are the same ones, queued and running.
LEMMA TasksKept ==
  ASSUME ServiceInv, Queued(queue') = Queued(queue), OncePerUpdate(queue'),
         Begun(running') = Begun(running), UNCHANGED <<sent, BUSY>>
  PROVE  OneTaskEach' /\ Live' = Live /\ Unrun' = Unrun /\ BusySound'
<1>1. Live' = Live /\ Unrun' = Unrun
  BY DEF Live, Unrun
<1>2. OneTaskEach'
  BY DEF ServiceInv, OneTaskEach
<1>3. BusySound'
  BY <1>1 DEF ServiceInv, BusySound
<1> QED
  BY <1>1, <1>2, <1>3

\* An operation gets on.
LEMMA ReplaceKeeps ==
  ASSUME ServiceInv, NEW r \in running, NEW s, IsOperation(r.task), s.task = r.task,
         Replace(r, s), s.pc # "begin",
         Queued(queue') = Queued(queue), OncePerUpdate(queue'), UNCHANGED <<sent, BUSY>>
  PROVE  /\ OneTaskEach' /\ Live' = Live /\ BusySound'
         /\ Unrun' \subseteq Unrun /\ \A t \in Unrun' : t.upd # r.task.upd
<1>1. running' = (running \ {r}) \cup {s}
  BY DEF Replace
<1>2. Begun(running') = (Begun(running) \ {r}) \cup {s} /\ r \in Begun(running)
  BY <1>1 DEF Begun
<1>3. OneTaskEach
  BY DEF ServiceInv
<1>4. OneTaskEach'
  <2>1. \A x, y \in Begun(running') : x.task.upd = y.task.upd => x = y
    BY <1>2, <1>3 DEF OneTaskEach
  <2>2. \A t \in Queued(queue'), x \in Begun(running') : t.upd # x.task.upd
    BY <1>2, <1>3 DEF OneTaskEach
  <2> QED
    BY <2>1, <2>2 DEF OneTaskEach
<1>5. Live' = Live
  <2>1. {x.task : x \in Begun(running')} = {x.task : x \in Begun(running)}
    BY <1>2
  <2> QED
    BY <2>1 DEF Live
<1>6. \A t \in Unrun' : t \in Unrun /\ t.upd # r.task.upd
  <2> SUFFICES ASSUME NEW t \in Unrun' PROVE t \in Unrun /\ t.upd # r.task.upd
    OBVIOUS
  <2>1. CASE t \in Queued(queue')
    BY <1>2, <1>3, <2>1 DEF Unrun, OneTaskEach
  <2>2. CASE t \notin Queued(queue')
    <3>1. PICK x \in Begun(running') : x.pc = "begin" /\ t = x.task
      BY <2>2 DEF Unrun
    <3>2. x \in Begun(running) /\ x # r
      BY <1>2, <3>1
    <3> QED
      BY <1>2, <1>3, <3>1, <3>2 DEF Unrun, OneTaskEach
  <2> QED
    BY <2>1, <2>2
<1>7. BusySound'
  BY <1>5 DEF ServiceInv, BusySound
<1> QED
  BY <1>4, <1>5, <1>6, <1>7

\* An operation ends.
LEMMA RemoveKeeps ==
  ASSUME ServiceInv, NEW r \in running, IsOperation(r.task),
         running' = running \ {r}, queue' = queue
  PROVE  /\ OneTaskEach' /\ Live' = Live \ {r.task} /\ r.task \in Live
         /\ \A t \in Live' : t.upd # r.task.upd
         /\ Unrun' \subseteq Unrun /\ \A t \in Unrun' : t.upd # r.task.upd
<1>1. Begun(running') = Begun(running) \ {r} /\ r \in Begun(running)
  BY DEF Begun
<1>2. OneTaskEach
  BY DEF ServiceInv
<1>3. OneTaskEach'
  BY <1>1, <1>2 DEF OneTaskEach
<1>4. \A t \in Live' : t \in Live /\ t.upd # r.task.upd
  BY <1>1, <1>2 DEF Live, OneTaskEach
<1>5. Live' = Live \ {r.task} /\ r.task \in Live
  <2>1. r.task \in Live
    BY <1>1 DEF Live
  <2>2. ASSUME NEW t \in Live, t # r.task PROVE t \in Live'
    BY <1>1, <2>2 DEF Live
  <2> QED
    BY <1>4, <2>1, <2>2
<1>6. \A t \in Unrun' : t \in Unrun /\ t.upd # r.task.upd
  BY <1>1, <1>2 DEF Unrun, OneTaskEach
<1> QED
  BY <1>3, <1>4, <1>5, <1>6

-----------------------------------------------------------------------------
(* The steps of the main loop.                                             *)

\* getUpdates, whether it succeeds or fails, confirms what was handled.
LEMMA PollKeeps ==
  ASSUME ServiceInv, (\E n \in 0..MaxUpdates : PollOk(n)) \/ PollFails
  PROVE  ServiceInv'
<1> USE BotServiceAssumption DEF BotServiceAssumption
<1>t. TypeOK /\ InSequence /\ ConfirmedWereHandled /\ OnlyMessagesWait /\ ResultShown
  BY DEF ServiceInv
<1>1. /\ main.pc = "poll" /\ batch = <<>> /\ confirmed' = ConfirmedBy(offset)
      /\ confirmed' \in 0..MaxUpdates
      /\ UNCHANGED <<sent, offset, pending, queue, running, BUSY, shown, handled, ran, crashes>>
  BY <1>t DEF PollOk, PollFails, InSequence, ConfirmedBy, TypeOK
<1>2. NextUp = confirmed' + 1
  BY <1>1 DEF NextUp
<1>3. ConfirmedBy(offset)' = confirmed'
  BY <1>1 DEF ConfirmedBy
<1>4. /\ batch' \in Seq(Ids) /\ main' \in [pc : {"poll", "handle", "status"}, upd : 0..MaxUpdates, got : 0..Probes]
      /\ main'.pc = "poll" => batch' = <<>>
      /\ \A i \in 1..Len(batch') : batch'[i] = confirmed' + i
  <2>1. CASE PollFails
    BY <1>t, <1>1, <2>1 DEF PollFails, TypeOK
  <2>2. ASSUME NEW n \in 0..MaxUpdates, PollOk(n)
        PROVE  /\ batch' \in Seq(Ids)
               /\ main' \in [pc : {"poll", "handle", "status"}, upd : 0..MaxUpdates, got : 0..Probes]
               /\ main'.pc = "poll" => batch' = <<>>
               /\ \A i \in 1..Len(batch') : batch'[i] = confirmed' + i
    <3>1. n <= MaxUpdates - confirmed' /\ batch' = [i \in 1..n |-> confirmed' + i]
      BY <2>2 DEF PollOk
    <3>2. batch' \in [1..n -> Ids]
      BY <1>1, <3>1 DEF Ids
    <3>3. batch' \in Seq(Ids)
      BY <3>2, SeqDef
    <3>4. Len(batch') = n
      BY <3>2, <3>3, LenProperties
    <3>5. main' = [main EXCEPT !.pc = IF batch' = <<>> THEN "poll" ELSE "handle"]
      BY <2>2 DEF PollOk
    <3> QED
      BY <1>t, <3>1, <3>3, <3>4, <3>5 DEF TypeOK
  <2> QED
    BY <2>1, <2>2
<1>5. TypeOK'
  BY <1>t, <1>1, <1>4 DEF TypeOK
<1>6. NextUp' = confirmed' + 1
  <2>1. CASE batch' = <<>>
    BY <1>3, <2>1 DEF NextUp
  <2>2. CASE batch' # <<>>
    <3>1. 1 \in 1..Len(batch')
      BY <1>4, <2>2, LenProperties, EmptySeq
    <3> QED
      BY <1>4, <2>2, <3>1 DEF NextUp
  <2> QED
    BY <2>1, <2>2
<1>7. ConfirmedWereHandled' /\ InSequence'
  <2>1. \A i \in 1..Len(batch') : batch'[i] = batch'[1] + i - 1
    <3> SUFFICES ASSUME NEW i \in 1..Len(batch') PROVE batch'[i] = batch'[1] + i - 1
      OBVIOUS
    <3>1. 1 \in 1..Len(batch') /\ i \in Nat
      BY <1>4, LenProperties
    <3> QED
      BY <1>1, <1>4, <3>1
  <2>2. 1..confirmed' \subseteq handled'
    BY <1>t, <1>1, <1>2 DEF InSequence
  <2> QED
    BY <1>1, <1>4, <1>6, <2>1, <2>2 DEF ConfirmedWereHandled, InSequence
<1>8. NextUp' >= NextUp
  BY <1>1, <1>2, <1>6
<1>9. OneTaskEach' /\ Live' = Live /\ Unrun' = Unrun /\ BusySound'
  BY <1>1, TasksKept DEF ServiceInv, OneTaskEach
<1>10. AskedBefore' /\ OncePerLife' /\ DueOnce'
  BY <1>1, <1>5, <1>8, <1>9, AskedKept, DueKept
<1>11. OnlyMessagesWait' /\ ResultShown'
  BY <1>t, <1>1 DEF OnlyMessagesWait, ResultShown
<1> QED
  BY <1>5, <1>7, <1>9, <1>10, <1>11 DEF ServiceInv

\* After an update the main loop polls only when the response has no other.
LEMMA LoopPlaces ==
  ASSUME TypeOK, MainGoesOn
  PROVE  /\ main' \in [pc : {"poll", "handle", "status"}, upd : 0..MaxUpdates, got : 0..Probes]
         /\ main'.pc = "poll" => batch' = <<>>
<1>1. main' = [main EXCEPT !.pc = IF batch' = <<>> THEN "poll" ELSE "handle"]
  BY DEF MainGoesOn
<1>2. main \in [pc : {"poll", "handle", "status"}, upd : 0..MaxUpdates, got : 0..Probes]
  BY DEF TypeOK
<1>3. main'.pc = IF batch' = <<>> THEN "poll" ELSE "handle"
  BY <1>1, <1>2
<1>4. main' \in [pc : {"poll", "handle", "status"}, upd : 0..MaxUpdates, got : 0..Probes]
  BY <1>1, <1>2
<1> QED
  BY <1>3, <1>4

\* An update that is handled without an operation: pressed on a busy message,
\* the beginning of a dialog or of a status, an unknown text, an exception.
LEMMA QuietUpdateKeeps ==
  ASSUME ServiceInv, batch # <<>>, NEW u,
         PressRefused(u) \/ PressAsk(u) \/ PressStatus(u) \/ TextRaises(u) \/ TextUnknown(u)
  PROVE  ServiceInv'
<1> USE BotServiceAssumption DEF BotServiceAssumption
<1>t. TypeOK /\ InSequence /\ OnlyMessagesWait /\ ResultShown
  BY DEF ServiceInv
<1>1. \E ok : NextUpdate(u, ok)
  BY DEF PressRefused, PressAsk, PressStatus, TextRaises, TextUnknown, Press
<1>2. /\ UNCHANGED <<sent, confirmed, running, BUSY, ran, crashes>>
      /\ MainGoesOn \/ main' = [pc |-> "status", upd |-> u, got |-> 0]
      /\ pending' \in {pending, 0, u}
      /\ queue' \in {queue, queue \o ProbeTasks(u)}
      /\ shown' = shown \/ shown' = [shown EXCEPT ![sent[u].msg] = "current"]
  BY DEF PressRefused, PressAsk, PressStatus, TextRaises, TextUnknown, Press
<1>3. main'.pc = "poll" => batch' = <<>>
  BY <1>t, <1>2, LoopPlaces
<1>4. /\ u \in Ids /\ u = NextUp /\ NextUp' = u + 1
      /\ batch' \in Seq(Ids) /\ offset' \in 0..MaxUpdates + 1 /\ handled' \subseteq Ids
      /\ InSequence' /\ ConfirmedWereHandled'
  BY <1>1, <1>2, <1>3, LoopGoesOn
<1>5. queue' \in Seq(Tasks) /\ Queued(queue') = Queued(queue) /\ OncePerUpdate(queue')
  <2>1. queue \in Seq(Tasks) /\ OncePerUpdate(queue)
    BY DEF ServiceInv, OneTaskEach, TypeOK
  <2>2. CASE queue' = queue
    BY <2>1, <2>2
  <2>3. CASE queue' = queue \o ProbeTasks(u)
    BY <1>4, <2>1, <2>3, PartsAreTasks, QueuedParts
  <2> QED
    BY <1>2, <2>2, <2>3
<1>6. main' \in [pc : {"poll", "handle", "status"}, upd : 0..MaxUpdates, got : 0..Probes]
  BY <1>t, <1>2, <1>4, LoopPlaces DEF Ids
<1>7. TypeOK'
  <2>1. pending' \in 0..MaxUpdates
    BY <1>t, <1>2, <1>4 DEF TypeOK, Ids
  <2>2. shown' \in [Messages -> {"current", "progress", "abandoned"}]
    BY <1>t, <1>2 DEF TypeOK
  <2> QED
    BY <1>t, <1>2, <1>4, <1>5, <1>6, <2>1, <2>2 DEF TypeOK
<1>8. NextUp' > NextUp /\ NextUp' >= NextUp
  BY <1>4 DEF Ids
<1>9. OneTaskEach' /\ Live' = Live /\ Unrun' = Unrun /\ BusySound'
  BY <1>2, <1>5, TasksKept
<1>10. AskedBefore' /\ OncePerLife' /\ DueOnce'
  BY <1>2, <1>4, <1>7, <1>8, <1>9, AskedKept, DueKept
<1>11. OnlyMessagesWait' /\ ResultShown'
  BY <1>t, <1>2 DEF OnlyMessagesWait, ResultShown, TypeOK
<1> QED
  BY <1>4, <1>7, <1>9, <1>10, <1>11 DEF ServiceInv

\* Submitting the operation of an update that has none under way.
LEMMA SubmitKeeps ==
  ASSUME ServiceInv, NEW t \in Tasks, IsOperation(t), \A x \in Live : x.upd # t.upd,
         queue' = Append(queue, t), running' = running
  PROVE  /\ queue' \in Seq(Tasks) /\ OneTaskEach'
         /\ Live' = Live \cup {t} /\ Unrun' = Unrun \cup {t}
<1>1. queue \in Seq(Tasks) /\ OneTaskEach
  BY DEF ServiceInv, TypeOK
<1>2. \A x \in Queued(queue) : x.upd # t.upd
  BY DEF Live
<1>3. Queued(queue') = Queued(queue) \cup {t} /\ OncePerUpdate(queue')
  BY <1>1, <1>2, QueuedAppend DEF OneTaskEach
<1>4. OneTaskEach'
  <2>1. \A r \in Begun(running') : r.task.upd # t.upd
    BY DEF Live
  <2> QED
    BY <1>1, <1>3, <2>1 DEF OneTaskEach
<1> QED
  BY <1>1, <1>3, <1>4, AppendProperties DEF Live, Unrun

\* A press that runs an operation: the message is free, and busy from now on.
LEMMA PressOperateKeeps ==
  ASSUME ServiceInv, batch # <<>>, NEW u, NEW kind \in {"operate", "restart"},
         PressOperate(u, kind)
  PROVE  ServiceInv'
<1> USE BotServiceAssumption DEF BotServiceAssumption
<1>t. TypeOK /\ InSequence /\ OnlyMessagesWait /\ ResultShown /\ AskedBefore /\ BusySound
      /\ OncePerLife /\ DueOnce
  BY DEF ServiceInv
<1> DEFINE t == Task(kind, u, 0)
           m == sent[u].msg
<1>1. /\ NextUpdate(u, TRUE) /\ sent[u].kind = kind /\ m \notin BUSY
      /\ queue' = Append(queue, t)
      /\ shown' = [shown EXCEPT ![m] = "progress"]
      /\ BUSY' = BUSY \cup {m}
      /\ MainGoesOn
      /\ UNCHANGED <<sent, confirmed, pending, running, ran, crashes>>
  BY DEF PressOperate, Press
<1>2. /\ u \in Ids /\ u = NextUp /\ NextUp' = u + 1
      /\ batch' \in Seq(Ids) /\ offset' \in 0..MaxUpdates + 1 /\ handled' \subseteq Ids
      /\ InSequence' /\ ConfirmedWereHandled'
  BY <1>t, <1>1, LoopPlaces, LoopGoesOn
<1>3. t \in Tasks /\ t.kind = kind /\ t.upd = u
  BY <1>2 DEF Task, Tasks
<1>4. m \in Messages
  BY <1>t, <1>1, <1>2 DEF TypeOK, UpdateOf
<1>5. \A x \in Live : x.upd # u /\ x.upd \in Ids
  BY <1>t, <1>2, LiveTasks DEF AskedBefore, Ids
<1>6. /\ queue' \in Seq(Tasks) /\ OneTaskEach'
      /\ Live' = Live \cup {t} /\ Unrun' = Unrun \cup {t}
  <2> HIDE DEF t
  <2> QED
    BY <1>1, <1>3, <1>5, SubmitKeeps DEF IsOperation
<1>7. TypeOK'
  BY <1>t, <1>1, <1>2, <1>4, <1>6, LoopPlaces DEF TypeOK
<1> HIDE DEF t, m
<1>8. AskedBefore'
  <2>1. pending < u /\ \A x \in Live : x.upd < u /\ x.upd # pending /\ x.upd \in Nat
    BY <1>t, <1>2, <1>5 DEF AskedBefore, Ids
  <2>2. pending \in Nat /\ u \in Nat
    BY <1>t, <1>2 DEF TypeOK, Ids
  <2>3. pending' = pending /\ NextUp' = u + 1 /\ Live' = Live \cup {t} /\ t.upd = u
    BY <1>1, <1>2, <1>3, <1>6
  <2>4. pending' < NextUp'
    BY <2>1, <2>2, <2>3
  <2>5. ASSUME NEW x \in Live' PROVE x.upd < NextUp' /\ x.upd # pending'
    <3>1. CASE x \in Live
      BY <2>1, <2>2, <2>3, <3>1
    <3>2. CASE x = t
      BY <2>1, <2>2, <2>3, <3>2
    <3> QED
      BY <2>3, <3>1, <3>2
  <2> QED
    BY <2>4, <2>5 DEF AskedBefore
<1>9. OncePerLife' /\ DueOnce'
  <2>1. ASSUME NEW v \in Ids,
               v >= NextUp' \/ v = pending' \/ (\E x \in Unrun' : x.upd = v)
        PROVE  ran[v] <= crashes
    <3>1. v >= NextUp \/ v = pending \/ (\E x \in Unrun : x.upd = v)
      BY <1>1, <1>2, <1>3, <1>6, <2>1 DEF Ids
    <3> QED
      BY <1>t, <3>1 DEF DueOnce
  <2> QED
    BY <1>t, <1>1, <2>1 DEF OncePerLife, DueOnce
<1>10. BusySound'
  <2>1. \A x \in Live' : OfMessage(x) => sent'[x.upd].kind = x.kind /\ sent'[x.upd].msg \in BUSY'
    BY <1>t, <1>1, <1>3, <1>6 DEF BusySound, m
  <2>2. \A b \in BUSY' : \E x \in Live' : OfMessage(x) /\ sent'[x.upd].msg = b
    BY <1>t, <1>1, <1>3, <1>6 DEF BusySound, m, OfMessage
  <2>3. \A x \in Live : OfMessage(x) => sent[x.upd].msg # m
    BY <1>t, <1>1 DEF BusySound
  <2>4. \A x, y \in Live' : OfMessage(x) /\ OfMessage(y) /\ sent'[x.upd].msg = sent'[y.upd].msg
          => x = y
    BY <1>t, <1>1, <1>3, <1>6, <2>3 DEF BusySound, m
  <2> QED
    BY <2>1, <2>2, <2>4 DEF BusySound
<1>11. ResultShown'
  BY <1>t, <1>1 DEF ResultShown, TypeOK
<1>12. OnlyMessagesWait'
  BY <1>t, <1>1 DEF OnlyMessagesWait
<1> QED
  BY <1>2, <1>6, <1>7, <1>8, <1>9, <1>10, <1>11, <1>12 DEF ServiceInv

\* The text that answers a dialog: its operation is a task.
LEMMA TextAnswerKeeps ==
  ASSUME ServiceInv, batch # <<>>, NEW u, TextAnswer(u)
  PROVE  ServiceInv'
<1> USE BotServiceAssumption DEF BotServiceAssumption
<1>t. TypeOK /\ InSequence /\ OnlyMessagesWait /\ ResultShown /\ AskedBefore /\ BusySound
      /\ OncePerLife /\ DueOnce
  BY DEF ServiceInv
<1> DEFINE t == Task("reply", pending, u)
<1>1. /\ NextUpdate(u, TRUE) /\ pending # 0
      /\ queue' = Append(queue, t) /\ pending' = 0
      /\ MainGoesOn
      /\ UNCHANGED <<sent, confirmed, running, BUSY, shown, ran, crashes>>
  BY DEF TextAnswer
<1>2. /\ u \in Ids /\ u = NextUp /\ NextUp' = u + 1
      /\ batch' \in Seq(Ids) /\ offset' \in 0..MaxUpdates + 1 /\ handled' \subseteq Ids
      /\ InSequence' /\ ConfirmedWereHandled'
  BY <1>t, <1>1, LoopPlaces, LoopGoesOn
<1>3. pending \in Ids
  BY <1>t, <1>1 DEF TypeOK, Ids
<1>4. t \in Tasks /\ t.kind = "reply" /\ t.upd = pending
  BY <1>2, <1>3 DEF Task, Tasks, Ids
<1>5. \A x \in Live : x.upd # pending /\ x.upd \in Ids
  BY <1>t, LiveTasks DEF AskedBefore
<1>6. /\ queue' \in Seq(Tasks) /\ OneTaskEach'
      /\ Live' = Live \cup {t} /\ Unrun' = Unrun \cup {t}
  <2> HIDE DEF t
  <2> QED
    BY <1>1, <1>4, <1>5, SubmitKeeps DEF IsOperation
<1>7. TypeOK'
  <2>1. main' \in [pc : {"poll", "handle", "status"}, upd : 0..MaxUpdates, got : 0..Probes]
    BY <1>t, <1>1, LoopPlaces
  <2>2. pending' \in 0..MaxUpdates
    BY <1>1
  <2> HIDE DEF t
  <2> QED
    BY <1>t, <1>1, <1>2, <1>6, <2>1, <2>2 DEF TypeOK
<1> HIDE DEF t
<1>8. AskedBefore'
  <2>1. pending < u /\ \A x \in Live : x.upd < u /\ x.upd \in Nat \ {0}
    BY <1>t, <1>2, <1>5 DEF AskedBefore, Ids
  <2> QED
    BY <1>1, <1>2, <1>3, <1>4, <1>6, <2>1 DEF AskedBefore, Ids
<1>9. OncePerLife' /\ DueOnce'
  <2>1. ASSUME NEW v \in Ids,
               v >= NextUp' \/ v = pending' \/ (\E x \in Unrun' : x.upd = v)
        PROVE  ran[v] <= crashes
    <3>1. v >= NextUp \/ v = pending \/ (\E x \in Unrun : x.upd = v)
      BY <1>1, <1>2, <1>4, <1>6, <2>1 DEF Ids
    <3> QED
      BY <1>t, <3>1 DEF DueOnce
  <2> QED
    BY <1>t, <1>1, <2>1 DEF OncePerLife, DueOnce
<1>10. BusySound'
  <2>1. ~ OfMessage(t)
    BY <1>4 DEF OfMessage
  <2>2. \A x \in Live' : OfMessage(x) => x \in Live
    BY <1>6, <2>1
  <2>3. Live \subseteq Live'
    BY <1>6
  <2> QED
    BY <1>t, <1>1, <2>2, <2>3 DEF BusySound
<1>11. ResultShown' /\ OnlyMessagesWait'
  BY <1>t, <1>1 DEF ResultShown, OnlyMessagesWait
<1> QED
  BY <1>2, <1>6, <1>7, <1>8, <1>9, <1>10, <1>11 DEF ServiceInv

\* The text that answers a dialog whose operation the main thread runs.
LEMMA TextInlineKeeps ==
  ASSUME ServiceInv, batch # <<>>, NEW u, TextInline(u)
  PROVE  ServiceInv'
<1> USE BotServiceAssumption DEF BotServiceAssumption
<1>t. TypeOK /\ InSequence /\ OnlyMessagesWait /\ ResultShown /\ AskedBefore /\ DueOnce
      /\ OneTaskEach
  BY DEF ServiceInv
<1>1. /\ NextUpdate(u, TRUE) /\ pending # 0
      /\ ran' = [ran EXCEPT ![pending] = @ + 1] /\ pending' = 0
      /\ MainGoesOn
      /\ UNCHANGED <<sent, confirmed, queue, running, BUSY, shown, crashes>>
  BY DEF TextInline
<1>2. /\ u \in Ids /\ u = NextUp /\ NextUp' = u + 1
      /\ batch' \in Seq(Ids) /\ offset' \in 0..MaxUpdates + 1 /\ handled' \subseteq Ids
      /\ InSequence' /\ ConfirmedWereHandled'
  BY <1>t, <1>1, LoopPlaces, LoopGoesOn
<1>3. pending \in Ids /\ pending # 0
  BY <1>t, <1>1 DEF TypeOK, Ids
<1>4. TypeOK'
  <2>1. ran' \in [Ids -> Nat]
    BY <1>t, <1>1, <1>3 DEF TypeOK
  <2>2. main' \in [pc : {"poll", "handle", "status"}, upd : 0..MaxUpdates, got : 0..Probes]
    BY <1>t, <1>1, LoopPlaces
  <2>3. /\ sent' \in [Ids -> UpdateOf] /\ confirmed' \in 0..MaxUpdates /\ pending' \in 0..MaxUpdates
        /\ queue' \in Seq(Tasks) /\ running' \subseteq [task : Tasks, pc : Points, got : 0..Services]
        /\ BUSY' \subseteq Messages /\ shown' \in [Messages -> {"current", "progress", "abandoned"}]
        /\ crashes' \in 0..MaxCrashes
    BY <1>t, <1>1 DEF TypeOK
  <2> QED
    BY <1>2, <2>1, <2>2, <2>3 DEF TypeOK
<1>5. OneTaskEach' /\ Live' = Live /\ Unrun' = Unrun /\ BusySound'
  BY <1>t, <1>1, TasksKept DEF OneTaskEach
<1>6. NextUp' >= NextUp
  BY <1>2 DEF Ids
<1>7. AskedBefore'
  BY <1>1, <1>4, <1>5, <1>6, AskedKept
<1>8. OncePerLife' /\ DueOnce'
  <2>1. ran[pending] <= crashes /\ pending < NextUp
    BY <1>t, <1>3 DEF DueOnce, AskedBefore
  <2>2. \A t \in Unrun' : t.upd # pending
    BY <1>t, <1>5, LiveTasks DEF AskedBefore
  <2>3. pending' \in {pending, 0} /\ pending' # pending
    BY <1>1
  <2> QED
    BY <1>1, <1>3, <1>4, <1>5, <1>6, <2>1, <2>2, <2>3, RanOnce
<1>9. ResultShown' /\ OnlyMessagesWait'
  BY <1>t, <1>1 DEF ResultShown, OnlyMessagesWait
<1> QED
  BY <1>2, <1>4, <1>5, <1>7, <1>8, <1>9 DEF ServiceInv

\* The main thread gathers the status itself; its tasks are only parts.
LEMMA StatusKeeps ==
  ASSUME ServiceInv, StatusCollect \/ StatusShow
  PROVE  ServiceInv'
<1> USE BotServiceAssumption DEF BotServiceAssumption
<1>t. TypeOK /\ InSequence /\ OnlyMessagesWait /\ ResultShown /\ OneTaskEach /\ ConfirmedWereHandled
  BY DEF ServiceInv
<1>1. /\ UNCHANGED <<sent, confirmed, offset, batch, pending, queue, running, BUSY, handled, ran,
                     crashes>>
      /\ shown' = shown \/ shown' = [shown EXCEPT ![sent[main.upd].msg] = "current"]
  BY DEF StatusCollect, StatusShow
<1>2. /\ main' \in [pc : {"poll", "handle", "status"}, upd : 0..MaxUpdates, got : 0..Probes]
      /\ main'.pc = "poll" => batch' = <<>>
  <2>1. CASE StatusCollect
    <3>1. main' = [main EXCEPT !.got = @ + 1] /\ main.got < Probes /\ main.pc = "status"
      BY <2>1 DEF StatusCollect
    <3>2. main \in [pc : {"poll", "handle", "status"}, upd : 0..MaxUpdates, got : 0..Probes]
      BY <1>t DEF TypeOK
    <3>3. main.got + 1 \in 0..Probes
      BY <3>1, <3>2
    <3> QED
      BY <3>1, <3>2, <3>3
  <2>2. CASE StatusShow
    BY <1>1, <2>2 DEF StatusShow, AtPoll
  <2> QED
    BY <2>1, <2>2
<1>3. shown' \in [Messages -> {"current", "progress", "abandoned"}]
  BY <1>t, <1>1 DEF TypeOK
<1>4. TypeOK'
  BY <1>t, <1>1, <1>2, <1>3 DEF TypeOK
<1>5. NextUp' = NextUp
  BY <1>1 DEF NextUp, ConfirmedBy
<1>6. NextUp' >= NextUp
  BY <1>t, <1>5, NextUpTyped DEF NextUpInRange
<1>7. InSequence' /\ ConfirmedWereHandled'
  BY <1>t, <1>1, <1>2, <1>5 DEF InSequence, ConfirmedWereHandled
<1>8. OneTaskEach' /\ Live' = Live /\ Unrun' = Unrun /\ BusySound'
  BY <1>t, <1>1, TasksKept DEF OneTaskEach
<1>9. AskedBefore' /\ OncePerLife' /\ DueOnce'
  BY <1>1, <1>4, <1>6, <1>8, AskedKept, DueKept
<1>10. OnlyMessagesWait' /\ ResultShown'
  BY <1>t, <1>1 DEF OnlyMessagesWait, ResultShown, TypeOK
<1> QED
  BY <1>4, <1>7, <1>8, <1>9, <1>10 DEF ServiceInv

-----------------------------------------------------------------------------
(* The steps of the pool: what they leave alone, and then each of them.    *)

LEMMA PoolKeeps ==
  ASSUME ServiceInv,
         UNCHANGED <<sent, confirmed, offset, batch, main, pending, handled, crashes>>
  PROVE  /\ NextUp' = NextUp /\ NextUp' >= NextUp
         /\ InSequence' /\ ConfirmedWereHandled'
<1>1. NextUp' = NextUp
  BY DEF NextUp, ConfirmedBy
<1>2. NextUp' >= NextUp
  BY <1>1, NextUpTyped DEF ServiceInv, NextUpInRange
<1> QED
  BY <1>1, <1>2 DEF ServiceInv, InSequence, ConfirmedWereHandled

LEMMA TakeKeeps ==
  ASSUME ServiceInv, Take
  PROVE  ServiceInv'
<1> USE BotServiceAssumption DEF BotServiceAssumption
<1>t. TypeOK /\ OnlyMessagesWait /\ ResultShown /\ OneTaskEach /\ BusySound
  BY DEF ServiceInv
<1> DEFINE t == Head(queue)
           r == [task |-> t, pc |-> "begin", got |-> 0]
<1>1. /\ queue \in Seq(Tasks) /\ queue # <<>>
      /\ running' = running \cup {r} /\ queue' = Tail(queue)
      /\ UNCHANGED <<sent, confirmed, offset, batch, main, pending, BUSY, shown, handled, ran,
                     crashes>>
  BY <1>t DEF Take, TypeOK
<1>2. /\ t \in Tasks /\ queue' \in Seq(Tasks)
      /\ IsOperation(t) => t \in Queued(queue) /\ \A x \in Queued(queue') : x.upd # t.upd
      /\ Queued(queue) = Queued(queue') \cup (IF IsOperation(t) THEN {t} ELSE {})
      /\ OncePerUpdate(queue')
  BY <1>t, <1>1, QueuedTail DEF OneTaskEach
<1>3. r.task = t /\ r.pc = "begin" /\ r \in [task : Tasks, pc : Points, got : 0..Services]
  BY <1>2 DEF Points
<1> HIDE DEF t, r
<1>4. Begun(running') = IF IsOperation(t) THEN Begun(running) \cup {r} ELSE Begun(running)
  BY <1>1, <1>3 DEF Begun
<1>5. TypeOK'
  BY <1>t, <1>1, <1>2, <1>3 DEF TypeOK
<1>6. OneTaskEach'
  <2>1. CASE IsOperation(t)
    <3>1. \A x \in Begun(running) : x.task.upd # t.upd
      BY <1>t, <1>2, <2>1 DEF OneTaskEach
    <3>2. \A x, y \in Begun(running') : x.task.upd = y.task.upd => x = y
      BY <1>t, <1>3, <1>4, <2>1, <3>1 DEF OneTaskEach
    <3>3. \A x \in Queued(queue'), y \in Begun(running') : x.upd # y.task.upd
      BY <1>t, <1>2, <1>3, <1>4, <2>1 DEF OneTaskEach
    <3> QED
      BY <1>2, <3>2, <3>3 DEF OneTaskEach
  <2>2. CASE ~ IsOperation(t)
    BY <1>t, <1>2, <1>4, <2>2 DEF OneTaskEach
  <2> QED
    BY <2>1, <2>2
<1>7. Live' = Live /\ Unrun' = Unrun
  <2>1. CASE IsOperation(t)
    <3>1. {x.task : x \in Begun(running')} = {x.task : x \in Begun(running)} \cup {t}
      BY <1>3, <1>4, <2>1
    <3>2. {x.task : x \in {s \in Begun(running') : s.pc = "begin"}}
            = {x.task : x \in {s \in Begun(running) : s.pc = "begin"}} \cup {t}
      BY <1>3, <1>4, <2>1
    <3>3. Live' = Queued(queue') \cup ({x.task : x \in Begun(running)} \cup {t})
      BY <3>1 DEF Live
    <3>4. Unrun' = Queued(queue')
                     \cup ({x.task : x \in {s \in Begun(running) : s.pc = "begin"}} \cup {t})
      BY <3>2 DEF Unrun
    <3>5. Queued(queue) = Queued(queue') \cup {t}
      BY <1>2, <2>1
    <3> QED
      BY <3>3, <3>4, <3>5 DEF Live, Unrun
  <2>2. CASE ~ IsOperation(t)
    <3>1. Queued(queue') = Queued(queue) /\ Begun(running') = Begun(running)
      BY <1>2, <1>4, <2>2
    <3> QED
      BY <3>1 DEF Live, Unrun
  <2> QED
    BY <2>1, <2>2
<1>8. NextUp' >= NextUp /\ InSequence' /\ ConfirmedWereHandled'
  BY <1>1, PoolKeeps
<1>9. AskedBefore' /\ OncePerLife' /\ DueOnce'
  BY <1>1, <1>5, <1>7, <1>8, AskedKept, DueKept
<1>10. BusySound' /\ ResultShown' /\ OnlyMessagesWait'
  BY <1>t, <1>1, <1>3, <1>7 DEF BusySound, ResultShown, OnlyMessagesWait
<1> QED
  BY <1>5, <1>6, <1>8, <1>9, <1>10 DEF ServiceInv

LEMMA RunSmallKeeps ==
  ASSUME ServiceInv, NEW r \in running, RunSmall(r)
  PROVE  ServiceInv'
<1>t. TypeOK /\ OnlyMessagesWait /\ ResultShown /\ OneTaskEach
  BY DEF ServiceInv
<1>1. /\ running' = running \ {r} /\ ~ IsOperation(r.task)
      /\ UNCHANGED <<sent, confirmed, offset, batch, main, pending, queue, BUSY, shown, handled,
                     ran, crashes>>
  BY DEF RunSmall, IsOperation
<1>2. Begun(running') = Begun(running)
  BY <1>1 DEF Begun
<1>3. TypeOK'
  BY <1>t, <1>1 DEF TypeOK
<1>4. NextUp' >= NextUp /\ InSequence' /\ ConfirmedWereHandled'
  BY <1>1, PoolKeeps
<1>5. OneTaskEach' /\ Live' = Live /\ Unrun' = Unrun /\ BusySound'
  BY <1>t, <1>1, <1>2, TasksKept DEF OneTaskEach
<1>6. AskedBefore' /\ OncePerLife' /\ DueOnce'
  BY <1>1, <1>3, <1>4, <1>5, AskedKept, DueKept
<1>7. ResultShown' /\ OnlyMessagesWait'
  BY <1>t, <1>1 DEF ResultShown, OnlyMessagesWait
<1> QED
  BY <1>3, <1>4, <1>5, <1>6, <1>7 DEF ServiceInv

\* An operation that is still to run is due, and behind the main loop.
LEMMA UnrunIsDue ==
  ASSUME ServiceInv, NEW r \in running, IsOperation(r.task), r.pc = "begin"
  PROVE  /\ r.task.upd \in Ids /\ ran[r.task.upd] <= crashes
         /\ r.task.upd < NextUp /\ r.task.upd # pending
<1>1. r.task \in Unrun /\ r.task \in Live
  BY DEF Unrun, Live, Begun
<1>2. r.task.upd \in Ids
  BY <1>1, LiveTasks DEF ServiceInv
<1> QED
  BY <1>1, <1>2 DEF ServiceInv, DueOnce, AskedBefore

LEMMA RunReplyKeeps ==
  ASSUME ServiceInv, NEW r \in running, RunReply(r)
  PROVE  ServiceInv'
<1> USE BotServiceAssumption DEF BotServiceAssumption
<1>t. TypeOK /\ OnlyMessagesWait /\ ResultShown /\ BusySound
  BY DEF ServiceInv
<1> DEFINE u == r.task.upd
<1>1. /\ r.task.kind = "reply" /\ running' = running \ {r}
      /\ ran' = [ran EXCEPT ![u] = @ + 1]
      /\ UNCHANGED <<sent, confirmed, offset, batch, main, pending, queue, BUSY, shown, handled,
                     crashes>>
  BY DEF RunReply
<1>2. IsOperation(r.task) /\ ~ OfMessage(r.task) /\ r.pc = "begin"
  BY <1>t, <1>1 DEF IsOperation, OfMessage, OnlyMessagesWait
<1>3. u \in Ids /\ ran[u] <= crashes /\ u < NextUp /\ u # pending
  BY <1>2, UnrunIsDue
<1>4. /\ OneTaskEach' /\ Live' = Live \ {r.task}
      /\ Unrun' \subseteq Unrun /\ \A t \in Unrun' : t.upd # u
  BY <1>1, <1>2, RemoveKeeps
<1>5. TypeOK'
  BY <1>t, <1>1, <1>3 DEF TypeOK
<1> HIDE DEF u
<1>6. NextUp' >= NextUp /\ InSequence' /\ ConfirmedWereHandled'
  BY <1>1, PoolKeeps
<1>7. AskedBefore'
  BY <1>1, <1>4, <1>5, <1>6, AskedKept
<1>8. OncePerLife' /\ DueOnce'
  BY <1>1, <1>3, <1>4, <1>5, <1>6, RanOnce
<1>9. BusySound' /\ ResultShown' /\ OnlyMessagesWait'
  BY <1>t, <1>1, <1>2, <1>4 DEF BusySound, ResultShown, OnlyMessagesWait
<1> QED
  BY <1>4, <1>5, <1>6, <1>7, <1>8, <1>9 DEF ServiceInv

\* The operation of a message runs, or has its parts submitted.
LEMMA RunOperationKeeps ==
  ASSUME ServiceInv, NEW r \in running, RunOperate(r) \/ RestartSubmit(r)
  PROVE  ServiceInv'
<1> USE BotServiceAssumption DEF BotServiceAssumption
<1>t. TypeOK /\ OnlyMessagesWait /\ ResultShown /\ OneTaskEach
  BY DEF ServiceInv
<1> DEFINE u == r.task.upd
<1>1. /\ IsOperation(r.task) /\ OfMessage(r.task) /\ r.pc = "begin"
      /\ ran' = [ran EXCEPT ![u] = @ + 1]
      /\ queue' = queue \/ queue' = queue \o ChildTasks(u)
      /\ UNCHANGED <<sent, confirmed, offset, batch, main, pending, BUSY, shown, handled, crashes>>
  BY DEF RunOperate, RestartSubmit, IsOperation, OfMessage
<1>2. PICK pc \in {"show", "wait"} : Replace(r, [r EXCEPT !.pc = pc])
  BY DEF RunOperate, RestartSubmit
<1> DEFINE s == [r EXCEPT !.pc = pc]
<1>3. r \in [task : Tasks, pc : Points, got : 0..Services]
  BY <1>t DEF TypeOK
<1>4. s \in [task : Tasks, pc : Points, got : 0..Services] /\ s.task = r.task /\ s.pc = pc
  BY <1>3 DEF Points
<1>5. u \in Ids /\ ran[u] <= crashes /\ u < NextUp /\ u # pending
  BY <1>1, UnrunIsDue
<1>6. queue' \in Seq(Tasks) /\ Queued(queue') = Queued(queue) /\ OncePerUpdate(queue')
  <2>1. queue \in Seq(Tasks) /\ OncePerUpdate(queue)
    BY <1>t DEF OneTaskEach, TypeOK
  <2>2. CASE queue' = queue
    BY <2>1, <2>2
  <2>3. CASE queue' = queue \o ChildTasks(u)
    BY <1>5, <2>1, <2>3, PartsAreTasks, QueuedParts
  <2> QED
    BY <1>1, <2>2, <2>3
<1> HIDE DEF u, s
<1>7. Replace(r, s)
  BY <1>2 DEF s
<1>8. /\ OneTaskEach' /\ Live' = Live /\ BusySound'
      /\ Unrun' \subseteq Unrun /\ \A t \in Unrun' : t.upd # u
  <2>1. s.pc # "begin"
    BY <1>4
  <2> QED
    BY <1>1, <1>4, <1>6, <1>7, <2>1, ReplaceKeeps DEF u
<1>9. TypeOK'
  <2>1. ran' \in [Ids -> Nat]
    BY <1>t, <1>1, <1>5 DEF TypeOK
  <2>2. running' \subseteq [task : Tasks, pc : Points, got : 0..Services]
    BY <1>t, <1>4, <1>7 DEF TypeOK, Replace
  <2> QED
    BY <1>t, <1>1, <1>6, <2>1, <2>2 DEF TypeOK
<1>10. NextUp' >= NextUp /\ InSequence' /\ ConfirmedWereHandled'
  BY <1>1, PoolKeeps
<1>11. AskedBefore'
  BY <1>1, <1>8, <1>9, <1>10, AskedKept
<1>12. OncePerLife' /\ DueOnce'
  BY <1>1, <1>5, <1>8, <1>9, <1>10, RanOnce
<1>13. ResultShown' /\ OnlyMessagesWait'
  BY <1>t, <1>1, <1>4, <1>7 DEF ResultShown, OnlyMessagesWait, Replace
<1> QED
  BY <1>8, <1>9, <1>10, <1>11, <1>12, <1>13 DEF ServiceInv

\* A restart has the result of one part, or waits for it no more.
LEMMA RestartCollectKeeps ==
  ASSUME ServiceInv, NEW r \in running, RestartCollect(r)
  PROVE  ServiceInv'
<1> USE BotServiceAssumption DEF BotServiceAssumption
<1>t. TypeOK /\ OnlyMessagesWait /\ ResultShown /\ OneTaskEach
  BY DEF ServiceInv
<1>1. /\ r.pc = "wait" /\ r.got < Services
      /\ UNCHANGED <<sent, confirmed, offset, batch, main, pending, queue, BUSY, shown, handled,
                     ran, crashes>>
  BY DEF RestartCollect
<1> DEFINE s == [r EXCEPT !.got = @ + 1, !.pc = IF r.got + 1 = Services THEN "show" ELSE @]
<1>2. Replace(r, s)
  BY DEF RestartCollect
<1>3. r \in [task : Tasks, pc : Points, got : 0..Services]
  BY <1>t DEF TypeOK
<1>4. s \in [task : Tasks, pc : Points, got : 0..Services] /\ s.task = r.task /\ s.pc \in {"wait", "show"}
  <2>1. r.got + 1 \in 0..Services
    BY <1>1, <1>3
  <2>2. (IF r.got + 1 = Services THEN "show" ELSE r.pc) \in {"wait", "show"}
    BY <1>1
  <2> QED
    BY <1>3, <2>1, <2>2 DEF Points
<1>5. OfMessage(r.task) /\ IsOperation(r.task)
  BY <1>t, <1>1 DEF OnlyMessagesWait, OfMessage, IsOperation
<1> HIDE DEF s
<1>6. /\ OneTaskEach' /\ Live' = Live /\ BusySound' /\ Unrun' \subseteq Unrun
  <2>1. s.pc # "begin"
    BY <1>4
  <2>2. Queued(queue') = Queued(queue) /\ OncePerUpdate(queue')
    BY <1>t, <1>1 DEF OneTaskEach
  <2> QED
    BY <1>1, <1>2, <1>4, <1>5, <2>1, <2>2, ReplaceKeeps
<1>7. TypeOK'
  <2>1. running' \subseteq [task : Tasks, pc : Points, got : 0..Services]
    BY <1>t, <1>2, <1>4 DEF TypeOK, Replace
  <2> QED
    BY <1>t, <1>1, <2>1 DEF TypeOK
<1>8. NextUp' >= NextUp /\ InSequence' /\ ConfirmedWereHandled'
  BY <1>1, PoolKeeps
<1>9. AskedBefore' /\ OncePerLife' /\ DueOnce'
  BY <1>1, <1>6, <1>7, <1>8, AskedKept, DueKept
<1>10. ResultShown' /\ OnlyMessagesWait'
  BY <1>t, <1>1, <1>2, <1>4, <1>5 DEF ResultShown, OnlyMessagesWait, Replace
<1> QED
  BY <1>6, <1>7, <1>8, <1>9, <1>10 DEF ServiceInv

\* The result is shown, or not, and the message is free again.
LEMMA ShowKeeps ==
  ASSUME ServiceInv, NEW r \in running, ShowAndFree(r)
  PROVE  ServiceInv'
<1> USE BotServiceAssumption DEF BotServiceAssumption
<1>t. TypeOK /\ OnlyMessagesWait /\ ResultShown /\ BusySound
  BY DEF ServiceInv
<1> DEFINE m == sent[r.task.upd].msg
<1>1. /\ r.pc = "show" /\ running' = running \ {r} /\ BUSY' = BUSY \ {m}
      /\ \E text \in {"current", "abandoned"} : shown' = [shown EXCEPT ![m] = text]
      /\ UNCHANGED <<sent, confirmed, offset, batch, main, pending, queue, handled, ran, crashes>>
  BY DEF ShowAndFree
<1>2. OfMessage(r.task) /\ IsOperation(r.task)
  BY <1>t, <1>1 DEF OnlyMessagesWait, OfMessage, IsOperation
<1>3. /\ OneTaskEach' /\ Live' = Live \ {r.task} /\ r.task \in Live
      /\ Unrun' \subseteq Unrun
  BY <1>1, <1>2, RemoveKeeps
<1>4. m \in BUSY /\ m \in Messages
  BY <1>t, <1>2, <1>3 DEF BusySound, TypeOK
<1> HIDE DEF m
<1>5. TypeOK'
  BY <1>t, <1>1 DEF TypeOK
<1>6. NextUp' >= NextUp /\ InSequence' /\ ConfirmedWereHandled'
  BY <1>1, PoolKeeps
<1>7. AskedBefore' /\ OncePerLife' /\ DueOnce'
  BY <1>1, <1>3, <1>5, <1>6, AskedKept, DueKept
<1>8. BusySound'
  <2>1. \A t \in Live' : OfMessage(t) => sent[t.upd].msg # m
    BY <1>t, <1>2, <1>3 DEF BusySound, m
  <2>2. \A t \in Live' : OfMessage(t) => sent'[t.upd].kind = t.kind /\ sent'[t.upd].msg \in BUSY'
    BY <1>t, <1>1, <1>3, <2>1 DEF BusySound
  <2>3. \A b \in BUSY' : \E t \in Live' : OfMessage(t) /\ sent'[t.upd].msg = b
    BY <1>t, <1>1, <1>3 DEF BusySound, m
  <2>4. \A t, x \in Live' : OfMessage(t) /\ OfMessage(x) /\ sent'[t.upd].msg = sent'[x.upd].msg
          => t = x
    BY <1>t, <1>1, <1>3 DEF BusySound
  <2> QED
    BY <2>2, <2>3, <2>4 DEF BusySound
<1>9. ResultShown'
  BY <1>t, <1>1, <1>4 DEF ResultShown, TypeOK
<1>10. OnlyMessagesWait'
  BY <1>t, <1>1 DEF OnlyMessagesWait
<1> QED
  BY <1>3, <1>5, <1>6, <1>7, <1>8, <1>9, <1>10 DEF ServiceInv

\* The process dies: nothing is under way, and what was not confirmed is due
\* once more.
LEMMA CrashKeeps ==
  ASSUME ServiceInv, Crash
  PROVE  ServiceInv'
<1> USE BotServiceAssumption DEF BotServiceAssumption
<1>t. TypeOK /\ ConfirmedWereHandled /\ OncePerLife /\ ResultShown
  BY DEF ServiceInv
<1>1. /\ crashes < MaxCrashes /\ crashes' = crashes + 1 /\ offset' = 0 /\ batch' = <<>>
      /\ main' = AtPoll /\ pending' = 0 /\ queue' = <<>> /\ running' = {} /\ BUSY' = {}
      /\ shown' = [m \in Messages |-> IF m \in BUSY THEN "abandoned" ELSE shown[m]]
      /\ UNCHANGED <<sent, confirmed, handled, ran>>
  BY DEF Crash
<1>2. TypeOK'
  BY <1>t, <1>1 DEF TypeOK, AtPoll
<1>3. Queued(queue') = {} /\ Begun(running') = {} /\ Live' = {} /\ Unrun' = {}
  BY <1>1 DEF Queued, Begun, Live, Unrun
<1>4. NextUp' = confirmed + 1
  BY <1>1 DEF NextUp, ConfirmedBy
<1>5. ConfirmedWereHandled' /\ InSequence'
  <2>1. confirmed \in Nat
    BY <1>t DEF TypeOK
  <2> QED
    BY <1>t, <1>1, <1>4, <2>1 DEF ConfirmedWereHandled, InSequence
<1>6. OneTaskEach' /\ OnlyMessagesWait' /\ BusySound'
  BY <1>1, <1>3 DEF OneTaskEach, OncePerUpdate, OnlyMessagesWait, BusySound
<1>7. AskedBefore'
  BY <1>t, <1>1, <1>3, <1>4 DEF AskedBefore, TypeOK
<1>8. OncePerLife' /\ DueOnce'
  BY <1>t, <1>1, <1>3 DEF OncePerLife, DueOnce, TypeOK
<1>9. ResultShown'
  BY <1>t, <1>1 DEF ResultShown, TypeOK
<1> QED
  BY <1>2, <1>5, <1>6, <1>7, <1>8, <1>9 DEF ServiceInv

LEMMA ServiceNextInv == ServiceInv /\ [Next]_vars => ServiceInv'
<1> SUFFICES ASSUME ServiceInv, [Next]_vars PROVE ServiceInv'
  OBVIOUS
<1>1. CASE (\E n \in 0..MaxUpdates : PollOk(n)) \/ PollFails
  BY <1>1, PollKeeps
<1>2. CASE HandleNext
  <2> DEFINE u == Head(batch)
  <2>1. batch # <<>> /\ Handle(u)
    BY <1>2 DEF HandleNext
  <2> HIDE DEF u
  <2>2. CASE PressRefused(u) \/ PressAsk(u) \/ PressStatus(u) \/ TextRaises(u) \/ TextUnknown(u)
    BY <2>1, <2>2, QuietUpdateKeeps
  <2>3. CASE PressOperate(u, "operate") \/ PressOperate(u, "restart")
    BY <2>1, <2>3, PressOperateKeeps
  <2>4. CASE TextAnswer(u)
    BY <2>1, <2>4, TextAnswerKeeps
  <2>5. CASE TextInline(u)
    BY <2>1, <2>5, TextInlineKeeps
  <2> QED
    BY <2>1, <2>2, <2>3, <2>4, <2>5 DEF Handle
<1>3. CASE StatusCollect \/ StatusShow
  BY <1>3, StatusKeeps
<1>4. CASE Take
  BY <1>4, TakeKeeps
<1>5. ASSUME NEW r \in running, Run(r) PROVE ServiceInv'
  BY <1>5, RunSmallKeeps, RunReplyKeeps, RunOperationKeeps, RestartCollectKeeps, ShowKeeps DEF Run
<1>6. CASE Crash
  BY <1>6, CrashKeeps
<1>7. CASE UNCHANGED vars
  <2>1. /\ NextUp' = NextUp /\ Live' = Live /\ Unrun' = Unrun
        /\ Queued(queue') = Queued(queue) /\ Begun(running') = Begun(running)
    BY <1>7 DEF vars, NextUp, ConfirmedBy, Live, Unrun, Queued, Begun
  <2> QED
    BY <1>7, <2>1 DEF vars, ServiceInv, TypeOK, ConfirmedWereHandled, InSequence, OneTaskEach,
       OncePerUpdate, OnlyMessagesWait, AskedBefore, OncePerLife, DueOnce, BusySound, ResultShown
<1> QED
  BY <1>1, <1>2, <1>3, <1>4, <1>5, <1>6, <1>7 DEF Next, Work

-----------------------------------------------------------------------------
LEMMA ServiceInvariance == Spec => []ServiceInv
BY ServiceInitInv, ServiceNextInv, PTL DEF Spec

\* Every variable of the bot keeps its type, so no task and no update is ever
\* one that was not made.
THEOREM ServiceTypeCorrect == Spec => []TypeOK
<1>1. ServiceInv => TypeOK
  BY DEF ServiceInv
<1> QED
  BY <1>1, ServiceInvariance, PTL

\* An update the messenger has forgotten was handled: the main loop's offset
\* runs ahead of no update, whatever handlers raise and whenever it dies.
THEOREM ConfirmedHandled == Spec => []ConfirmedWereHandled
<1>1. ServiceInv => ConfirmedWereHandled
  BY DEF ServiceInv
<1> QED
  BY <1>1, ServiceInvariance, PTL

\* What an update asks for, on the main thread or in the pool, is done once in
\* each life of the process at most.
THEOREM OnceInALife == Spec => []OncePerLife
<1>1. ServiceInv => OncePerLife
  BY DEF ServiceInv
<1> QED
  BY <1>1, ServiceInvariance, PTL

\* A message that is not busy does not say that an operation is under way.
THEOREM ResultsAreShown == Spec => []ResultShown
<1>1. ServiceInv => ResultShown
  BY DEF ServiceInv
<1> QED
  BY <1>1, ServiceInvariance, PTL

\* BUSY has a message exactly while one operation for it is queued or running:
\* never two at once, and no message that nothing will free.
THEOREM BusyWhileOperating == Spec => []BusyHasOperation
<1>1. ASSUME ServiceInv PROVE BusyHasOperation
  <2> SUFFICES ASSUME NEW m \in Messages
               PROVE  /\ Cardinality(OperationsOn(m)) <= 1
                      /\ m \in BUSY <=> OperationsOn(m) # {}
    BY DEF BusyHasOperation
  <2>1. BusySound /\ Live \subseteq Tasks /\ queue \in Seq(Tasks)
        /\ \A t \in Live : t.upd \in Ids
    BY <1>1, LiveTasks DEF ServiceInv, TypeOK
  <2>2. \A u \in OperationsOn(m) : \E t \in Live : OfMessage(t) /\ t.upd = u /\ sent[u].msg = m
    <3> SUFFICES ASSUME NEW u \in OperationsOn(m)
                 PROVE  \E t \in Live : OfMessage(t) /\ t.upd = u /\ sent[u].msg = m
      OBVIOUS
    <3>1. CASE \E i \in DOMAIN queue : queue[i].upd = u /\ queue[i].kind \in {"operate", "restart"}
      <4>1. PICK i \in 1..Len(queue) : queue[i].upd = u /\ queue[i].kind \in {"operate", "restart"}
        BY <2>1, <3>1, LenProperties
      <4>2. queue[i] \in Live /\ OfMessage(queue[i])
        BY <4>1 DEF Live, Queued, IsOperation, OfMessage
      <4> QED
        BY <4>1, <4>2 DEF OperationsOn
    <3>2. CASE \E r \in running : r.task.upd = u /\ r.task.kind \in {"operate", "restart"}
      <4>1. PICK r \in running : r.task.upd = u /\ r.task.kind \in {"operate", "restart"}
        BY <3>2
      <4>2. r.task \in Live /\ OfMessage(r.task)
        BY <4>1 DEF Live, Begun, IsOperation, OfMessage
      <4> QED
        BY <4>1, <4>2 DEF OperationsOn
    <3> QED
      BY <3>1, <3>2 DEF OperationsOn
  <2>3. \A t \in Live : OfMessage(t) /\ sent[t.upd].msg = m => t.upd \in OperationsOn(m)
    <3> SUFFICES ASSUME NEW t \in Live, OfMessage(t), sent[t.upd].msg = m
                 PROVE  t.upd \in OperationsOn(m)
      OBVIOUS
    <3>1. t.upd \in Ids /\ IsButton(t.upd)
      BY <2>1 DEF BusySound, OfMessage, IsButton, Buttons
    <3>2. CASE t \in Queued(queue)
      <4>1. PICK i \in 1..Len(queue) : t = queue[i]
        BY <3>2 DEF Queued
      <4>2. i \in DOMAIN queue
        BY <2>1, <4>1, LenProperties
      <4> QED
        BY <3>1, <4>1, <4>2 DEF OperationsOn, OfMessage
    <3>3. CASE t \notin Queued(queue)
      <4>1. PICK r \in running : t = r.task
        BY <3>3 DEF Live, Begun
      <4> QED
        BY <3>1, <4>1 DEF OperationsOn, OfMessage
    <3> QED
      BY <3>2, <3>3
  <2>4. m \in BUSY <=> OperationsOn(m) # {}
    BY <2>1, <2>2, <2>3 DEF BusySound
  <2>5. \A u, v \in OperationsOn(m) : u = v
    BY <2>1, <2>2 DEF BusySound
  <2>6. Cardinality(OperationsOn(m)) <= 1
    <3>1. CASE OperationsOn(m) = {}
      BY <3>1, FS_EmptySet
    <3>2. CASE OperationsOn(m) # {}
      <4>1. PICK u : OperationsOn(m) = {u}
        BY <2>5, <3>2
      <4>2. Cardinality(OperationsOn(m)) = 1
        BY <4>1, FS_Singleton
      <4> QED
        BY <4>2
    <3> QED
      BY <3>1, <3>2
  <2> QED
    BY <2>4, <2>6
<1> QED
  BY <1>1, ServiceInvariance, PTL
=============================================================================
