--------------------------- MODULE DnsRace_proofs ---------------------------
(***************************************************************************)
(* For any number of upstreams, queries and delays: no goroutine with an   *)
(* answer ever waits for room in the channel of its race, global upstreams *)
(* and queries on the TCP connection keep their order, and the proxy keeps *)
(* the safety half of the promise of DnsService.                           *)
(***************************************************************************)
EXTENDS DnsRace, FiniteSetTheorems, SequenceTheorems, TLAPS

Untouched(q, jobs) == \A j \in jobs : worker[q][j] = "none"

\* raceQuery starts a goroutine once: those of an arm of the select that has
\* not been taken have not been started.
StartedOnce ==
  \A q \in Queries :
    /\ phase[q] = "new" => responses[q] = <<>> /\ Untouched(q, Jobs)
    /\ phase[q] \in {"new", "racing"} =>
         /\ timer[q]["tcp"] # "over" => Untouched(q, {"tcp"} \X Primary)
         /\ timer[q]["fallback"] # "over" => Untouched(q, {"fallback"} \X Fallback)
    /\ phase[q] = "new" => timer[q] = [t \in Timers |-> "armed"]

\* The answer that won is that of a goroutine that has ended.
WinnerDone ==
  \A q \in Queries :
    /\ reply[q] \in Jobs => worker[q][reply[q]] = "done"
    /\ phase[q] = "won" => reply[q] \in Jobs

\* The inductive invariant: without StartedOnce an answered goroutine could
\* run and answer again, and without WinnerDone the winner could be sent twice.
RaceInv == TypeOK /\ ChannelSound /\ StartedOnce /\ WinnerDone

-----------------------------------------------------------------------------
(* Jobs and the capacity of the channel.                                   *)

\* What a handler sends of its own accord is not the name of a job.
LEMMA NotJobs == NoReply \notin Jobs /\ ServFail \notin Jobs /\ NoReply # ServFail
<1>1. \A j \in Jobs : Len(j) = 2
  BY DEF Jobs
<1>2. Len(NoReply) = 1 /\ Len(ServFail) = 1
  BY DEF NoReply, ServFail
<1>3. NoReply[1] # ServFail[1]
  BY DEF NoReply, ServFail
<1> QED
  BY <1>1, <1>2, <1>3

\* The three groups of goroutines that raceQuery starts.
LEMMA JobGroups ==
  /\ {"udp"} \X Primary \subseteq Jobs
  /\ {"tcp"} \X Primary \subseteq Jobs
  /\ {"fallback"} \X Fallback \subseteq Jobs
  /\ ({"udp"} \X Primary) \cap ({"tcp"} \X Primary) = {}
  /\ ({"udp"} \X Primary) \cap ({"fallback"} \X Fallback) = {}
  /\ ({"tcp"} \X Primary) \cap ({"fallback"} \X Fallback) = {}
BY DEF Jobs

\* make(chan []byte, 2*len(primary)+len(fallback)) has room for every job.
LEMMA CapacityIsJobs == IsFiniteSet(Jobs) /\ Cardinality(Jobs) = Capacity
<1> DEFINE Domestic == {"udp", "tcp"} \X Primary
           Global == {"fallback"} \X Fallback
<1>1. IsFiniteSet({"udp", "tcp"}) /\ Cardinality({"udp", "tcp"}) = 2
  <2>1. IsFiniteSet({"udp"}) /\ Cardinality({"udp"}) = 1
    BY FS_Singleton
  <2>2. {"udp", "tcp"} = {"udp"} \cup {"tcp"} /\ "tcp" \notin {"udp"}
    OBVIOUS
  <2> QED
    BY <2>1, <2>2, FS_AddElement
<1>2. IsFiniteSet({"fallback"}) /\ Cardinality({"fallback"}) = 1
  BY FS_Singleton
<1>3. IsFiniteSet(Primary) /\ Cardinality(Primary) \in Nat
  BY RaceAssumption, FS_CardinalityType DEF RaceAssumption
<1>4. IsFiniteSet(Fallback) /\ Cardinality(Fallback) \in Nat
  BY RaceAssumption, FS_CardinalityType DEF RaceAssumption
<1>5. IsFiniteSet(Domestic) /\ Cardinality(Domestic) = 2 * Cardinality(Primary)
  BY <1>1, <1>3, FS_Product
<1>6. IsFiniteSet(Global) /\ Cardinality(Global) = Cardinality(Fallback)
  <2>1. IsFiniteSet(Global) /\ Cardinality(Global) = 1 * Cardinality(Fallback)
    <3> HIDE DEF Global
    <3> QED
      BY <1>2, <1>4, FS_Product DEF Global
  <2> QED
    BY <1>4, <2>1
<1>7. Domestic \cap Global = {}
  OBVIOUS
<1>8. Cardinality(Domestic \cap Global) = 0
  BY <1>7, FS_EmptySet
<1>9. IsFiniteSet(Domestic \cup Global)
      /\ Cardinality(Domestic \cup Global)
           = Cardinality(Domestic) + Cardinality(Global) - Cardinality(Domestic \cap Global)
  BY <1>5, <1>6, FS_Union
<1> QED
  BY <1>3, <1>4, <1>5, <1>6, <1>8, <1>9 DEF Jobs, Capacity

\* A channel that holds each of its answers once, and not the one that is yet
\* to be sent, is not full.
LEMMA RoomForOne ==
  ASSUME NEW s \in Seq(Jobs), NEW j \in Jobs,
         \A i, k \in 1..Len(s) : s[i] = s[k] => i = k,
         \A i \in 1..Len(s) : s[i] # j
  PROVE  Len(s) < Capacity
<1> DEFINE f == [i \in 0..Len(s) |-> IF i = 0 THEN j ELSE s[i]]
<1>1. Len(s) \in Nat /\ \A i \in 1..Len(s) : s[i] \in Jobs
  BY LenProperties, ElementOfSeq
<1>2. f \in [0..Len(s) -> Jobs]
  BY <1>1
<1>3. \A x, y \in 0..Len(s) : f[x] = f[y] => x = y
  BY <1>1
<1>4. IsFiniteSet(0..Len(s)) /\ Cardinality(0..Len(s)) = Len(s) + 1
  BY <1>1, FS_Interval
<1>5. Cardinality(Jobs) \in Nat
  BY CapacityIsJobs, FS_CardinalityType
<1>6. ~ (Cardinality(Jobs) < Cardinality(0..Len(s)))
  <2> HIDE DEF f
  <2> QED
    BY <1>2, <1>3, <1>4, CapacityIsJobs, FS_PigeonHole
<1> QED
  BY <1>1, <1>4, <1>5, <1>6, CapacityIsJobs

-----------------------------------------------------------------------------
(* The steps.                                                              *)

LEMMA RaceInitInv == Init => RaceInv
<1> SUFFICES ASSUME Init PROVE RaceInv
  OBVIOUS
<1>1. TypeOK
  BY DEF Init, TypeOK
<1>2. ChannelSound
  BY DEF Init, ChannelSound
<1>3. StartedOnce
  BY JobGroups DEF Init, StartedOnce, Untouched
<1>4. WinnerDone
  BY NotJobs DEF Init, WinnerDone
<1> QED
  BY <1>1, <1>2, <1>3, <1>4 DEF RaceInv

\* What starting goroutines that were not started changes, and leaves.
LEMMA StartSteps ==
  ASSUME TypeOK, NEW q \in Queries, NEW jobs \in SUBSET Jobs,
         Untouched(q, jobs), Start(q, jobs)
  PROVE  /\ worker' \in [Queries -> [Jobs -> {"none", "running", "answered", "done"}]]
         /\ \A p \in Queries \ {q} : worker'[p] = worker[p]
         /\ \A j \in Jobs \ jobs : worker'[q][j] = worker[q][j]
         /\ \A p \in Queries, j \in Jobs : worker[p][j] = "done" => worker'[p][j] = "done"
<1>1. worker \in [Queries -> [Jobs -> {"none", "running", "answered", "done"}]]
  BY DEF TypeOK
<1>2. worker' = [worker EXCEPT ![q] =
                   [j \in Jobs |-> IF j \in jobs THEN "running" ELSE worker[q][j]]]
  BY DEF Start
<1> QED
  BY <1>1, <1>2 DEF Untouched

\* A goroutine that ends or answers changes its own place only.
LEMMA WorkerSteps ==
  ASSUME TypeOK, NEW q \in Queries, NEW j \in Jobs,
         NEW place \in {"answered", "done"}, worker[q][j] \in {"running", "answered"},
         worker' = [worker EXCEPT ![q][j] = place]
  PROVE  /\ worker' \in [Queries -> [Jobs -> {"none", "running", "answered", "done"}]]
         /\ worker'[q][j] = place
         /\ \A p \in Queries, k \in Jobs : worker[p][k] = "none" <=> worker'[p][k] = "none"
         /\ \A p \in Queries, k \in Jobs : worker[p][k] = "done" => worker'[p][k] = "done"
<1>1. worker \in [Queries -> [Jobs -> {"none", "running", "answered", "done"}]]
  BY DEF TypeOK
<1> QED
  BY <1>1

\* The channels stay sound while nothing is put into them and what has ended
\* stays so.
LEMMA ChannelKept ==
  ASSUME TypeOK, ChannelSound, responses' = responses,
         \A q \in Queries, j \in Jobs : worker[q][j] = "done" => worker'[q][j] = "done",
         \A q \in Queries : reply'[q] = reply[q] \/ reply'[q] \notin Jobs
  PROVE  ChannelSound'
<1>1. \A q \in Queries : responses[q] \in Seq(Jobs)
  BY DEF TypeOK
<1>2. \A q \in Queries : \A i \in 1..Len(responses[q]) : responses[q][i] \in Jobs
  BY <1>1, ElementOfSeq
<1> QED
  BY <1>2 DEF ChannelSound

\* An arm of the select that fires keeps the types: its timer is over.
LEMMA TimerOverTypes ==
  ASSUME TypeOK, NEW q \in Queries, NEW t \in Timers, timer' = [timer EXCEPT ![q][t] = "over"],
         worker' \in [Queries -> [Jobs -> {"none", "running", "answered", "done"}]],
         UNCHANGED <<query, phase, responses, reply, link>>
  PROVE  TypeOK'
<1>1. timer' \in [Queries -> [Timers -> {"armed", "ready", "over"}]]
  BY DEF TypeOK
<1>2. \A p \in Queries : phase'[p] = "won" => \A s \in Timers : timer'[p][s] = "over"
  BY DEF TypeOK
<1>3. /\ query' \in [Queries -> [via : {"udp", "tcp"}, form : Forms]]
      /\ phase' \in [Queries -> {"new", "rejected", "racing", "won", "lost", "done"}]
      /\ responses' \in [Queries -> Seq(Jobs)]
      /\ reply' \in [Queries -> Jobs \cup {NoReply, ServFail}] /\ link' \in {"open", "closed"}
  BY DEF TypeOK
<1> QED
  BY <1>1, <1>2, <1>3 DEF TypeOK

\* A step of one query leaves what StartedOnce says of the others.
LEMMA StartedOnceElsewhere ==
  ASSUME StartedOnce, NEW q \in Queries,
         \A p \in Queries \ {q} : /\ phase'[p] = phase[p] /\ worker'[p] = worker[p]
                                  /\ responses'[p] = responses[p] /\ timer'[p] = timer[p],
         phase'[q] # "new",
         phase'[q] = "racing" =>
           /\ timer'[q]["tcp"] # "over" => Untouched(q, {"tcp"} \X Primary)'
           /\ timer'[q]["fallback"] # "over" => Untouched(q, {"fallback"} \X Fallback)'
  PROVE  StartedOnce'
<1> SUFFICES ASSUME NEW p \in Queries
             PROVE  /\ phase'[p] = "new" => responses'[p] = <<>> /\ Untouched(p, Jobs)'
                    /\ phase'[p] \in {"new", "racing"} =>
                         /\ timer'[p]["tcp"] # "over" => Untouched(p, {"tcp"} \X Primary)'
                         /\ timer'[p]["fallback"] # "over" => Untouched(p, {"fallback"} \X Fallback)'
                    /\ phase'[p] = "new" => timer'[p] = [t \in Timers |-> "armed"]
  BY DEF StartedOnce
<1>1. CASE p = q
  BY <1>1
<1>2. CASE p # q
  <2>1. /\ phase'[p] = phase[p] /\ worker'[p] = worker[p]
        /\ responses'[p] = responses[p] /\ timer'[p] = timer[p]
    BY <1>2
  <2>2. \A jobs : Untouched(p, jobs)' <=> Untouched(p, jobs)
    BY <2>1 DEF Untouched
  <2> QED
    BY <2>1, <2>2 DEF StartedOnce
<1> QED
  BY <1>1, <1>2

\* Every step of a race, of a goroutine or of a handler keeps RaceInv.
LEMMA RaceNextInv == RaceInv /\ [Next]_vars => RaceInv'
<1> SUFFICES ASSUME RaceInv, [Next]_vars PROVE RaceInv'
  OBVIOUS
<1>t. TypeOK /\ ChannelSound /\ StartedOnce /\ WinnerDone
  BY DEF RaceInv
<1>s. \A q \in Queries : responses[q] \in Seq(Jobs)
  BY <1>t DEF TypeOK
<1>e. \A q \in Queries : \A i \in 1..Len(responses[q]) : responses[q][i] \in Jobs
  BY <1>s, ElementOfSeq
<1>1. ASSUME NEW q \in Queries, phase[q] = "new", StartRace(q),
             UNCHANGED <<query, responses, timer, reply>>,
             link' \in {"open", "closed"}
      PROVE  RaceInv'
  <2> DEFINE jobs == {"udp"} \X Primary
  <2>1. CASE query[q].form = "noId"
    <3>1. phase' = [phase EXCEPT ![q] = "lost"] /\ worker' = worker
      BY <1>1, <2>1 DEF StartRace
    <3>2. TypeOK'
      BY <1>1, <1>t, <3>1 DEF TypeOK
    <3>3. ChannelSound'
      BY <1>1, <1>t, <3>1, ChannelKept
    <3>4. StartedOnce'
      BY <1>1, <1>t, <3>1 DEF StartedOnce, Untouched, TypeOK
    <3>5. WinnerDone'
      BY <1>1, <1>t, <3>1 DEF WinnerDone, TypeOK
    <3> QED
      BY <3>2, <3>3, <3>4, <3>5 DEF RaceInv
  <2>2. CASE query[q].form # "noId"
    <3>1. phase' = [phase EXCEPT ![q] = "racing"] /\ Start(q, jobs)
      BY <1>1, <2>2 DEF StartRace
    <3>2. jobs \in SUBSET Jobs /\ Untouched(q, jobs)
      BY <1>1, <1>t, JobGroups DEF StartedOnce, Untouched
    <3>3. /\ worker' \in [Queries -> [Jobs -> {"none", "running", "answered", "done"}]]
          /\ \A p \in Queries \ {q} : worker'[p] = worker[p]
          /\ \A j \in Jobs \ jobs : worker'[q][j] = worker[q][j]
          /\ \A p \in Queries, j \in Jobs : worker[p][j] = "done" => worker'[p][j] = "done"
      <4> HIDE DEF jobs
      <4> QED
        BY <1>t, <3>1, <3>2, StartSteps
    <3>4. TypeOK'
      <4>1. phase' \in [Queries -> {"new", "rejected", "racing", "won", "lost", "done"}]
        BY <1>t, <3>1 DEF TypeOK
      <4>2. \A p \in Queries : phase'[p] = "won" => \A s \in Timers : timer'[p][s] = "over"
        BY <1>1, <1>t, <3>1 DEF TypeOK
      <4>3. /\ query' \in [Queries -> [via : {"udp", "tcp"}, form : Forms]]
            /\ responses' \in [Queries -> Seq(Jobs)]
            /\ timer' \in [Queries -> [Timers -> {"armed", "ready", "over"}]]
            /\ reply' \in [Queries -> Jobs \cup {NoReply, ServFail}]
        BY <1>1, <1>t DEF TypeOK
      <4> QED
        BY <1>1, <3>3, <4>1, <4>2, <4>3 DEF TypeOK
    <3>5. ChannelSound'
      BY <1>1, <1>t, <3>3, ChannelKept
    <3>6. StartedOnce'
      <4>1. \A j \in ({"tcp"} \X Primary) \cup ({"fallback"} \X Fallback) : worker'[q][j] = worker[q][j]
        BY <3>3, JobGroups
      <4>2. /\ Untouched(q, {"tcp"} \X Primary)'
            /\ Untouched(q, {"fallback"} \X Fallback)'
        BY <1>1, <1>t, <4>1, JobGroups DEF StartedOnce, Untouched
      <4>3. phase'[q] = "racing" /\ \A p \in Queries \ {q} : phase'[p] = phase[p]
        BY <1>t, <3>1 DEF TypeOK
      <4> HIDE DEF jobs
      <4> QED
        BY <1>1, <1>t, <3>3, <4>2, <4>3, StartedOnceElsewhere
    <3>7. WinnerDone'
      BY <1>1, <1>t, <3>1, <3>3 DEF WinnerDone, TypeOK
    <3> QED
      BY <3>4, <3>5, <3>6, <3>7 DEF RaceInv
  <2> QED
    BY <2>1, <2>2
<1>2. ASSUME NEW q \in Queries, AcceptUdp(q)
      PROVE  RaceInv'
  BY <1>1, <1>2, <1>t DEF AcceptUdp, TypeOK
<1>3. ASSUME NEW q \in Queries, AcceptTcp(q)
      PROVE  RaceInv'
  <2>1. CASE query[q].form \in {"noId", "noHeader"}
    <3>1. /\ phase' = [phase EXCEPT ![q] = "rejected"] /\ link' = "closed"
          /\ worker' = worker /\ UNCHANGED <<query, responses, timer, reply>>
      BY <1>3, <2>1 DEF AcceptTcp
    <3>2. TypeOK'
      BY <1>t, <3>1 DEF TypeOK
    <3>3. ChannelSound'
      BY <1>t, <3>1, ChannelKept
    <3>4. StartedOnce'
      BY <1>t, <3>1 DEF StartedOnce, Untouched, TypeOK
    <3>5. WinnerDone'
      BY <1>t, <3>1 DEF WinnerDone, TypeOK
    <3> QED
      BY <3>2, <3>3, <3>4, <3>5 DEF RaceInv
  <2>2. CASE query[q].form \notin {"noId", "noHeader"}
    BY <1>1, <1>3, <2>2, <1>t DEF AcceptTcp, TypeOK
  <2> QED
    BY <2>1, <2>2
<1>4. ASSUME NEW q \in Queries, TakeResponse(q)
      PROVE  RaceInv'
  <2> DEFINE s == responses[q]
  <2>1. s \in Seq(Jobs) /\ s # <<>>
    BY <1>4, <1>s DEF TakeResponse
  <2>2. /\ Head(s) = s[1] /\ Head(s) \in Jobs /\ 1 \in 1..Len(s)
        /\ Tail(s) \in Seq(Jobs) /\ Len(Tail(s)) = Len(s) - 1 /\ Len(s) \in Nat
        /\ \A i \in 1..Len(Tail(s)) : i + 1 \in 1..Len(s) /\ Tail(s)[i] = s[i + 1]
    <3> HIDE DEF s
    <3>1. Len(s) \in Nat /\ Len(s) >= 1
      BY <2>1
    <3> QED
      BY <2>1, <3>1
  <2>3. /\ responses' = [responses EXCEPT ![q] = Tail(s)]
        /\ reply' = [reply EXCEPT ![q] = Head(s)]
        /\ phase' = [phase EXCEPT ![q] = "won"]
        /\ timer' = [timer EXCEPT ![q] = [t \in Timers |-> "over"]]
        /\ UNCHANGED <<query, worker, link>>
    BY <1>4 DEF TakeResponse, StopTimers
  <2>4. worker[q][Head(s)] = "done"
    BY <1>t, <2>2 DEF ChannelSound
  <2>5. TypeOK'
    BY <1>t, <2>2, <2>3 DEF TypeOK
  <2>6. ChannelSound'
    <3> SUFFICES ASSUME NEW p \in Queries
                 PROVE  /\ \A i \in 1..Len(responses'[p]) :
                             worker'[p][responses'[p][i]] = "done"
                        /\ \A i, k \in 1..Len(responses'[p]) :
                             responses'[p][i] = responses'[p][k] => i = k
                        /\ \A i \in 1..Len(responses'[p]) : responses'[p][i] # reply'[p]
      BY DEF ChannelSound
    <3>1. CASE p # q
      BY <1>t, <2>3, <3>1 DEF ChannelSound, TypeOK
    <3>2. CASE p = q
      <4>1. responses'[p] = Tail(s) /\ reply'[p] = s[1]
        BY <1>t, <2>2, <2>3, <3>2 DEF TypeOK
      <4>2. \A i, k \in 1..Len(s) : s[i] = s[k] => i = k
        BY <1>t DEF ChannelSound
      <4>3. \A i \in 1..Len(s) : worker[q][s[i]] = "done"
        BY <1>t DEF ChannelSound
      <4> HIDE DEF s
      <4>4. \A i \in 1..Len(Tail(s)) : worker'[q][Tail(s)[i]] = "done"
        BY <2>2, <2>3, <4>3
      <4>5. \A i, k \in 1..Len(Tail(s)) : Tail(s)[i] = Tail(s)[k] => i = k
        <5> SUFFICES ASSUME NEW i \in 1..Len(Tail(s)), NEW k \in 1..Len(Tail(s)),
                            Tail(s)[i] = Tail(s)[k]
                     PROVE  i = k
          OBVIOUS
        <5>1. i + 1 = k + 1
          BY <2>2, <4>2
        <5> QED
          BY <2>2, <5>1
      <4>6. \A i \in 1..Len(Tail(s)) : Tail(s)[i] # s[1]
        <5> SUFFICES ASSUME NEW i \in 1..Len(Tail(s)), Tail(s)[i] = s[1]
                     PROVE  FALSE
          OBVIOUS
        <5>1. i + 1 = 1
          BY <2>2, <4>2
        <5> QED
          BY <2>2, <5>1
      <4> QED
        BY <3>2, <4>1, <4>4, <4>5, <4>6
    <3> QED
      BY <3>1, <3>2
  <2>7. StartedOnce'
    BY <1>t, <1>4, <2>3 DEF StartedOnce, Untouched, TypeOK, TakeResponse
  <2>8. WinnerDone'
    BY <1>t, <2>2, <2>3, <2>4 DEF WinnerDone, TypeOK
  <2> QED
    BY <2>5, <2>6, <2>7, <2>8 DEF RaceInv
<1>5. ASSUME NEW q \in Queries, TakeTcpTimer(q)
      PROVE  RaceInv'
  <2> DEFINE jobs == {"tcp"} \X Primary
  <2>1. jobs \in SUBSET Jobs /\ Untouched(q, jobs)
    BY <1>5, <1>t, JobGroups DEF TakeTcpTimer, TimerReady, StartedOnce
  <2>2. /\ worker' \in [Queries -> [Jobs -> {"none", "running", "answered", "done"}]]
        /\ \A p \in Queries \ {q} : worker'[p] = worker[p]
        /\ \A j \in Jobs \ jobs : worker'[q][j] = worker[q][j]
        /\ \A p \in Queries, j \in Jobs : worker[p][j] = "done" => worker'[p][j] = "done"
    <3>1. Start(q, jobs)
      BY <1>5 DEF TakeTcpTimer
    <3> HIDE DEF jobs
    <3> QED
      BY <1>t, <2>1, <3>1, StartSteps
  <2>3. /\ phase[q] = "racing" /\ timer' = [timer EXCEPT ![q]["tcp"] = "over"]
        /\ UNCHANGED <<query, phase, responses, reply, link>>
    BY <1>5 DEF TakeTcpTimer, TimerReady
  <2>4. TypeOK'
    BY <1>t, <2>2, <2>3, TimerOverTypes DEF Timers
  <2>5. ChannelSound'
    BY <1>t, <2>2, <2>3, ChannelKept
  <2>6. StartedOnce'
    <3>1. /\ timer'[q]["tcp"] = "over" /\ timer'[q]["fallback"] = timer[q]["fallback"]
          /\ \A p \in Queries \ {q} : timer'[p] = timer[p]
      BY <1>t, <2>3 DEF TypeOK, Timers
    <3>2. \A j \in {"fallback"} \X Fallback : worker'[q][j] = worker[q][j]
      BY <2>2, JobGroups
    <3>3. timer'[q]["fallback"] # "over" => Untouched(q, {"fallback"} \X Fallback)'
      BY <1>t, <2>3, <3>1, <3>2 DEF StartedOnce, Untouched
    <3>4. phase'[q] = "racing"
      BY <2>3
    <3> HIDE DEF jobs
    <3> QED
      BY <1>t, <2>2, <2>3, <3>1, <3>3, <3>4, StartedOnceElsewhere
  <2>7. WinnerDone'
    BY <1>t, <2>2, <2>3 DEF WinnerDone, TypeOK
  <2> QED
    BY <2>4, <2>5, <2>6, <2>7 DEF RaceInv
<1>6. ASSUME NEW q \in Queries, TakeFallbackTimer(q)
      PROVE  RaceInv'
  <2> DEFINE jobs == {"fallback"} \X Fallback
  <2>1. jobs \in SUBSET Jobs /\ Untouched(q, jobs)
    BY <1>6, <1>t, JobGroups DEF TakeFallbackTimer, TimerReady, StartedOnce
  <2>2. /\ worker' \in [Queries -> [Jobs -> {"none", "running", "answered", "done"}]]
        /\ \A p \in Queries \ {q} : worker'[p] = worker[p]
        /\ \A j \in Jobs \ jobs : worker'[q][j] = worker[q][j]
        /\ \A p \in Queries, j \in Jobs : worker[p][j] = "done" => worker'[p][j] = "done"
    <3>1. Start(q, jobs)
      BY <1>6 DEF TakeFallbackTimer
    <3> HIDE DEF jobs
    <3> QED
      BY <1>t, <2>1, <3>1, StartSteps
  <2>3. /\ phase[q] = "racing" /\ timer' = [timer EXCEPT ![q]["fallback"] = "over"]
        /\ UNCHANGED <<query, phase, responses, reply, link>>
    BY <1>6 DEF TakeFallbackTimer, TimerReady
  <2>4. TypeOK'
    BY <1>t, <2>2, <2>3, TimerOverTypes DEF Timers
  <2>5. ChannelSound'
    BY <1>t, <2>2, <2>3, ChannelKept
  <2>6. StartedOnce'
    <3>1. /\ timer'[q]["fallback"] = "over" /\ timer'[q]["tcp"] = timer[q]["tcp"]
          /\ \A p \in Queries \ {q} : timer'[p] = timer[p]
      BY <1>t, <2>3 DEF TypeOK, Timers
    <3>2. \A j \in {"tcp"} \X Primary : worker'[q][j] = worker[q][j]
      BY <2>2, JobGroups
    <3>3. timer'[q]["tcp"] # "over" => Untouched(q, {"tcp"} \X Primary)'
      BY <1>t, <2>3, <3>1, <3>2 DEF StartedOnce, Untouched
    <3>4. phase'[q] = "racing"
      BY <2>3
    <3> HIDE DEF jobs
    <3> QED
      BY <1>t, <2>2, <2>3, <3>1, <3>3, <3>4, StartedOnceElsewhere
  <2>7. WinnerDone'
    BY <1>t, <2>2, <2>3 DEF WinnerDone, TypeOK
  <2> QED
    BY <2>4, <2>5, <2>6, <2>7 DEF RaceInv
<1>7. ASSUME NEW q \in Queries, TakeTimeout(q)
      PROVE  RaceInv'
  <2>1. /\ phase[q] = "racing" /\ phase' = [phase EXCEPT ![q] = "lost"]
        /\ timer' = [timer EXCEPT ![q] = [t \in Timers |-> "over"]]
        /\ UNCHANGED <<query, worker, responses, reply, link>>
    BY <1>7 DEF TakeTimeout, TimerReady, StopTimers
  <2>2. TypeOK'
    BY <1>t, <2>1 DEF TypeOK
  <2>3. ChannelSound'
    BY <1>t, <2>1, ChannelKept
  <2>4. StartedOnce'
    BY <1>t, <2>1 DEF StartedOnce, Untouched, TypeOK
  <2>5. WinnerDone'
    BY <1>t, <2>1 DEF WinnerDone, TypeOK
  <2> QED
    BY <2>2, <2>3, <2>4, <2>5 DEF RaceInv
<1>8. ASSUME NEW q \in Queries, NEW t \in Timers, TimerExpires(q, t)
      PROVE  RaceInv'
  <2>1. /\ phase[q] = "racing" /\ timer[q][t] = "armed"
        /\ timer' = [timer EXCEPT ![q][t] = "ready"]
        /\ UNCHANGED <<query, phase, worker, responses, reply, link>>
    BY <1>8 DEF TimerExpires
  <2>2. TypeOK'
    BY <1>t, <2>1 DEF TypeOK
  <2>3. ChannelSound'
    BY <1>t, <2>1, ChannelKept
  <2>4. StartedOnce'
    <3>1. /\ \A s \in Timers : timer'[q][s] # "over" => timer[q][s] # "over"
          /\ \A p \in Queries \ {q} : timer'[p] = timer[p]
      BY <1>t, <2>1 DEF TypeOK
    <3>2. phase'[q] = "racing" /\ "tcp" \in Timers /\ "fallback" \in Timers
      BY <2>1 DEF Timers
    <3>3. \A jobs : Untouched(q, jobs)' <=> Untouched(q, jobs)
      BY <2>1 DEF Untouched
    <3>4. /\ timer'[q]["tcp"] # "over" => Untouched(q, {"tcp"} \X Primary)'
          /\ timer'[q]["fallback"] # "over" => Untouched(q, {"fallback"} \X Fallback)'
      BY <1>t, <2>1, <3>1, <3>2, <3>3 DEF StartedOnce
    <3> QED
      BY <1>t, <2>1, <3>1, <3>2, <3>4, StartedOnceElsewhere
  <2>5. WinnerDone'
    BY <1>t, <2>1 DEF WinnerDone, TypeOK
  <2> QED
    BY <2>2, <2>3, <2>4, <2>5 DEF RaceInv
<1>9. ASSUME NEW q \in Queries, NEW j \in Jobs, WorkerFails(q, j) \/ WorkerAnswers(q, j)
      PROVE  RaceInv'
  <2>1. /\ worker[q][j] = "running"
        /\ \E place \in {"answered", "done"} : worker' = [worker EXCEPT ![q][j] = place]
        /\ UNCHANGED <<query, phase, responses, timer, reply, link>>
    BY <1>9 DEF WorkerFails, WorkerAnswers
  <2>2. /\ worker' \in [Queries -> [Jobs -> {"none", "running", "answered", "done"}]]
        /\ \A p \in Queries, k \in Jobs : worker[p][k] = "none" <=> worker'[p][k] = "none"
        /\ \A p \in Queries, k \in Jobs : worker[p][k] = "done" => worker'[p][k] = "done"
    BY <1>t, <2>1, WorkerSteps
  <2>3. TypeOK'
    BY <1>t, <2>1, <2>2 DEF TypeOK
  <2>4. ChannelSound'
    BY <1>t, <2>1, <2>2, ChannelKept
  <2>5. StartedOnce'
    BY <1>t, <2>1, <2>2, JobGroups DEF StartedOnce, Untouched
  <2>6. WinnerDone'
    BY <1>t, <2>1, <2>2 DEF WinnerDone
  <2> QED
    BY <2>3, <2>4, <2>5, <2>6 DEF RaceInv
<1>10. ASSUME NEW q \in Queries, NEW j \in Jobs, WorkerSends(q, j)
      PROVE  RaceInv'
  <2> DEFINE s == responses[q]
  <2>1. /\ worker[q][j] = "answered" /\ worker' = [worker EXCEPT ![q][j] = "done"]
        /\ responses' = [responses EXCEPT ![q] = Append(s, j)]
        /\ UNCHANGED <<query, phase, timer, reply, link>>
    BY <1>10 DEF WorkerSends
  <2>2. /\ worker' \in [Queries -> [Jobs -> {"none", "running", "answered", "done"}]]
        /\ worker'[q][j] = "done"
        /\ \A p \in Queries, k \in Jobs : worker[p][k] = "none" <=> worker'[p][k] = "none"
        /\ \A p \in Queries, k \in Jobs : worker[p][k] = "done" => worker'[p][k] = "done"
    BY <1>t, <2>1, WorkerSteps
  <2>3. /\ Append(s, j) \in Seq(Jobs) /\ Len(s) \in Nat /\ Len(Append(s, j)) = Len(s) + 1
        /\ \A i \in 1..Len(s) : Append(s, j)[i] = s[i]
        /\ Append(s, j)[Len(s) + 1] = j
        /\ \A i \in 1..Len(Append(s, j)) : i \in 1..Len(s) \/ i = Len(s) + 1
    <3>1. s \in Seq(Jobs)
      BY <1>s
    <3> HIDE DEF s
    <3> QED
      BY <3>1
  <2>4. j # reply[q] /\ \A i \in 1..Len(s) : s[i] # j
    BY <1>t, <2>1 DEF ChannelSound, WinnerDone
  <2>5. TypeOK'
    BY <1>t, <2>1, <2>2, <2>3 DEF TypeOK
  <2>6. ChannelSound'
    <3> SUFFICES ASSUME NEW p \in Queries
                 PROVE  /\ \A i \in 1..Len(responses'[p]) :
                             worker'[p][responses'[p][i]] = "done"
                        /\ \A i, k \in 1..Len(responses'[p]) :
                             responses'[p][i] = responses'[p][k] => i = k
                        /\ \A i \in 1..Len(responses'[p]) : responses'[p][i] # reply'[p]
      BY DEF ChannelSound
    <3>1. CASE p # q
      <4>1. responses'[p] = responses[p] /\ reply'[p] = reply[p]
        BY <1>t, <2>1, <3>1 DEF TypeOK
      <4> QED
        BY <1>t, <1>e, <2>2, <4>1 DEF ChannelSound
    <3>2. CASE p = q
      <4>1. responses'[p] = Append(s, j) /\ reply'[p] = reply[q]
        BY <1>t, <2>1, <3>2 DEF TypeOK
      <4>2. /\ \A i, k \in 1..Len(s) : s[i] = s[k] => i = k
            /\ \A i \in 1..Len(s) : worker[q][s[i]] = "done" /\ s[i] \in Jobs /\ s[i] # reply[q]
        BY <1>t, <1>e DEF ChannelSound
      <4> HIDE DEF s
      <4> QED
        BY <2>2, <2>3, <2>4, <3>2, <4>1, <4>2
    <3> QED
      BY <3>1, <3>2
  <2>7. StartedOnce'
    <3>1. \A p \in Queries : phase[p] = "new" => p # q
      BY <1>t, <2>1 DEF StartedOnce, Untouched
    <3>2. \A p \in Queries : p # q => responses'[p] = responses[p]
      BY <1>t, <2>1 DEF TypeOK
    <3> QED
      BY <1>t, <2>1, <2>2, <3>1, <3>2, JobGroups DEF StartedOnce, Untouched
  <2>8. WinnerDone'
    BY <1>t, <2>1, <2>2 DEF WinnerDone
  <2> QED
    BY <2>5, <2>6, <2>7, <2>8 DEF RaceInv
<1>11. ASSUME NEW q \in Queries, ReplyUdp(q) \/ ReplyTcp(q)
      PROVE  RaceInv'
  <2>1. /\ phase[q] \in {"won", "lost"} /\ phase' = [phase EXCEPT ![q] = "done"]
        /\ UNCHANGED <<query, worker, responses, timer>>
        /\ link' \in {"open", "closed"}
    BY <1>11, <1>t DEF ReplyUdp, ReplyTcp, TypeOK
  <2>2. \E a \in {reply[q], NoReply, ServFail} : reply' = [reply EXCEPT ![q] = a]
    <3>1. Refuse(q) \in {NoReply, ServFail}
      BY DEF Refuse
    <3>2. CASE ReplyUdp(q)
      <4>1. reply' = [reply EXCEPT ![q] = IF phase[q] = "won" THEN reply[q] ELSE Refuse(q)]
        BY <3>2, <1>t DEF ReplyUdp, TypeOK
      <4> QED
        BY <3>1, <4>1
    <3>3. CASE ReplyTcp(q)
      BY <3>1, <3>3 DEF ReplyTcp
    <3> QED
      BY <1>11, <3>2, <3>3
  <2>3. reply' \in [Queries -> Jobs \cup {NoReply, ServFail}]
        /\ \A p \in Queries : reply'[p] = reply[p] \/ reply'[p] \notin Jobs
    BY <1>t, <2>2, NotJobs DEF TypeOK
  <2>4. TypeOK'
    <3>1. /\ query' \in [Queries -> [via : {"udp", "tcp"}, form : Forms]]
          /\ worker' \in [Queries -> [Jobs -> {"none", "running", "answered", "done"}]]
          /\ responses' \in [Queries -> Seq(Jobs)]
          /\ timer' \in [Queries -> [Timers -> {"armed", "ready", "over"}]]
      BY <1>t, <2>1 DEF TypeOK
    <3>2. phase' \in [Queries -> {"new", "rejected", "racing", "won", "lost", "done"}]
      BY <1>t, <2>1 DEF TypeOK
    <3>3. \A p \in Queries : phase'[p] = "won" => phase[p] = "won"
      BY <1>t, <2>1 DEF TypeOK
    <3>4. \A p \in Queries : phase'[p] = "won" => \A s \in Timers : timer'[p][s] = "over"
      BY <1>t, <2>1, <3>3 DEF TypeOK
    <3> QED
      BY <2>1, <2>3, <3>1, <3>2, <3>4 DEF TypeOK
  <2>5. ChannelSound'
    BY <1>t, <2>1, <2>3, ChannelKept
  <2>6. StartedOnce'
    BY <1>t, <2>1 DEF StartedOnce, Untouched, TypeOK
  <2>7. WinnerDone'
    <3>1. \A p \in Queries : p # q => phase'[p] = phase[p] /\ reply'[p] = reply[p]
      BY <1>t, <2>1, <2>2 DEF TypeOK
    <3>2. phase'[q] = "done"
      BY <1>t, <2>1 DEF TypeOK
    <3> QED
      BY <1>t, <2>1, <2>3, <3>1, <3>2 DEF WinnerDone
  <2> QED
    BY <2>4, <2>5, <2>6, <2>7 DEF RaceInv
<1>12. CASE ClientCloses \/ UNCHANGED vars
  <2>1. UNCHANGED <<query, phase, worker, responses, timer, reply>> /\ link' \in {"open", "closed"}
    BY <1>12, <1>t DEF ClientCloses, vars, TypeOK
  <2> QED
    BY <1>t, <2>1, ChannelKept DEF RaceInv, TypeOK, StartedOnce, Untouched, WinnerDone
<1> QED
  BY <1>2, <1>3, <1>4, <1>5, <1>6, <1>7, <1>8, <1>9, <1>10, <1>11, <1>12 DEF Next, Select

LEMMA RaceInvariance == Spec => []RaceInv
BY RaceInitInv, RaceNextInv, PTL DEF Spec

\* Every variable of the proxy keeps its type, and a race that is won leaves
\* no timer behind: raceQuery stops them all when it returns.
THEOREM RaceTypeCorrect == Spec => []TypeOK
<1>1. RaceInv => TypeOK
  BY DEF RaceInv
<1> QED
  BY <1>1, RaceInvariance, PTL

\* The channel of a race never holds an answer twice, nor one that was taken
\* out of it, nor one of a goroutine that has not ended.
THEOREM ChannelStaysSound == Spec => []ChannelSound
<1>1. RaceInv => ChannelSound
  BY DEF RaceInv
<1> QED
  BY <1>1, RaceInvariance, PTL

\* A goroutine that has an answer finds room for it in the channel, also when
\* raceQuery has returned and nobody reads any more: none is left behind.
THEOREM NoGoroutineWaits == Spec => []NoneWaits
<1>1. ASSUME RaceInv PROVE NoneWaits
  <2> SUFFICES ASSUME NEW q \in Queries, NEW j \in Jobs, worker[q][j] = "answered"
               PROVE  Len(responses[q]) < Capacity
    BY DEF NoneWaits
  <2>1. responses[q] \in Seq(Jobs)
    BY <1>1 DEF RaceInv, TypeOK
  <2>2. /\ \A i, k \in 1..Len(responses[q]) : responses[q][i] = responses[q][k] => i = k
        /\ \A i \in 1..Len(responses[q]) : worker[q][responses[q][i]] = "done"
    BY <1>1 DEF RaceInv, ChannelSound
  <2>3. \A i \in 1..Len(responses[q]) : responses[q][i] # j
    BY <2>2
  <2> QED
    BY <2>1, <2>2, <2>3, RoomForOne
<1> QED
  BY <1>1, RaceInvariance, PTL

-----------------------------------------------------------------------------
(* The order in which things happen: what is left of "over UDP first, then *)
(* over TCP, before global fallback resolvers are used" when the select    *)
(* takes any arm that is due, and the order of the TCP connection.         *)

\* No global upstream is asked before the delay of the TCP retry has passed.
FallbackAfterTcpDue ==
  \A q \in Queries, f \in Fallback : worker[q][<<"fallback", f>>] # "none" => timer[q]["tcp"] # "armed"

\* Of two queries on the TCP connection the later one is not taken up, nor
\* the connection ended for its length, before the earlier one is through.
TcpInTurn ==
  \A p, q \in Queries :
    p < q /\ query[p].via = "tcp" /\ query[q].via = "tcp" /\ phase[q] # "new" => phase[p] = "done"

\* FallbackAfterTcpDue is not inductive: the timer is due before it is taken.
DueInOrder ==
  \A q \in Queries : timer[q]["tcp"] = "armed" =>
    timer[q]["fallback"] = "armed" /\ Untouched(q, {"fallback"} \X Fallback)

\* raceQuery leaves delays in that order as they are.
LEMMA DelaysRise == TcpDelay < FallbackDelay => Delay("tcp") < Delay("fallback")
BY RaceAssumption DEF RaceAssumption, Delay

\* A timer that has expired is not armed again.
LEMMA TimersKeepOrder ==
  ASSUME TypeOK, DueInOrder, TcpDelay < FallbackDelay, NEW q \in Queries,
         \/ StopTimers(q)
         \/ \E t \in Timers : TimerExpires(q, t)
         \/ \E t \in {"tcp", "fallback"} : TimerReady(q, t) /\ timer' = [timer EXCEPT ![q][t] = "over"]
  PROVE  \A p \in Queries : timer'[p]["tcp"] = "armed" =>
           timer[p]["tcp"] = "armed" /\ timer'[p]["fallback"] = "armed"
<1>1. timer \in [Queries -> [Timers -> {"armed", "ready", "over"}]]
  BY DEF TypeOK
<1>2. {"tcp", "fallback", "timeout"} = Timers
  BY DEF Timers
<1>3. CASE StopTimers(q)
  BY <1>1, <1>2, <1>3 DEF StopTimers, DueInOrder
<1>4. ASSUME NEW t \in Timers, TimerExpires(q, t)
      PROVE  \A p \in Queries : timer'[p]["tcp"] = "armed" =>
               timer[p]["tcp"] = "armed" /\ timer'[p]["fallback"] = "armed"
  <2>1. timer' = [timer EXCEPT ![q][t] = "ready"]
    BY <1>4 DEF TimerExpires
  <2>2. t = "fallback" => timer[q]["tcp"] # "armed"
    BY <1>2, <1>4, DelaysRise DEF TimerExpires
  <2> QED
    BY <1>1, <1>2, <2>1, <2>2 DEF DueInOrder
<1>5. ASSUME NEW t \in {"tcp", "fallback"}, TimerReady(q, t), timer' = [timer EXCEPT ![q][t] = "over"]
      PROVE  \A p \in Queries : timer'[p]["tcp"] = "armed" =>
               timer[p]["tcp"] = "armed" /\ timer'[p]["fallback"] = "armed"
  BY <1>1, <1>2, <1>5 DEF DueInOrder, TimerReady
<1> QED
  BY <1>3, <1>4, <1>5

\* Before a race all timers are armed and nobody has been asked.
LEMMA DueInit == Init => DueInOrder /\ TcpInTurn
BY JobGroups DEF Init, DueInOrder, TcpInTurn, Untouched, Timers

\* Only an arm of the select that is due starts goroutines for the fallback.
LEMMA DueStep ==
  ASSUME RaceInv, DueInOrder, [Next]_vars, TcpDelay < FallbackDelay
  PROVE  DueInOrder'
<1>t. TypeOK /\ worker \in [Queries -> [Jobs -> {"none", "running", "answered", "done"}]]
  BY DEF RaceInv, TypeOK
<1>j. {"udp"} \X Primary \in SUBSET Jobs /\ {"tcp"} \X Primary \in SUBSET Jobs
      /\ {"fallback"} \X Fallback \in SUBSET Jobs
  BY JobGroups
<1>k. \A j \in {"fallback"} \X Fallback : j \notin {"udp"} \X Primary /\ j \notin {"tcp"} \X Primary
  OBVIOUS
<1>1. ASSUME \A q \in Queries : timer'[q]["tcp"] = "armed" =>
               timer[q]["tcp"] = "armed" /\ timer'[q]["fallback"] = "armed",
             \A q \in Queries, j \in {"fallback"} \X Fallback :
               timer'[q]["tcp"] = "armed" /\ worker[q][j] = "none" => worker'[q][j] = "none"
      PROVE  DueInOrder'
  BY <1>1 DEF DueInOrder, Untouched
<1>2. ASSUME UNCHANGED timer PROVE \A q \in Queries : timer'[q]["tcp"] = "armed" =>
               timer[q]["tcp"] = "armed" /\ timer'[q]["fallback"] = "armed"
  BY <1>2 DEF DueInOrder
<1>3. ASSUME NEW q \in Queries, NEW jobs \in SUBSET Jobs, Start(q, jobs),
             \A j \in {"fallback"} \X Fallback : j \notin jobs
      PROVE  \A p \in Queries, j \in {"fallback"} \X Fallback : worker[p][j] = "none" => worker'[p][j] = "none"
  BY <1>t, <1>j, <1>3 DEF Start
<1>4. ASSUME NEW q \in Queries, AcceptUdp(q) \/ AcceptTcp(q) PROVE DueInOrder'
  <2>1. UNCHANGED timer /\ (worker' = worker \/ Start(q, {"udp"} \X Primary))
    BY <1>4 DEF AcceptUdp, AcceptTcp, StartRace
  <2>2. \A p \in Queries, j \in {"fallback"} \X Fallback : worker[p][j] = "none" => worker'[p][j] = "none"
    BY <1>3, <1>j, <1>k, <2>1
  <2> QED
    BY <1>1, <1>2, <2>1, <2>2
<1>5. ASSUME NEW q \in Queries, TakeResponse(q) \/ TakeTimeout(q) \/ \E t \in Timers : TimerExpires(q, t)
      PROVE  DueInOrder'
  <2>1. worker' = worker /\ (StopTimers(q) \/ \E t \in Timers : TimerExpires(q, t))
    BY <1>5 DEF TakeResponse, TakeTimeout, TimerExpires
  <2> QED
    BY <1>1, <1>t, <2>1, TimersKeepOrder
<1>6. ASSUME NEW q \in Queries, TakeTcpTimer(q) PROVE DueInOrder'
  <2>1. \A p \in Queries, j \in {"fallback"} \X Fallback : worker[p][j] = "none" => worker'[p][j] = "none"
    BY <1>3, <1>6, <1>j, <1>k DEF TakeTcpTimer
  <2> QED
    BY <1>1, <1>6, <1>t, <2>1, TimersKeepOrder DEF TakeTcpTimer
<1>7. ASSUME NEW q \in Queries, TakeFallbackTimer(q) PROVE DueInOrder'
  <2>1. timer'[q]["tcp"] # "armed"
    BY <1>7, <1>t DEF TakeFallbackTimer, TimerReady, DueInOrder, TypeOK, Timers
  <2>2. \A p \in Queries \ {q} : worker'[p] = worker[p]
    BY <1>7, <1>t DEF TakeFallbackTimer, Start
  <2> QED
    BY <1>1, <1>7, <1>t, <2>1, <2>2, TimersKeepOrder DEF TakeFallbackTimer
<1>8. ASSUME NEW q \in Queries, NEW j \in Jobs, WorkerFails(q, j) \/ WorkerAnswers(q, j) \/ WorkerSends(q, j)
      PROVE  DueInOrder'
  <2>1. /\ UNCHANGED timer /\ worker[q][j] \in {"running", "answered"}
        /\ \E place \in {"answered", "done"} : worker' = [worker EXCEPT ![q][j] = place]
    BY <1>8 DEF WorkerFails, WorkerAnswers, WorkerSends
  <2>2. \A p \in Queries, k \in Jobs : worker[p][k] = "none" <=> worker'[p][k] = "none"
    BY <1>t, <2>1, WorkerSteps
  <2> QED
    BY <1>1, <1>2, <1>j, <2>1, <2>2
<1>9. ASSUME UNCHANGED <<timer, worker>> PROVE DueInOrder'
  BY <1>9 DEF DueInOrder, Untouched
<1>10. ASSUME NEW q \in Queries, ReplyUdp(q) \/ ReplyTcp(q) PROVE DueInOrder'
  BY <1>9, <1>10 DEF ReplyUdp, ReplyTcp
<1>11. CASE ClientCloses \/ UNCHANGED vars
  BY <1>9, <1>11 DEF ClientCloses, vars
<1> QED
  BY <1>4, <1>5, <1>6, <1>7, <1>8, <1>10, <1>11 DEF Next, Select

\* handleTCPConnection reads the next query when it has answered the one
\* before, and a late goroutine never takes a query up again.
LEMMA TurnStep ==
  ASSUME RaceInv, TcpInTurn, [Next]_vars
  PROVE  TcpInTurn'
<1>t. phase \in [Queries -> {"new", "rejected", "racing", "won", "lost", "done"}]
  BY DEF RaceInv, TypeOK
<1>1. ASSUME NEW q \in Queries, query' = query,
             phase[q] \notin {"new", "done"}, \A p \in Queries \ {q} : phase'[p] = phase[p]
      PROVE  TcpInTurn'
  BY <1>1, <1>t DEF TcpInTurn
<1>2. ASSUME UNCHANGED <<query, phase>> PROVE TcpInTurn'
  BY <1>2 DEF TcpInTurn
<1>3. ASSUME NEW q \in Queries, query' = query, phase[q] = "new",
             \A p \in Queries \ {q} : phase'[p] = phase[p],
             query[q].via = "tcp" => \A p \in Queries : p < q /\ query[p].via = "tcp" => phase[p] = "done"
      PROVE  TcpInTurn'
  BY <1>3, <1>t, RaceAssumption DEF TcpInTurn, RaceAssumption
<1>4. ASSUME NEW q \in Queries, AcceptUdp(q) \/ AcceptTcp(q) PROVE TcpInTurn'
  <2>1. /\ query' = query /\ phase[q] = "new" /\ \A p \in Queries \ {q} : phase'[p] = phase[p]
        /\ query[q].via = "tcp" => \A p \in Queries : p < q /\ query[p].via = "tcp" => phase[p] = "done"
    BY <1>4, <1>t DEF AcceptUdp, AcceptTcp, StartRace
  <2> QED
    BY <1>3, <2>1
<1>5. ASSUME NEW q \in Queries, Select(q) \/ ReplyUdp(q) \/ ReplyTcp(q) PROVE TcpInTurn'
  <2>1. /\ query' = query /\ phase[q] \notin {"new", "done"}
        /\ \A p \in Queries \ {q} : phase'[p] = phase[p]
    BY <1>5, <1>t DEF Select, TakeResponse, TakeTcpTimer, TakeFallbackTimer, TakeTimeout, TimerReady,
                      ReplyUdp, ReplyTcp
  <2> QED
    BY <1>1, <2>1
<1>6. ASSUME NEW q \in Queries, \E t \in Timers : TimerExpires(q, t) PROVE TcpInTurn'
  BY <1>2, <1>6 DEF TimerExpires
<1>7. ASSUME NEW q \in Queries, NEW j \in Jobs, WorkerFails(q, j) \/ WorkerAnswers(q, j) \/ WorkerSends(q, j)
      PROVE  TcpInTurn'
  BY <1>2, <1>7 DEF WorkerFails, WorkerAnswers, WorkerSends
<1>8. CASE ClientCloses \/ UNCHANGED vars
  BY <1>2, <1>8 DEF ClientCloses, vars
<1> QED
  BY <1>4, <1>5, <1>6, <1>7, <1>8 DEF Next

\* The true part of TcpBeforeFallback, which a run shows violated: if the delay
\* of the global upstreams is longer than that of the TCP retry, as in the
\* defaults of the flags, raceQuery asks none of them before the retry is due,
\* though its select may take the two in either order when both are.
THEOREM FallbackWaitsForTcpDelay ==
  ASSUME TcpDelay < FallbackDelay
  PROVE  Spec => []FallbackAfterTcpDue
<1>1. DueInOrder => FallbackAfterTcpDue
  BY DEF DueInOrder, FallbackAfterTcpDue, Untouched
<1>2. RaceInv /\ DueInOrder /\ [Next]_vars => DueInOrder'
  BY DueStep
<1> QED
  BY <1>1, <1>2, DueInit, RaceInvariance, PTL DEF Spec

\* Queries of the TCP connection are taken up and answered one by one in the
\* order they were read, whatever late goroutines and timers of earlier
\* races do, so replies cannot change places.
THEOREM TcpQueriesInTurn == Spec => []TcpInTurn
<1>1. RaceInv /\ TcpInTurn /\ [Next]_vars => TcpInTurn'
  BY TurnStep
<1> QED
  BY <1>1, DueInit, RaceInvariance, PTL DEF Spec

-----------------------------------------------------------------------------
(* The refinement: which step of DnsService each step of the proxy is.     *)

\* The query of DnsService does not change when that of the proxy does not.
LEMMA QuietService ==
  ASSUME query' = query, \A q \in Queries : Outcome(q)' = Outcome(q)
  PROVE  UNCHANGED Service!vars
<1>1. [q \in Queries |-> Outcome(q)]' = [q \in Queries |-> Outcome(q)]
  OBVIOUS
<1>2. [q \in Queries |->
         [via |-> query[q].via, refusable |-> query[q].form = "wellFormed"]]'
      = [q \in Queries |->
         [via |-> query[q].via, refusable |-> query[q].form = "wellFormed"]]
  OBVIOUS
<1> QED
  BY <1>1, <1>2 DEF Service!vars

\* A step that changes the outcome of one query.
LEMMA OutcomeOfOne ==
  ASSUME NEW q \in Queries, NEW o, Outcome(q)' = o,
         \A p \in Queries \ {q} : phase'[p] = phase[p] /\ reply'[p] = reply[p]
  PROVE  [p \in Queries |-> Outcome(p)]'
           = [[p \in Queries |-> Outcome(p)] EXCEPT ![q] = o]
<1>1. \A p \in Queries \ {q} : Outcome(p)' = Outcome(p)
  BY DEF Outcome
<1> QED
  BY <1>1

\* Taking up a query in its turn is TakeUp, for UDP and TCP.
LEMMA AcceptRefines ==
  ASSUME RaceInv, NEW q \in Queries, phase[q] = "new", StartRace(q),
         UNCHANGED <<query, responses, timer, reply>>,
         query[q].via = "tcp" =>
           \A p \in Queries : p < q /\ query[p].via = "tcp" => phase[p] = "done"
  PROVE  Service!TakeUp(q)
<1>1. phase'[q] \in {"lost", "racing"} /\ \A p \in Queries \ {q} : phase'[p] = phase[p]
  BY DEF StartRace, RaceInv, TypeOK
<1>2. Outcome(q) = "unseen" /\ Outcome(q)' = "pending"
  BY <1>1 DEF Outcome
<1>3. \A p \in Queries : phase[p] = "done" => Outcome(p) \in Service!Outcomes
  BY DEF Outcome, Service!Outcomes
<1>4. [p \in Queries |-> Outcome(p)]'
        = [[p \in Queries |-> Outcome(p)] EXCEPT ![q] = "pending"]
  BY <1>1, <1>2, OutcomeOfOne
<1>5. Service!InTurn(q)
  BY <1>3 DEF Service!InTurn
<1> QED
  BY <1>2, <1>4, <1>5 DEF Service!TakeUp

\* The reply that goes back, and how it ends a query of DnsService.
LEMMA ReplyRefines ==
  ASSUME RaceInv, NEW q \in Queries, ReplyUdp(q) \/ ReplyTcp(q)
  PROVE  \E o \in Service!Outcomes : Service!Finish(q, o)
<1>1. /\ phase[q] \in {"won", "lost"} /\ phase'[q] = "done"
      /\ \A p \in Queries \ {q} : phase'[p] = phase[p] /\ reply'[p] = reply[p]
      /\ query' = query
  BY DEF ReplyUdp, ReplyTcp, RaceInv, TypeOK
<1>2. phase[q] = "won" => reply[q] \notin {NoReply, ServFail}
  BY NotJobs DEF RaceInv, WinnerDone
<1>3. Refuse(q) = IF query[q].form = "wellFormed" THEN ServFail ELSE NoReply
  BY DEF Refuse
<1>4. /\ reply'[q] = ServFail => query[q].form = "wellFormed"
      /\ reply'[q] = NoReply => query[q].form # "wellFormed" \/ query[q].via = "tcp"
  <2>1. CASE ReplyUdp(q)
    <3>1. reply'[q] = IF phase[q] = "won" THEN reply[q] ELSE Refuse(q)
      BY <2>1 DEF ReplyUdp, RaceInv, TypeOK
    <3> QED
      BY <1>2, <1>3, <3>1, NotJobs
  <2>2. CASE ReplyTcp(q)
    <3>1. \/ reply'[q] = IF phase[q] = "won" THEN reply[q] ELSE Refuse(q)
          \/ reply'[q] = NoReply
      BY <2>2 DEF ReplyTcp, RaceInv, TypeOK
    <3>2. query[q].via = "tcp"
      BY <2>2 DEF ReplyTcp
    <3> QED
      BY <1>2, <1>3, <3>1, <3>2, NotJobs
  <2> QED
    BY <2>1, <2>2
<1>5. Outcome(q) = "pending"
  BY <1>1 DEF Outcome
<1>6. PICK o \in Service!Outcomes :
        /\ Outcome(q)' = o
        /\ o = "nothing" => reply'[q] = NoReply
        /\ o = "servfail" => reply'[q] = ServFail
  BY <1>1 DEF Outcome, Service!Outcomes
<1>7. [p \in Queries |-> Outcome(p)]' = [[p \in Queries |-> Outcome(p)] EXCEPT ![q] = o]
  BY <1>1, <1>6, OutcomeOfOne
<1>8. UNCHANGED [p \in Queries |->
         [via |-> query[p].via, refusable |-> query[p].form = "wellFormed"]]
  BY <1>1
<1>9. Service!Finish(q, o)
  BY <1>4, <1>5, <1>6, <1>7, <1>8 DEF Service!Finish
<1> QED
  BY <1>9

LEMMA RaceStepRefines == RaceInv /\ [Next]_vars => [Service!Next]_(Service!vars)
<1> SUFFICES ASSUME RaceInv, [Next]_vars PROVE [Service!Next]_(Service!vars)
  OBVIOUS
<1>1. ASSUME NEW q \in Queries, AcceptUdp(q)
      PROVE  Service!Next
  <2>1. Service!TakeUp(q)
    BY <1>1, AcceptRefines DEF AcceptUdp
  <2> QED
    BY <2>1 DEF Service!Next
<1>2. ASSUME NEW q \in Queries, AcceptTcp(q), query[q].form \notin {"noId", "noHeader"}
      PROVE  Service!Next
  <2>1. Service!TakeUp(q)
    BY <1>2, AcceptRefines DEF AcceptTcp
  <2> QED
    BY <2>1 DEF Service!Next
<1>3. ASSUME NEW q \in Queries, AcceptTcp(q), query[q].form \in {"noId", "noHeader"}
      PROVE  UNCHANGED Service!vars
  <2>1. /\ phase[q] = "new" /\ phase'[q] = "rejected" /\ query' = query /\ reply' = reply
        /\ \A p \in Queries \ {q} : phase'[p] = phase[p]
    BY <1>3 DEF AcceptTcp, RaceInv, TypeOK
  <2>2. \A p \in Queries : Outcome(p)' = Outcome(p)
    BY <2>1 DEF Outcome
  <2> QED
    BY <2>1, <2>2, QuietService
<1>4. ASSUME NEW q \in Queries, Select(q)
      PROVE  UNCHANGED Service!vars
  <2>1. /\ phase[q] = "racing" /\ phase'[q] \in {"racing", "won", "lost"} /\ query' = query
        /\ \A p \in Queries \ {q} : phase'[p] = phase[p] /\ reply'[p] = reply[p]
    BY <1>4 DEF Select, TakeResponse, TakeTcpTimer, TakeFallbackTimer, TakeTimeout, TimerReady,
       RaceInv, TypeOK
  <2>2. \A p \in Queries : Outcome(p)' = Outcome(p)
    BY <2>1 DEF Outcome
  <2> QED
    BY <2>1, <2>2, QuietService
<1>5. ASSUME NEW q \in Queries, ReplyUdp(q) \/ ReplyTcp(q)
      PROVE  Service!Next
  BY <1>5, ReplyRefines DEF Service!Next
<1>6. ASSUME UNCHANGED <<query, phase, reply>>
      PROVE  UNCHANGED Service!vars
  <2>1. \A p \in Queries : Outcome(p)' = Outcome(p)
    BY <1>6 DEF Outcome
  <2> QED
    BY <1>6, <2>1, QuietService
<1>7. ASSUME NEW q \in Queries, NEW t \in Timers, TimerExpires(q, t)
      PROVE  UNCHANGED Service!vars
  BY <1>6, <1>7 DEF TimerExpires
<1>8. ASSUME NEW q \in Queries, NEW j \in Jobs,
             WorkerFails(q, j) \/ WorkerAnswers(q, j) \/ WorkerSends(q, j)
      PROVE  UNCHANGED Service!vars
  BY <1>6, <1>8 DEF WorkerFails, WorkerAnswers, WorkerSends
<1>9. CASE ClientCloses \/ UNCHANGED vars
  BY <1>6, <1>9 DEF ClientCloses, vars
<1> QED
  BY <1>1, <1>2, <1>3, <1>4, <1>5, <1>7, <1>8, <1>9 DEF Next

LEMMA RaceInitRefines == Init => Service!Init
<1> SUFFICES ASSUME Init PROVE Service!Init
  OBVIOUS
<1>1. \A q \in Queries : Outcome(q) = "unseen"
  BY DEF Init, Outcome
<1>2. \A q \in Queries :
        [via |-> query[q].via, refusable |-> query[q].form = "wellFormed"]
          \in [via : {"udp", "tcp"}, refusable : BOOLEAN]
  BY DEF Init
<1> QED
  BY <1>1, <1>2 DEF Service!Init

\* The proxy keeps the safety half of the promise of DnsService: a query is
\* taken up once and in its turn on the TCP connection, has one outcome, and
\* stays without an answer only if no SERVFAIL can be built or TCP ended.
THEOREM KeepsServicePromise == Spec => ServiceSafe
BY RaceInitRefines, RaceInvariance, RaceStepRefines, PTL DEF Spec, ServiceSafe, Service!SafeSpec
=============================================================================
