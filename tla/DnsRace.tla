------------------------------ MODULE DnsRace ------------------------------
(***************************************************************************)
(* The DNS race proxy, cmd/china-dns-race-proxy/china-dns-race-proxy.go.   *)
(*                                                                         *)
(* Every query is raced by a call of raceQuery of its own: one goroutine   *)
(* per upstream and transport, a buffered channel, and three timers. UDP   *)
(* queries are raced concurrently; the queries of a TCP connection one     *)
(* after the other. Only the order in which timers expire matters, so time *)
(* is left out: a timer may expire once those with a shorter delay have.   *)
(***************************************************************************)
EXTENDS Naturals, Sequences, FiniteSets

CONSTANTS
  Queries,          \* numbers in order of arrival; their count bounds the model
  Primary,          \* domestic upstreams
  Fallback,         \* global upstreams
  TcpDelay, FallbackDelay, Timeout

ASSUME RaceAssumption ==
  /\ Queries \subseteq Nat
  /\ IsFiniteSet(Primary) /\ IsFiniteSet(Fallback)
  /\ Primary \cup Fallback # {}
  /\ {TcpDelay, FallbackDelay, Timeout} \subseteq Nat

VARIABLES
  query,            \* query[q]: transport it came by, and what its bytes allow
  phase,            \* phase[q]: where the handler of q is ("rejected": never raced)
  worker,           \* worker[q][j]: where the goroutine for job j of q is
  responses,        \* responses[q]: the channel of q's race
  timer,            \* timer[q][t]: "armed", "ready" (a tick waits in its channel) or "over"
  reply,            \* reply[q]: what goes back to the client
  link              \* the client's TCP connection: "open" or "closed"

vars == <<query, phase, worker, responses, timer, reply, link>>

\* What becomes of a query depends on its length and on its question section:
\* below 2 bytes it has no id, below 12 no header, and without a well formed
\* question dnsErrorResponse returns nil.
Forms == {"noId", "noHeader", "badQuestion", "wellFormed"}

Jobs == ({"udp", "tcp"} \X Primary) \cup ({"fallback"} \X Fallback)

\* What a handler sends back if it is not the answer of a job.
NoReply == <<"nothing">>
ServFail == <<"servfail">>

Timers == {"tcp", "fallback", "timeout"}

\* The types; no timer outlives the select that a response has ended.
TypeOK ==
  /\ query \in [Queries -> [via : {"udp", "tcp"}, form : Forms]]
  /\ phase \in [Queries -> {"new", "rejected", "racing", "won", "lost", "done"}]
  /\ worker \in [Queries -> [Jobs -> {"none", "running", "answered", "done"}]]
  /\ responses \in [Queries -> Seq(Jobs)]
  /\ timer \in [Queries -> [Timers -> {"armed", "ready", "over"}]]
  /\ reply \in [Queries -> Jobs \cup {NoReply, ServFail}]
  /\ link \in {"open", "closed"}
  /\ \A q \in Queries : phase[q] = "won" => \A t \in Timers : timer[q][t] = "over"

Init ==
  /\ query \in [Queries -> [via : {"udp", "tcp"}, form : Forms]]
  /\ phase = [q \in Queries |-> "new"]
  /\ worker = [q \in Queries |-> [j \in Jobs |-> "none"]]
  /\ responses = [q \in Queries |-> <<>>]
  /\ timer = [q \in Queries |-> [t \in Timers |-> "armed"]]
  /\ reply = [q \in Queries |-> NoReply]
  /\ link = "open"

-----------------------------------------------------------------------------
(* raceQuery.                                                              *)

\* What a bug would do: room for one answer of each upstream.
OnePerUpstream == Cardinality(Primary) + Cardinality(Fallback)

\* Room for the answers of all goroutines, so that none ever waits.
Capacity == 2 * Cardinality(Primary) + Cardinality(Fallback)

\* The fallback upstreams never get a shorter delay than the TCP retry.
Delay(t) ==
  CASE t = "tcp" -> TcpDelay
    [] t = "fallback" -> IF FallbackDelay < TcpDelay THEN TcpDelay ELSE FallbackDelay
    [] t = "timeout" -> Timeout

Start(q, jobs) ==
  worker' = [worker EXCEPT ![q] =
               [j \in Jobs |-> IF j \in jobs THEN "running" ELSE @[j]]]

\* One goroutine per primary starts at once; a query without an id fails here.
StartRace(q) ==
  IF query[q].form = "noId"
  THEN /\ phase' = [phase EXCEPT ![q] = "lost"]
       /\ worker' = worker
  ELSE /\ phase' = [phase EXCEPT ![q] = "racing"]
       /\ Start(q, {"udp"} \X Primary)

TimerExpires(q, t) ==
  /\ phase[q] = "racing"
  /\ timer[q][t] = "armed"
  /\ \A s \in Timers : Delay(s) < Delay(t) => timer[q][s] # "armed"
  /\ timer' = [timer EXCEPT ![q][t] = "ready"]
  /\ UNCHANGED <<query, phase, worker, responses, reply, link>>

\* raceQuery returns: its deferred calls stop the timers.
StopTimers(q) == timer' = [timer EXCEPT ![q] = [t \in Timers |-> "over"]]

\* What a bug would do: return without stopping the timers.
TakeResponseNoStop(q) ==
  /\ phase[q] = "racing"
  /\ responses[q] # <<>>
  /\ reply' = [reply EXCEPT ![q] = Head(responses[q])]
  /\ responses' = [responses EXCEPT ![q] = Tail(@)]
  /\ phase' = [phase EXCEPT ![q] = "won"]
  /\ UNCHANGED <<query, worker, timer, link>>

\* The four arms of the select: any that is ready may be chosen.
TakeResponse(q) ==
  /\ phase[q] = "racing"
  /\ responses[q] # <<>>
  /\ reply' = [reply EXCEPT ![q] = Head(responses[q])]
  /\ responses' = [responses EXCEPT ![q] = Tail(@)]
  /\ phase' = [phase EXCEPT ![q] = "won"]
  /\ StopTimers(q)
  /\ UNCHANGED <<query, worker, link>>

TimerReady(q, t) == phase[q] = "racing" /\ timer[q][t] = "ready"

TakeTcpTimer(q) ==
  /\ TimerReady(q, "tcp")
  /\ timer' = [timer EXCEPT ![q]["tcp"] = "over"]
  /\ Start(q, {"tcp"} \X Primary)
  /\ UNCHANGED <<query, phase, responses, reply, link>>

TakeFallbackTimer(q) ==
  /\ TimerReady(q, "fallback")
  /\ timer' = [timer EXCEPT ![q]["fallback"] = "over"]
  /\ Start(q, {"fallback"} \X Fallback)
  /\ UNCHANGED <<query, phase, responses, reply, link>>

TakeTimeout(q) ==
  /\ TimerReady(q, "timeout")
  /\ StopTimers(q)
  /\ phase' = [phase EXCEPT ![q] = "lost"]
  /\ UNCHANGED <<query, worker, responses, reply, link>>

-----------------------------------------------------------------------------
(* The goroutines of a race. They go on after it is over.                  *)

\* The upstream refuses, is silent until the deadline, or answers something
\* validDNSResponse rejects.
WorkerFails(q, j) ==
  /\ worker[q][j] = "running"
  /\ worker' = [worker EXCEPT ![q][j] = "done"]
  /\ UNCHANGED <<query, phase, responses, timer, reply, link>>

WorkerAnswers(q, j) ==
  /\ worker[q][j] = "running"
  /\ worker' = [worker EXCEPT ![q][j] = "answered"]
  /\ UNCHANGED <<query, phase, responses, timer, reply, link>>

\* What a bug would do: not return after sending.
WorkerSendsOn(q, j) ==
  /\ worker[q][j] = "answered"
  /\ Len(responses[q]) < Capacity
  /\ responses' = [responses EXCEPT ![q] = Append(@, j)]
  /\ UNCHANGED <<query, phase, worker, timer, reply, link>>

WorkerSends(q, j) ==
  /\ worker[q][j] = "answered"
  /\ Len(responses[q]) < Capacity
  /\ responses' = [responses EXCEPT ![q] = Append(@, j)]
  /\ worker' = [worker EXCEPT ![q][j] = "done"]
  /\ UNCHANGED <<query, phase, timer, reply, link>>

-----------------------------------------------------------------------------
(* The handlers.                                                           *)

AcceptUdp(q) ==
  /\ phase[q] = "new"
  /\ query[q].via = "udp"
  /\ StartRace(q)
  /\ UNCHANGED <<query, responses, timer, reply, link>>

\* What a bug would do: read on while earlier queries are being raced.
AcceptTcpPipelined(q) ==
  /\ phase[q] = "new"
  /\ query[q].via = "tcp"
  /\ link = "open"
  /\ query[q].form \in {"badQuestion", "wellFormed"}
  /\ StartRace(q)
  /\ UNCHANGED <<query, responses, timer, reply, link>>

\* The connection's loop reads the next query when it has answered the one
\* before; a length below 12 ends the connection.
AcceptTcp(q) ==
  /\ phase[q] = "new"
  /\ query[q].via = "tcp"
  /\ link = "open"
  /\ \A p \in Queries : p < q /\ query[p].via = "tcp" => phase[p] = "done"
  /\ IF query[q].form \in {"noId", "noHeader"}
     THEN /\ phase' = [phase EXCEPT ![q] = "rejected"]
          /\ link' = "closed"
          /\ worker' = worker
     ELSE /\ StartRace(q)
          /\ link' = link
  /\ UNCHANGED <<query, responses, timer, reply>>

Refuse(q) == IF query[q].form = "wellFormed" THEN ServFail ELSE NoReply

\* Whether the datagram could be written is only logged.
ReplyUdp(q) ==
  /\ query[q].via = "udp"
  /\ phase[q] \in {"won", "lost"}
  /\ reply' = [reply EXCEPT ![q] = IF phase[q] = "won" THEN @ ELSE Refuse(q)]
  /\ phase' = [phase EXCEPT ![q] = "done"]
  /\ UNCHANGED <<query, worker, responses, timer, link>>

ReplyTcp(q) ==
  /\ query[q].via = "tcp"
  /\ phase[q] \in {"won", "lost"}
  /\ phase' = [phase EXCEPT ![q] = "done"]
  /\ LET answer == IF phase[q] = "won" THEN reply[q] ELSE Refuse(q)
     IN \/ /\ link = "open"
           /\ answer # NoReply
           /\ reply' = [reply EXCEPT ![q] = answer]
           /\ link' = link
        \/ \* Nothing to say, or the write fails: the connection ends.
           /\ reply' = [reply EXCEPT ![q] = NoReply]
           /\ link' = "closed"
  /\ UNCHANGED <<query, worker, responses, timer>>

ClientCloses ==
  /\ link = "open"
  /\ link' = "closed"
  /\ UNCHANGED <<query, phase, worker, responses, timer, reply>>

-----------------------------------------------------------------------------
Select(q) ==
  TakeResponse(q) \/ TakeTcpTimer(q) \/ TakeFallbackTimer(q) \/ TakeTimeout(q)

Next ==
  \/ \E q \in Queries :
       \/ AcceptUdp(q) \/ AcceptTcp(q)
       \/ Select(q)
       \/ ReplyUdp(q) \/ ReplyTcp(q)
       \/ \E t \in Timers : TimerExpires(q, t)
       \/ \E j \in Jobs : WorkerFails(q, j) \/ WorkerAnswers(q, j) \/ WorkerSends(q, j)
  \/ ClientCloses

\* Timers expire, goroutines run, and every dial, read and write has a
\* deadline. Nothing makes a client send or an upstream answer. A timer
\* expires once, so fairness to the timers of a race is fairness to each.
Fairness ==
  \A q \in Queries :
    /\ WF_vars(Select(q))
    /\ WF_vars(ReplyUdp(q) \/ ReplyTcp(q))
    /\ WF_vars(\E t \in Timers : TimerExpires(q, t))
    /\ \A j \in Jobs : WF_vars(WorkerFails(q, j) \/ WorkerAnswers(q, j) \/ WorkerSends(q, j))

Spec == Init /\ [][Next]_vars /\ Fairness

-----------------------------------------------------------------------------
(* Properties.                                                             *)

\* A race's channel holds answers of its own goroutines only, each once, and
\* never one that is still at work: with NoneWaits this is what makes the
\* capacity of the channel sufficient.
ChannelSound ==
  \A q \in Queries :
    /\ \A i \in 1..Len(responses[q]) : worker[q][responses[q][i]] = "done"
    /\ \A i, k \in 1..Len(responses[q]) : responses[q][i] = responses[q][k] => i = k
    /\ \A i \in 1..Len(responses[q]) : responses[q][i] # reply[q]

\* A goroutine with an answer never finds the channel full, even when the
\* race is over and nobody reads it any more.
NoneWaits ==
  \A q \in Queries, j \in Jobs :
    worker[q][j] = "answered" => Len(responses[q]) < Capacity

\* Every goroutine of a race ends, however the race ended: once the queries
\* have come, the proxy gets back to running no goroutine at all.
WorkersExit ==
  <>[](\A q \in Queries, j \in Jobs : worker[q][j] \in {"none", "done"})

Outcome(q) ==
  CASE phase[q] \in {"new", "rejected"} -> "unseen"
    [] phase[q] \in {"racing", "won", "lost"} -> "pending"
    [] phase[q] = "done" /\ reply[q] = NoReply -> "nothing"
    [] phase[q] = "done" /\ reply[q] = ServFail -> "servfail"
    [] OTHER -> "upstream"

Service == INSTANCE DnsService WITH
  query <- [q \in Queries |->
              [via |-> query[q].via, refusable |-> query[q].form = "wellFormed"]],
  outcome <- [q \in Queries |-> Outcome(q)]

\* Every step of the proxy is one that DnsService allows, or none of its:
\* outcomes come once, for a query that was taken up in its turn, and
\* "nothing" only where no SERVFAIL can be built or a connection ended.
ServiceSafe == Service!SafeSpec

\* The proxy implements the promise of DnsService, liveness included: every
\* query taken up gets one outcome, with silent upstreams too.
ServiceKept == Service!Spec

\* "Domestic resolvers are queried over UDP first, then retried over TCP 53
\* before global fallback resolvers are used."
TcpBeforeFallback ==
  \A q \in Queries :
    (\E f \in Fallback : worker[q][<<"fallback", f>>] # "none") =>
       \A p \in Primary : worker[q][<<"tcp", p>>] # "none"
=============================================================================
