----------------------------- MODULE DnsService -----------------------------
(***************************************************************************)
(* What the ChinaList race proxy promises to the resolver in front of it:  *)
(* every query it takes up gets one outcome, an answer of an upstream or   *)
(* SERVFAIL. A query may stay unanswered only if no SERVFAIL can be built  *)
(* for it, or if it came over a TCP connection that ended. Outcomes on the *)
(* TCP connection come in the order of the queries.                        *)
(***************************************************************************)
EXTENDS Naturals

CONSTANT Queries    \* a finite set of numbers: the order of arrival

VARIABLES
  query,            \* query[q]: how q came and whether a SERVFAIL can be built for it
  outcome           \* outcome[q]: "unseen" before the proxy takes q up

vars == <<query, outcome>>

Outcomes == {"upstream", "servfail", "nothing"}

Init ==
  /\ query \in [Queries -> [via : {"udp", "tcp"}, refusable : BOOLEAN]]
  /\ outcome = [q \in Queries |-> "unseen"]

\* On the TCP connection the queries before q are through.
InTurn(q) ==
  query[q].via = "tcp" =>
    \A p \in Queries : p < q /\ query[p].via = "tcp" => outcome[p] \in Outcomes

TakeUp(q) ==
  /\ outcome[q] = "unseen"
  /\ InTurn(q)
  /\ outcome' = [outcome EXCEPT ![q] = "pending"]
  /\ query' = query

\* Over TCP a reply may also be lost with the connection.
Finish(q, o) ==
  /\ outcome[q] = "pending"
  /\ o = "nothing" => ~query[q].refusable \/ query[q].via = "tcp"
  /\ o = "servfail" => query[q].refusable
  /\ outcome' = [outcome EXCEPT ![q] = o]
  /\ query' = query

Next == \E q \in Queries : TakeUp(q) \/ \E o \in Outcomes : Finish(q, o)

\* The safety half of the promise.
SafeSpec == Init /\ [][Next]_vars

Spec ==
  /\ Init
  /\ [][Next]_vars
  /\ \A q \in Queries : WF_vars(\E o \in Outcomes : Finish(q, o))
=============================================================================
