----------------------------- MODULE MCDnsRace -----------------------------
(***************************************************************************)
(* One domestic and one global upstream, three goroutines per race, and    *)
(* two queries: a UDP query beside a TCP connection that is turned away,   *)
(* or a TCP query that can be refused followed by one that cannot. Races   *)
(* of UDP queries share nothing, so one of them is enough; a UDP query     *)
(* without a header is treated like one with a bad question.               *)
(***************************************************************************)
EXTENDS DnsRace

MCInit ==
  /\ Init
  /\ query[2].via = "tcp"
  /\ \/ query[1].via = "udp" /\ query[1].form # "noHeader" /\ query[2].form = "noHeader"
     \/ query[1].via = "tcp" /\ query[1].form = "wellFormed" /\ query[2].form = "badQuestion"

MCSpec == MCInit /\ [][Next]_vars /\ Fairness
=============================================================================
