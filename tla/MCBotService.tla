---------------------------- MODULE MCBotService ----------------------------
(***************************************************************************)
(* BotService for TLC: three updates on two messages, and a pool of three, *)
(* one of them taken by the metrics, so that two restarts can fill it.     *)
(***************************************************************************)
EXTENDS BotService

CONSTANTS m1, m2

\* Both panels have operations, the first one all buttons; the first press of
\* an operation is on it.
Panels ==
  /\ \A u \in Ids : sent[u].kind \in {"ask", "status"} => sent[u].msg = m1
  /\ \A u \in Ids : (IsButton(u) /\ sent[u].msg = m2) =>
       \E v \in 1..u - 1 : IsButton(v) /\ sent[v].msg = m1

MCInit == Init /\ Panels
MCSpec == MCInit /\ [][Next]_vars /\ Fairness
=============================================================================
