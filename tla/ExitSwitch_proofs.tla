------------------------- MODULE ExitSwitch_proofs ---------------------------
(***************************************************************************)
(* What holds of the switchable egress for any exits and helpers.          *)
(*                                                                         *)
(* The types hold for any number of operators. That the recorded exit      *)
(* exists and that only helpers with an outdated reading divert traffic    *)
(* holds for one operator at a time (OneOperator), because nothing in      *)
(* install.sh keeps two commands apart. Between the route and the stop of  *)
(* the previous exit, traffic may leave through the old exit, the new one  *)
(* or none: Diversion says which at each place of set_exit.                *)
(***************************************************************************)
EXTENDS ExitSwitch, TLAPS

\* A helper starts the unit of a mihomo exit only.
StartsMihomo ==
  \A h \in Helpers : helper[h].pc \in {"start", "starting"} => helper[h].cur \in Mihomo

\* The units and their helpers: an ExecStartPost runs just while its unit starts.
Tied == \A e \in Mihomo : (helper[e].pc # "idle") = (unit[e] = "starting")

HelperStates == [Helpers -> [pc : HelperPoints, cur : Exits \cup {Local}]]
UnitStates == [Mihomo -> {"inactive", "starting", "active", "retry"}]
OpStates == [pc : OpPoints, name : Exits \cup {Local}, victim : Exits \cup {None}, prev : Exits \cup {Local}]

RouteOK == dev \subseteq Exits /\ route \in dev \cup {None}
UnitsOK == unit \in UnitStates /\ alive \subseteq Mihomo /\ helper \in HelperStates /\ Tied /\ StartsMihomo
OpsOK == op \in [Operators -> OpStates]
RecordsOK == exits \subseteq Exits /\ current \in Exits \cup {Local}
FlagsOK == cut \in BOOLEAN /\ stale \in BOOLEAN /\ disturbed \in BOOLEAN

ExitInv == RouteOK /\ UnitsOK /\ OpsOK /\ RecordsOK /\ FlagsOK

\* Commands run one at a time.
OneOperator == \A p, q \in Operators : p = q

\* What set_exit and del_exit know while they run.
CommandKnows(o) ==
  /\ o.victim # None => o.name = Local
  /\ o.pc \in {"delDown", "delRemove"} => current # o.victim
  /\ o.pc \in {"flush", "up", "starting", "wait", "route", "write", "downPrev"} => o.name \in exits \cup {Local}
  /\ o.pc \in {"flush", "up", "starting", "wait", "route", "write"} => o.prev = current
  /\ o.pc = "downPrev" => current = o.name /\ o.prev \in exits \cup {Local}

\* Where traffic leaves, as long as no helper has acted on an old reading.
Diversion ==
  ~ stale =>
    /\ ~ cut /\ (\A p \in Operators : op[p].pc \notin {"write", "downPrev"}) => route \in {None, current}
    /\ \A p \in Operators :
         /\ op[p].pc = "write" => route \in {None, current, op[p].name}
         /\ op[p].pc = "downPrev" => route \in {None, current, op[p].prev}

RecordInv ==
  /\ current \in exits \cup {Local}
  /\ \A p \in Operators : CommandKnows(op[p])
  /\ Diversion

LEMMA ExitInvTypes == ExitInv => TypeOK
BY DEF ExitInv, RouteOK, UnitsOK, OpsOK, RecordsOK, FlagsOK, HelperStates, UnitStates, OpStates, Tied, TypeOK

-----------------------------------------------------------------------------
(* Steps of a helper, of systemd and of the kernel.                        *)

LEMMA IdleStates == HelperIdle \in [pc : HelperPoints, cur : Exits \cup {Local}] /\ HelperIdle.pc = "idle"
                    /\ OpIdle \in OpStates /\ OpIdle.pc = "idle" /\ OpIdle.name = Local
                    /\ OpIdle.victim = None /\ OpIdle.prev = Local
BY DEF HelperIdle, HelperPoints, OpIdle, OpStates, OpPoints

LEMMA MihomoHelps == Mihomo \subseteq Helpers /\ Boot \in Helpers \ Mihomo /\ Mihomo \subseteq Exits
BY ExitAssumption DEF ExitAssumption, Mihomo, Helpers

\* A helper that is at work goes on, and is still at work.
LEMMA HelperGoes ==
  ASSUME UnitsOK, NEW h \in Helpers, NEW state \in [pc : HelperPoints \ {"idle"}, cur : Exits \cup {Local}],
         helper[h].pc # "idle", helper' = [helper EXCEPT ![h] = state],
         state.pc \in {"start", "starting"} => state.cur \in Mihomo,
         UNCHANGED <<unit, alive>>
  PROVE  UnitsOK'
<1>1. /\ helper' \in HelperStates /\ helper'[h] = state
      /\ \A k \in Helpers \ {h} : helper'[k] = helper[k]
  BY DEF UnitsOK, HelperStates, HelperPoints
<1>2. Tied'
  BY <1>1, MihomoHelps DEF UnitsOK, Tied
<1>3. StartsMihomo'
  BY <1>1 DEF UnitsOK, StartsMihomo
<1> QED
  BY <1>1, <1>2, <1>3 DEF UnitsOK

LEMMA HelperGoesTo ==
  ASSUME UnitsOK, NEW h \in Helpers, NEW from \in HelperPoints \ {"idle"}, NEW to \in HelperPoints \ {"idle"},
         HelperGoto(h, from, to), to \in {"start", "starting"} => helper[h].cur \in Mihomo,
         UNCHANGED <<unit, alive>>
  PROVE  UnitsOK'
<1> DEFINE state == [pc |-> to, cur |-> helper[h].cur]
<1>1. helper[h] \in [pc : HelperPoints, cur : Exits \cup {Local}]
  BY DEF UnitsOK, HelperStates
<1>2. [helper[h] EXCEPT !.pc = to] = state
  BY <1>1
<1>3. helper' = [helper EXCEPT ![h] = state]
  BY <1>2 DEF HelperGoto, UnitsOK, HelperStates
<1>4. state \in [pc : HelperPoints \ {"idle"}, cur : Exits \cup {Local}]
  BY <1>1
<1>5. helper[h].pc # "idle" /\ (state.pc \in {"start", "starting"} => state.cur \in Mihomo)
  BY DEF HelperGoto
<1> HIDE DEF state
<1> QED
  BY <1>3, <1>4, <1>5, HelperGoes

\* The end of a helper is the end of its unit's start.
LEMMA HelperDone ==
  ASSUME UnitsOK, NEW h \in Helpers, HelperEnds(h), alive' = alive
  PROVE  UnitsOK'
<1>1. /\ helper' \in HelperStates /\ helper'[h].pc = "idle"
      /\ \A k \in Helpers \ {h} : helper'[k] = helper[k]
  BY IdleStates DEF HelperEnds, UnitsOK, HelperStates
<1>2. /\ unit' \in UnitStates
      /\ \A e \in Mihomo : IF e = h THEN unit'[e] \in {"active", "retry"} ELSE unit'[e] = unit[e]
  BY DEF HelperEnds, UnitsOK, UnitStates
<1>3. Tied'
  BY <1>1, <1>2, MihomoHelps DEF UnitsOK, Tied
<1>4. StartsMihomo'
  BY <1>1 DEF UnitsOK, StartsMihomo
<1> QED
  BY <1>1, <1>2, <1>3, <1>4 DEF UnitsOK

\* A unit that starts has its helper begin to read.
LEMMA UnitStarts ==
  ASSUME UnitsOK, NEW e \in Mihomo, UnitStart(e, helper)
  PROVE  UnitsOK'
<1>1. /\ helper' \in HelperStates /\ helper'[e].pc = "read"
      /\ \A k \in Helpers \ {e} : helper'[k] = helper[k]
  BY MihomoHelps DEF UnitStart, UnitsOK, HelperStates, HelperPoints
<1>2. /\ unit' \in UnitStates /\ unit'[e] = "starting"
      /\ \A u \in Mihomo \ {e} : unit'[u] = unit[u]
  BY DEF UnitStart, UnitsOK, UnitStates
<1>3. Tied'
  BY <1>1, <1>2, MihomoHelps DEF UnitsOK, Tied
<1>4. StartsMihomo'
  BY <1>1 DEF UnitsOK, StartsMihomo
<1> QED
  BY <1>1, <1>2, <1>3, <1>4 DEF UnitsOK, UnitStart

LEMMA SystemctlStarts ==
  ASSUME UnitsOK, NEW e \in Mihomo, SystemctlStart(e, helper)
  PROVE  UnitsOK'
<1>1. CASE unit[e] = "inactive"
  BY <1>1, UnitStarts DEF SystemctlStart
<1>2. CASE unit[e] # "inactive"
  BY <1>2 DEF SystemctlStart, UnitsOK, Tied, StartsMihomo
<1> QED
  BY <1>1, <1>2

\* A helper that waits for a unit; never that of its own, which is starting.
LEMMA HelperStarts ==
  ASSUME UnitsOK, NEW h \in Helpers, helper[h].pc = "start",
         SystemctlStart(helper[h].cur, [helper EXCEPT ![h].pc = "starting"])
  PROVE  UnitsOK'
<1> DEFINE e == helper[h].cur
           hs == [helper EXCEPT ![h].pc = "starting"]
<1>1. e \in Mihomo
  BY DEF UnitsOK, StartsMihomo
<1>2. /\ hs \in HelperStates /\ hs[h].pc = "starting" /\ hs[h].cur = e
      /\ \A k \in Helpers \ {h} : hs[k] = helper[k]
  BY DEF UnitsOK, HelperStates, HelperPoints
<1> HIDE DEF hs
<1>3. SystemctlStart(e, hs)
  BY DEF hs
<1> HIDE DEF e
<1>4. CASE unit[e] = "inactive"
  <2>1. UnitStart(e, hs)
    BY <1>3, <1>4 DEF SystemctlStart
  <2>2. /\ helper' \in HelperStates /\ helper'[e].pc = "read"
        /\ \A k \in Helpers \ {e} : helper'[k] = hs[k]
    BY <1>1, <1>2, <2>1, MihomoHelps DEF UnitStart, HelperStates, HelperPoints
  <2>3. /\ unit' \in UnitStates /\ unit'[e] = "starting"
        /\ \A u \in Mihomo \ {e} : unit'[u] = unit[u]
    BY <1>1, <2>1 DEF UnitStart, UnitsOK, UnitStates
  <2>4. Tied'
    BY <1>2, <2>2, <2>3, MihomoHelps DEF UnitsOK, Tied
  <2>5. StartsMihomo'
    BY <1>1, <1>2, <2>2 DEF UnitsOK, StartsMihomo
  <2> QED
    BY <1>1, <2>1, <2>2, <2>3, <2>4, <2>5 DEF UnitsOK, UnitStart
<1>5. CASE unit[e] # "inactive"
  <2>1. helper' = hs /\ UNCHANGED <<unit, alive>>
    BY <1>3, <1>5 DEF SystemctlStart
  <2>2. Tied'
    BY <1>2, <2>1, MihomoHelps DEF UnitsOK, Tied
  <2>3. StartsMihomo'
    BY <1>1, <1>2, <2>1 DEF UnitsOK, StartsMihomo
  <2> QED
    BY <1>2, <2>1, <2>2, <2>3 DEF UnitsOK
<1> QED
  BY <1>4, <1>5

\* exit_down takes route, device, unit and helper together.
LEMMA ExitGoesDown ==
  ASSUME UnitsOK, RouteOK, NEW e, ExitDown(e)
  PROVE  /\ UnitsOK' /\ RouteOK'
         /\ route' = route \/ route' = None
         /\ e \in exits => route' # e \/ route' = None
<1>1. CASE e \notin exits
  BY <1>1 DEF ExitDown, network, UnitsOK, RouteOK, Tied, StartsMihomo
<1>2. CASE e \in exits
  <2>1. /\ dev' = dev \ {e} /\ route' = RouteWithout(e) /\ alive' = alive \ {e}
        /\ unit' = [u \in Mihomo |-> IF u = e THEN "inactive" ELSE unit[u]]
        /\ helper' = [h \in Helpers |-> IF h = e THEN HelperIdle ELSE helper[h]]
    BY <1>2 DEF ExitDown
  <2>2. unit' \in UnitStates /\ helper' \in HelperStates
    BY <2>1, IdleStates DEF UnitsOK, UnitStates, HelperStates
  <2>3. Tied'
    BY <2>1, IdleStates, MihomoHelps DEF UnitsOK, Tied
  <2>4. StartsMihomo'
    BY <2>1, IdleStates DEF UnitsOK, StartsMihomo
  <2> QED
    BY <2>1, <2>2, <2>3, <2>4 DEF UnitsOK, RouteOK, RouteWithout
<1> QED
  BY <1>1, <1>2

-----------------------------------------------------------------------------
(* Types.                                                                  *)

LEMMA ExitInitInv == Init => ExitInv
<1> SUFFICES ASSUME Init PROVE ExitInv
  OBVIOUS
<1>1. UnitsOK
  <2>1. helper \in HelperStates /\ \A h \in Helpers : helper[h].pc = "idle"
    BY IdleStates DEF Init, HelperStates
  <2>2. unit \in UnitStates /\ \A e \in Mihomo : unit[e] = "inactive"
    BY DEF Init, UnitStates
  <2> QED
    BY <2>1, <2>2, MihomoHelps DEF Init, UnitsOK, Tied, StartsMihomo
<1>2. OpsOK
  BY IdleStates DEF Init, OpsOK
<1>3. RouteOK /\ RecordsOK /\ FlagsOK
  BY DEF Init, RouteOK, RecordsOK, FlagsOK
<1> QED
  BY <1>1, <1>2, <1>3 DEF ExitInv

\* systemd, the kernel and a reboot.
LEMMA MachineKeepsTypes ==
  ASSUME ExitInv, (\E e \in Mihomo : DeviceUp(e) \/ MihomoDies(e) \/ Retry(e)) \/ Reboot
  PROVE  ExitInv'
<1>t. RouteOK /\ UnitsOK /\ OpsOK /\ RecordsOK /\ FlagsOK
  BY DEF ExitInv
<1>1. ASSUME NEW e \in Mihomo, DeviceUp(e) PROVE ExitInv'
  <2>1. UNCHANGED <<exits, unit, alive, route, current, helper, op, cut, stale, disturbed>>
    BY <1>1 DEF DeviceUp
  <2>2. UnitsOK' /\ OpsOK' /\ RecordsOK' /\ FlagsOK'
    BY <1>t, <2>1 DEF UnitsOK, Tied, StartsMihomo, OpsOK, RecordsOK, FlagsOK
  <2>3. RouteOK'
    BY <1>1, <1>t, MihomoHelps DEF DeviceUp, RouteOK
  <2> QED
    BY <2>2, <2>3 DEF ExitInv
<1>2. ASSUME NEW e \in Mihomo, MihomoDies(e) PROVE ExitInv'
  <2>1. /\ unit' \in UnitStates
        /\ \A u \in Mihomo : (unit'[u] = "starting") = (unit[u] = "starting")
    BY <1>2, <1>t DEF MihomoDies, UnitsOK, UnitStates
  <2>2. UnitsOK'
    BY <1>2, <1>t, <2>1 DEF MihomoDies, UnitsOK, Tied, StartsMihomo
  <2>3. RouteOK'
    BY <1>2, <1>t DEF MihomoDies, RouteOK, RouteWithout
  <2> QED
    BY <1>2, <1>t, <2>2, <2>3 DEF MihomoDies, ExitInv, OpsOK, RecordsOK, FlagsOK
<1>3. ASSUME NEW e \in Mihomo, Retry(e) PROVE ExitInv'
  <2>1. UnitsOK'
    BY <1>3, <1>t, UnitStarts DEF Retry
  <2> QED
    BY <1>3, <1>t, <2>1 DEF Retry, ExitInv, RouteOK, OpsOK, RecordsOK, FlagsOK
<1>4. CASE Reboot
  <2>1. /\ helper' \in HelperStates /\ \A e \in Mihomo : helper'[e].pc = "idle"
        /\ \A h \in Helpers : helper'[h].pc \in {"idle", "read"}
    BY <1>4, IdleStates, MihomoHelps DEF Reboot, HelperStates, HelperPoints
  <2>2. unit' \in UnitStates /\ \A e \in Mihomo : unit'[e] = "inactive"
    BY <1>4 DEF Reboot, UnitStates
  <2>3. UnitsOK'
    BY <1>4, <2>1, <2>2 DEF Reboot, UnitsOK, Tied, StartsMihomo
  <2>4. OpsOK'
    BY <1>4, IdleStates DEF Reboot, OpsOK
  <2> QED
    BY <1>4, <1>t, <2>3, <2>4 DEF Reboot, ExitInv, RouteOK, RecordsOK, FlagsOK
<1> QED
  BY <1>1, <1>2, <1>3, <1>4

\* proxy-gateway-apply-exit.sh.
LEMMA HelperKeepsTypes ==
  ASSUME ExitInv, NEW h \in Helpers, Helper(h)
  PROVE  ExitInv'
<1>t. RouteOK /\ UnitsOK /\ OpsOK /\ RecordsOK /\ FlagsOK
  BY DEF ExitInv
<1>s. UNCHANGED <<exits, current, op, cut>> => OpsOK' /\ RecordsOK'
  BY <1>t DEF OpsOK, RecordsOK
<1>1. CASE HelperRead(h)
  <2> DEFINE state == [pc |-> IF current = Local THEN "flush" ELSE "device", cur |-> current]
  <2>1. /\ state \in [pc : HelperPoints \ {"idle"}, cur : Exits \cup {Local}]
        /\ state.pc \notin {"start", "starting"}
    BY <1>t DEF RecordsOK, HelperPoints
  <2>2. helper' = [helper EXCEPT ![h] = state] /\ helper[h].pc # "idle"
    BY <1>1 DEF HelperRead
  <2> HIDE DEF state
  <2>3. UNCHANGED <<exits, dev, unit, alive, route, current, op, cut, stale, disturbed>>
    BY <1>1 DEF HelperRead, network
  <2>4. UnitsOK'
    BY <1>t, <2>1, <2>2, <2>3, HelperGoes
  <2> QED
    BY <1>t, <1>s, <2>3, <2>4 DEF ExitInv, RouteOK, FlagsOK
<1>2. CASE HelperFlush(h)
  <2>1. UnitsOK'
    BY <1>2, <1>t, HelperDone DEF HelperFlush
  <2> QED
    BY <1>2, <1>t, <1>s, <2>1 DEF HelperFlush, ExitInv, RouteOK, FlagsOK
<1>3. CASE HelperDevice(h)
  <2>1. UNCHANGED <<exits, unit, alive, route, current, op, cut, stale, disturbed>>
    BY <1>3 DEF HelperDevice
  <2>2. PICK to \in {"wait", "start"} : /\ HelperGoto(h, "device", to)
                                        /\ to = "start" => helper[h].cur \in Mihomo
    BY <1>3 DEF HelperDevice
  <2>3. {"device", "wait", "start"} \subseteq HelperPoints \ {"idle"}
    BY DEF HelperPoints
  <2>4. UnitsOK'
    BY <1>t, <2>1, <2>2, <2>3, HelperGoesTo
  <2>5. RouteOK'
    BY <1>3, <1>t, <2>1, ExitAssumption DEF ExitAssumption, HelperDevice, RouteOK, RecordsOK
  <2> QED
    BY <1>t, <1>s, <2>1, <2>4, <2>5 DEF ExitInv, FlagsOK
<1>4. CASE HelperStart(h)
  <2>1. UnitsOK'
    BY <1>4, <1>t, HelperStarts DEF HelperStart
  <2> QED
    BY <1>4, <1>t, <1>s, <2>1 DEF HelperStart, ExitInv, RouteOK, FlagsOK
<1>5. ASSUME NEW from \in {"starting", "wait"}, NEW to \in {"wait", "route"}, HelperGoto(h, from, to),
             UNCHANGED <<exits, network, current, op, cut, stale, disturbed>>
      PROVE  ExitInv'
  <2>1. {"starting", "wait", "route"} \subseteq HelperPoints \ {"idle"}
    BY DEF HelperPoints
  <2>2. UnitsOK'
    BY <1>5, <1>t, <2>1, HelperGoesTo DEF network
  <2> QED
    BY <1>5, <1>t, <1>s, <2>2 DEF network, ExitInv, RouteOK, FlagsOK
<1>6. CASE HelperStarted(h)
  BY <1>5, <1>6 DEF HelperStarted
<1>7. CASE HelperWait(h)
  BY <1>5, <1>7 DEF HelperWait
<1>8. CASE HelperRoute(h)
  <2>1. UnitsOK'
    BY <1>8, <1>t, HelperDone DEF HelperRoute
  <2> QED
    BY <1>8, <1>t, <1>s, <2>1 DEF HelperRoute, ExitInv, RouteOK, FlagsOK
<1>9. CASE HelperGivesUp(h)
  <2>1. UnitsOK'
    BY <1>9, <1>t, HelperDone DEF HelperGivesUp
  <2> QED
    BY <1>9, <1>t, <1>s, <2>1 DEF HelperGivesUp, ExitInv, RouteOK, FlagsOK
<1> QED
  BY <1>1, <1>2, <1>3, <1>4, <1>6, <1>7, <1>8, <1>9 DEF Helper

\* A command goes on, with the others where they were.
LEMMA OpGoes ==
  ASSUME OpsOK, NEW p \in Operators, NEW o \in OpStates, op' = [op EXCEPT ![p] = o]
  PROVE  OpsOK' /\ op'[p] = o /\ \A q \in Operators \ {p} : op'[q] = op[q]
BY DEF OpsOK

LEMMA OpGoesTo ==
  ASSUME OpsOK, NEW p \in Operators, NEW from, NEW to \in OpPoints, OpGoto(p, from, to)
  PROVE  /\ OpsOK' /\ op'[p] = [op[p] EXCEPT !.pc = to]
         /\ op'[p].pc = to /\ op[p].pc = from
         /\ op'[p].name = op[p].name /\ op'[p].victim = op[p].victim /\ op'[p].prev = op[p].prev
         /\ \A q \in Operators \ {p} : op'[q] = op[q]
<1>1. op[p] \in OpStates
  BY DEF OpsOK
<1>2. [op[p] EXCEPT !.pc = to] \in OpStates
  BY <1>1 DEF OpStates
<1>3. op' = [op EXCEPT ![p] = [op[p] EXCEPT !.pc = to]]
  BY DEF OpGoto, OpsOK
<1>4. OpsOK' /\ op'[p] = [op[p] EXCEPT !.pc = to] /\ \A q \in Operators \ {p} : op'[q] = op[q]
  BY <1>2, <1>3, OpGoes
<1> QED
  BY <1>1, <1>4 DEF OpGoto, OpStates

LEMMA SameNetwork ==
  ASSUME ExitInv, UNCHANGED <<network, helper>>
  PROVE  RouteOK' /\ UnitsOK'
BY DEF ExitInv, network, RouteOK, UnitsOK, Tied, StartsMihomo

\* set_exit, del_exit and add_exit.
LEMMA CommandKeepsTypes ==
  ASSUME ExitInv, NEW p \in Operators, Command(p) \/ Step(p) \/ Kill(p)
  PROVE  ExitInv'
<1>t. RouteOK /\ UnitsOK /\ OpsOK /\ RecordsOK /\ FlagsOK
  BY DEF ExitInv
<1>p. OpPoints = {"idle", "delCheck", "read", "flush", "up", "starting", "wait", "route",
                  "write", "downPrev", "delDown", "delRemove"}
  BY DEF OpPoints
<1>o. op[p] \in OpStates
  BY <1>t DEF OpsOK
<1>1. ASSUME NEW name \in Exits \cup {Local}, SetExit(p, name) PROVE ExitInv'
  <2>1. [OpIdle EXCEPT !.pc = "read", !.name = name] \in OpStates
    BY <1>p, IdleStates DEF OpStates
  <2>2. OpsOK'
    BY <1>1, <1>t, <2>1, OpGoes DEF SetExit
  <2> QED
    BY <1>1, <1>t, <2>2, SameNetwork DEF SetExit, ExitInv, RecordsOK, FlagsOK
<1>2. ASSUME NEW e \in Exits, DelExit(p, e) PROVE ExitInv'
  <2>1. [OpIdle EXCEPT !.pc = "delCheck", !.victim = e] \in OpStates
    BY <1>p, IdleStates DEF OpStates
  <2>2. OpsOK'
    BY <1>2, <1>t, <2>1, OpGoes DEF DelExit
  <2> QED
    BY <1>2, <1>t, <2>2, SameNetwork DEF DelExit, ExitInv, RecordsOK, FlagsOK
<1>3. ASSUME NEW e \in Exits, AddExit(p, e) PROVE ExitInv'
  BY <1>3, <1>t, SameNetwork DEF AddExit, ExitInv, RecordsOK, FlagsOK, OpsOK
<1>4. ASSUME NEW from, NEW to \in OpPoints, OpGoto(p, from, to),
             UNCHANGED <<exits, network, current, helper, cut, stale, disturbed>>
      PROVE  ExitInv'
  <2>1. OpsOK'
    BY <1>4, <1>t, OpGoesTo
  <2> QED
    BY <1>4, <1>t, <2>1, SameNetwork DEF ExitInv, RecordsOK, FlagsOK
<1>5. CASE DelCheck(p)
  BY <1>4, <1>5, <1>p DEF DelCheck
<1>6. CASE SetRead(p)
  <2>1. PICK o \in OpStates : op' = [op EXCEPT ![p] = o]
    <3>1. \A pc \in {"flush", "up"} : [op[p] EXCEPT !.pc = pc, !.prev = current] \in OpStates
      BY <1>t, <1>o, <1>p DEF OpStates, RecordsOK
    <3>2. \/ op' = [op EXCEPT ![p] = [op[p] EXCEPT !.pc = "flush", !.prev = current]]
          \/ op' = [op EXCEPT ![p] = [op[p] EXCEPT !.pc = "up", !.prev = current]]
          \/ op' = [op EXCEPT ![p] = OpIdle]
      BY <1>6, <1>t DEF SetRead, OpsOK
    <3> QED
      BY <3>1, <3>2, IdleStates
  <2>2. OpsOK'
    BY <1>t, <2>1, OpGoes
  <2> QED
    BY <1>6, <1>t, <2>2, SameNetwork DEF SetRead, ExitInv, RecordsOK, FlagsOK
<1>7. CASE SetFlush(p)
  <2>1. OpsOK'
    BY <1>7, <1>t, <1>p, OpGoesTo DEF SetFlush
  <2> QED
    BY <1>7, <1>t, <2>1 DEF SetFlush, ExitInv, RouteOK, UnitsOK, Tied, StartsMihomo, RecordsOK, FlagsOK
<1>8. CASE SetUp(p)
  <2>1. PICK to \in {"wait", "starting"} : OpGoto(p, "up", to)
    BY <1>8 DEF SetUp
  <2>2. OpsOK'
    BY <1>t, <1>p, <2>1, OpGoesTo
  <2>3. UnitsOK'
    <3>1. CASE UNCHANGED <<unit, alive, helper>>
      BY <1>t, <3>1 DEF UnitsOK, Tied, StartsMihomo
    <3>2. CASE op[p].name \in Mihomo /\ SystemctlStart(op[p].name, helper)
      BY <1>t, <3>2, SystemctlStarts
    <3> QED
      BY <1>8, <3>1, <3>2 DEF SetUp
  <2>4. RouteOK'
    BY <1>8, <1>t DEF SetUp, RouteOK, RecordsOK
  <2> QED
    BY <1>8, <1>t, <2>2, <2>3, <2>4 DEF SetUp, ExitInv, RecordsOK, FlagsOK
<1>9. CASE SetStarted(p)
  BY <1>4, <1>9, <1>p DEF SetStarted
<1>10. CASE SetWait(p)
  BY <1>4, <1>10, <1>p DEF SetWait
<1>11. CASE SetRoute(p)
  <2>1. OpsOK'
    BY <1>11, <1>t, <1>p, OpGoesTo DEF SetRoute
  <2> QED
    BY <1>11, <1>t, <2>1 DEF SetRoute, ExitInv, RouteOK, UnitsOK, Tied, StartsMihomo, RecordsOK, FlagsOK
<1>12. CASE SetGivesUp(p)
  <2>1. OpsOK'
    BY <1>12, <1>t, IdleStates, OpGoes DEF SetGivesUp
  <2> QED
    BY <1>12, <1>t, <2>1, SameNetwork DEF SetGivesUp, ExitInv, RecordsOK, FlagsOK
<1>13. CASE SetWrite(p)
  <2>1. OpsOK'
    BY <1>13, <1>t, <1>p, OpGoesTo DEF SetWrite
  <2>2. current' \in Exits \cup {Local}
    BY <1>13, <1>o DEF SetWrite, OpStates
  <2> QED
    BY <1>13, <1>t, <2>1, <2>2, SameNetwork DEF SetWrite, ExitInv, RecordsOK, FlagsOK
<1>14. CASE SetDownPrev(p)
  <2>1. OpsOK'
    <3>1. [op[p] EXCEPT !.pc = "delDown"] \in OpStates
      BY <1>o, <1>p DEF OpStates
    <3>2. op' = [op EXCEPT ![p] = OpIdle] \/ op' = [op EXCEPT ![p] = [op[p] EXCEPT !.pc = "delDown"]]
      BY <1>14, <1>t DEF SetDownPrev, OpsOK
    <3> QED
      BY <1>t, <3>1, <3>2, IdleStates, OpGoes
  <2>2. RouteOK' /\ UnitsOK'
    BY <1>14, <1>t, SameNetwork, ExitGoesDown DEF SetDownPrev
  <2> QED
    BY <1>14, <1>t, <2>1, <2>2 DEF SetDownPrev, ExitInv, RecordsOK, FlagsOK
<1>15. CASE DelDown(p)
  <2>1. OpsOK'
    BY <1>15, <1>t, <1>p, OpGoesTo DEF DelDown
  <2>2. RouteOK' /\ UnitsOK'
    BY <1>15, <1>t, ExitGoesDown DEF DelDown
  <2> QED
    BY <1>15, <1>t, <2>1, <2>2 DEF DelDown, ExitInv, RecordsOK, FlagsOK
<1>16. CASE DelRemove(p)
  <2>1. OpsOK'
    BY <1>16, <1>t, IdleStates, OpGoes DEF DelRemove
  <2> QED
    BY <1>16, <1>t, <2>1, SameNetwork DEF DelRemove, ExitInv, RecordsOK, FlagsOK
<1>17. CASE Kill(p)
  <2>1. OpsOK'
    BY <1>17, <1>t, IdleStates, OpGoes DEF Kill
  <2> QED
    BY <1>17, <1>t, <2>1, SameNetwork DEF Kill, ExitInv, RecordsOK, FlagsOK
<1> QED
  BY <1>1, <1>2, <1>3, <1>5, <1>6, <1>7, <1>8, <1>9, <1>10, <1>11, <1>12, <1>13, <1>14,
     <1>15, <1>16, <1>17 DEF Command, Step

LEMMA ExitNextInv == ExitInv /\ [Next]_vars => ExitInv'
<1>1. ExitInv /\ UNCHANGED vars => ExitInv'
  BY DEF vars, ExitInv, RouteOK, UnitsOK, Tied, StartsMihomo, OpsOK, RecordsOK, FlagsOK
<1> QED
  BY <1>1, MachineKeepsTypes, HelperKeepsTypes, CommandKeepsTypes DEF Next

LEMMA ExitInvariance == Spec => []ExitInv
BY ExitInitInv, ExitNextInv, PTL DEF Spec

\* Every variable keeps its type, for any number of operators: the route is
\* over a device there is, and a mihomo unit is starting just while its
\* ExecStartPost runs, whatever starts, stops and kills units meanwhile.
THEOREM ExitTypeCorrect == Spec => []TypeOK
BY ExitInvariance, ExitInvTypes, PTL

-----------------------------------------------------------------------------
(* The recorded exit and the route, with one operator.                     *)

LEMMA RecordInitInv == Init => RecordInv
BY IdleStates DEF Init, RecordInv, CommandKnows, Diversion

\* Without a step of a command, the records stay, and only the route and the
\* mark for an outdated reading can change.
LEMMA OutsideKeepsRecords ==
  ASSUME RecordInv, UNCHANGED <<exits, current, op, cut>>, stale' \in BOOLEAN,
         ~ stale' => ~ stale /\ route' \in {route, None, current}
  PROVE  RecordInv'
<1>1. \A p \in Operators : CommandKnows(op[p])'
  BY DEF RecordInv, CommandKnows
<1>2. Diversion'
  BY DEF RecordInv, Diversion
<1> QED
  BY <1>1, <1>2 DEF RecordInv

LEMMA MachineKeepsRecords ==
  ASSUME ExitInv, RecordInv, (\E e \in Mihomo : DeviceUp(e) \/ MihomoDies(e) \/ Retry(e)) \/ Reboot
  PROVE  RecordInv'
<1>1. ASSUME NEW e \in Mihomo, DeviceUp(e) \/ MihomoDies(e) \/ Retry(e) PROVE RecordInv'
  <2>1. UNCHANGED <<exits, current, op, cut, stale>> /\ route' \in {route, None}
    BY <1>1 DEF DeviceUp, MihomoDies, Retry, RouteWithout
  <2> QED
    BY <2>1, OutsideKeepsRecords DEF ExitInv, FlagsOK
<1>2. CASE Reboot
  <2>1. UNCHANGED <<exits, current>> /\ route' = None /\ \A p \in Operators : op'[p] = OpIdle
    BY <1>2 DEF Reboot
  <2>2. \A p \in Operators : CommandKnows(op[p])'
    BY <2>1, IdleStates DEF CommandKnows
  <2> QED
    BY <2>1, <2>2, IdleStates DEF RecordInv, Diversion
<1> QED
  BY <1>1, <1>2

LEMMA HelperKeepsRecords ==
  ASSUME ExitInv, RecordInv, NEW h \in Helpers, Helper(h)
  PROVE  RecordInv'
<1>1. UNCHANGED <<exits, current, op, cut>>
  BY DEF Helper, HelperRead, HelperFlush, HelperDevice, HelperStart, HelperStarted, HelperWait,
         HelperRoute, HelperGivesUp
<1>2. stale' \in BOOLEAN /\ (~ stale' => ~ stale /\ route' \in {route, None, current})
  BY DEF Helper, HelperRead, HelperFlush, HelperDevice, HelperStart, HelperStarted, HelperWait,
         HelperRoute, HelperGivesUp, network, ExitInv, FlagsOK
<1> QED
  BY <1>1, <1>2, OutsideKeepsRecords

\* A step of the one command there is: what is left to show.
LEMMA OneCommand ==
  ASSUME OneOperator, NEW p \in Operators,
         current' \in exits' \cup {Local}, CommandKnows(op[p])',
         ~ stale' =>
           /\ ~ cut' /\ op'[p].pc \notin {"write", "downPrev"} => route' \in {None, current'}
           /\ op'[p].pc = "write" => route' \in {None, current', op'[p].name}
           /\ op'[p].pc = "downPrev" => route' \in {None, current', op'[p].prev}
  PROVE  RecordInv'
<1>1. \A q \in Operators : q = p
  BY DEF OneOperator
<1> QED
  BY <1>1 DEF RecordInv, Diversion

LEMMA CommandKeepsRecords ==
  ASSUME OneOperator, ExitInv, RecordInv, NEW p \in Operators, Command(p) \/ Step(p) \/ Kill(p)
  PROVE  RecordInv'
<1>1. \A q \in Operators : q = p
  BY DEF OneOperator
<1>2. /\ current \in exits \cup {Local} /\ CommandKnows(op[p])
      /\ ~ stale =>
           /\ ~ cut /\ op[p].pc \notin {"write", "downPrev"} => route \in {None, current}
           /\ op[p].pc = "write" => route \in {None, current, op[p].name}
           /\ op[p].pc = "downPrev" => route \in {None, current, op[p].prev}
  BY <1>1 DEF RecordInv, Diversion
<1>t. /\ op[p] \in OpStates /\ OpsOK /\ exits \subseteq Exits /\ route \in Exits \cup {None}
      /\ Local \notin Exits /\ None \notin Exits
  BY ExitAssumption DEF ExitAssumption, ExitInv, OpsOK, RecordsOK, RouteOK
<1>p. OpPoints = {"idle", "delCheck", "read", "flush", "up", "starting", "wait", "route",
                  "write", "downPrev", "delDown", "delRemove"}
  BY DEF OpPoints
<1>r. UNCHANGED network => route' = route
  BY DEF network
\* What ends a command, or begins one, knows nothing yet.
<1>3. ASSUME op'[p].pc \in {"idle", "read", "delCheck"}, op'[p].victim # None => op'[p].name = Local,
             UNCHANGED <<current, route, stale>>, ~ cut' => ~ cut, current \in exits' \cup {Local},
             op[p].pc \notin {"write", "downPrev"} \/ cut'
      PROVE  RecordInv'
  <2>1. CommandKnows(op[p])'
    BY <1>3 DEF CommandKnows
  <2> QED
    BY <1>2, <1>3, <2>1, OneCommand
<1>4. ASSUME NEW name \in Exits \cup {Local}, SetExit(p, name) PROVE RecordInv'
  <2>1. op'[p].pc = "read" /\ op'[p].victim = None
    BY <1>4, <1>t, IdleStates DEF SetExit, OpsOK, OpStates
  <2> QED
    BY <1>2, <1>3, <1>4, <1>r, <2>1 DEF SetExit
<1>5. ASSUME NEW e \in Exits, DelExit(p, e) PROVE RecordInv'
  <2>1. op'[p].pc = "delCheck" /\ op'[p].name = Local
    BY <1>5, <1>t, IdleStates DEF DelExit, OpsOK, OpStates
  <2> QED
    BY <1>2, <1>3, <1>5, <1>r, <2>1 DEF DelExit
<1>6. ASSUME NEW e \in Exits, AddExit(p, e) PROVE RecordInv'
  <2>1. op' = op /\ op[p].pc = "idle" /\ exits \subseteq exits'
        /\ UNCHANGED <<current, route, stale, cut>>
    BY <1>6, <1>r DEF AddExit
  <2> QED
    BY <1>2, <1>3, <2>1 DEF CommandKnows
<1>7. CASE SetGivesUp(p) \/ Kill(p)
  <2>1. op'[p].pc = "idle" /\ op'[p].victim = None
    BY <1>7, <1>t, IdleStates DEF SetGivesUp, Kill, OpsOK
  <2>2. UNCHANGED <<exits, current, route, stale>> /\ (~ cut' => ~ cut)
    BY <1>7, <1>r DEF SetGivesUp, Kill
  <2>3. op[p].pc \notin {"write", "downPrev"} \/ cut'
    BY <1>7 DEF SetGivesUp, Kill
  <2> QED
    BY <1>2, <1>3, <2>1, <2>2, <2>3
<1>8. CASE DelCheck(p)
  <2>1. PICK to \in {"read", "delDown"} : /\ OpGoto(p, "delCheck", to)
                                          /\ to = "delDown" => current # op[p].victim
    BY <1>8 DEF DelCheck
  <2>2. op'[p].pc = to /\ op[p].pc = "delCheck" /\ op'[p].name = op[p].name /\ op'[p].victim = op[p].victim
    BY <1>t, <1>p, <2>1, OpGoesTo
  <2>3. UNCHANGED <<exits, current, route, cut, stale>>
    BY <1>8, <1>r DEF DelCheck
  <2>4. CommandKnows(op[p])'
    BY <1>2, <2>1, <2>2, <2>3 DEF CommandKnows
  <2> QED
    BY <1>2, <2>2, <2>3, <2>4, OneCommand
<1>9. CASE SetRead(p)
  <2>1. UNCHANGED <<exits, current, route, cut, stale>> /\ op[p].pc = "read"
    BY <1>9, <1>r DEF SetRead
  <2>2. \/ /\ op'[p].pc \in {"flush", "up"} /\ op'[p].prev = current /\ op'[p].victim = op[p].victim
           /\ op'[p].name = op[p].name /\ op[p].name \in exits \cup {Local}
        \/ op'[p].pc = "idle" /\ op'[p].victim = None
    BY <1>9, <1>t, IdleStates DEF SetRead, OpsOK, OpStates
  <2>3. CommandKnows(op[p])'
    BY <1>2, <2>1, <2>2 DEF CommandKnows
  <2> QED
    BY <1>2, <2>1, <2>2, <2>3, OneCommand
\* On to the next step of set_exit, with the route as it was or as it should be.
<1>10. ASSUME NEW from \in {"flush", "up", "starting", "wait", "route"},
              NEW to \in {"starting", "wait", "route", "write"}, OpGoto(p, from, to),
              UNCHANGED <<exits, current, cut>>,
              \/ to # "write" /\ UNCHANGED <<route, stale>>
              \/ to = "write" /\ route' \in {None, op[p].name}
       PROVE  RecordInv'
  <2>1. /\ op'[p].pc = to /\ op[p].pc = from
        /\ op'[p].name = op[p].name /\ op'[p].victim = op[p].victim /\ op'[p].prev = op[p].prev
    BY <1>10, <1>t, <1>p, OpGoesTo
  <2>2. CommandKnows(op[p])'
    BY <1>2, <1>10, <2>1 DEF CommandKnows
  <2> QED
    BY <1>2, <1>10, <2>1, <2>2, OneCommand
<1>11. CASE SetFlush(p)
  BY <1>10, <1>11 DEF SetFlush
<1>12. CASE SetUp(p)
  <2>1. PICK to \in {"wait", "starting"} : OpGoto(p, "up", to)
    BY <1>12 DEF SetUp
  <2> QED
    BY <1>10, <1>12, <2>1 DEF SetUp
<1>13. CASE SetStarted(p)
  BY <1>10, <1>13, <1>r DEF SetStarted
<1>14. CASE SetWait(p)
  BY <1>10, <1>14, <1>r DEF SetWait
<1>15. CASE SetRoute(p)
  BY <1>10, <1>15 DEF SetRoute
<1>16. CASE SetWrite(p)
  <2>1. /\ op'[p].pc = "downPrev" /\ op[p].pc = "write"
        /\ op'[p].name = op[p].name /\ op'[p].victim = op[p].victim /\ op'[p].prev = op[p].prev
    BY <1>16, <1>t, <1>p, OpGoesTo DEF SetWrite
  <2>2. current' = op[p].name /\ UNCHANGED <<exits, route, cut, stale>>
    BY <1>16, <1>r DEF SetWrite
  <2>3. CommandKnows(op[p])'
    BY <1>2, <2>1, <2>2 DEF CommandKnows
  <2>4. op[p].name \in exits \cup {Local} /\ op[p].prev = current
    BY <1>2, <2>1 DEF CommandKnows
  <2> QED
    BY <1>2, <2>1, <2>2, <2>3, <2>4, OneCommand
<1>17. CASE SetDownPrev(p)
  <2>1. op[p].pc = "downPrev" /\ UNCHANGED <<exits, current, stale>>
    BY <1>17 DEF SetDownPrev
  <2>2. current = op[p].name /\ op[p].prev \in exits \cup {Local} /\ (op[p].victim # None => op[p].name = Local)
    BY <1>2, <2>1 DEF CommandKnows
  <2>3. \/ op'[p].pc = "idle" /\ op'[p].victim = None
        \/ /\ op'[p].pc = "delDown" /\ op'[p].victim = op[p].victim /\ op'[p].name = op[p].name
           /\ op[p].victim # None
    BY <1>17, <1>t, IdleStates DEF SetDownPrev, OpsOK, OpStates
  <2>4. CommandKnows(op[p])'
    BY <1>t, <2>1, <2>2, <2>3 DEF CommandKnows, OpStates
  \* The route over the exit before is gone with its device.
  <2>5. ~ stale => route' \in {None, current}
    <3>1. CASE op[p].prev \in {Local, op[p].name}
      BY <1>2, <1>17, <1>r, <1>t, <2>1, <2>2, <3>1 DEF SetDownPrev
    <3>2. CASE op[p].prev \notin {Local, op[p].name}
      <4>1. ExitDown(op[p].prev) /\ op[p].prev \in exits
        BY <1>17, <2>2, <3>2 DEF SetDownPrev
      <4>2. (route' = route \/ route' = None) /\ (route' # op[p].prev \/ route' = None)
        BY <4>1, ExitGoesDown DEF ExitInv
      <4> QED
        BY <1>2, <2>1, <4>2
    <3> QED
      BY <3>1, <3>2
  <2> QED
    BY <1>2, <2>1, <2>3, <2>4, <2>5, OneCommand
<1>18. CASE DelDown(p)
  <2>1. /\ op'[p].pc = "delRemove" /\ op[p].pc = "delDown"
        /\ op'[p].name = op[p].name /\ op'[p].victim = op[p].victim /\ op'[p].prev = op[p].prev
    BY <1>18, <1>t, <1>p, OpGoesTo DEF DelDown
  <2>2. UNCHANGED <<exits, current, cut, stale>> /\ (route' = route \/ route' = None)
    BY <1>18, ExitGoesDown DEF DelDown, ExitInv
  <2>3. CommandKnows(op[p])'
    BY <1>2, <2>1, <2>2 DEF CommandKnows
  <2> QED
    BY <1>2, <2>1, <2>2, <2>3, OneCommand
<1>19. CASE DelRemove(p)
  <2>1. op'[p].pc = "idle" /\ op'[p].victim = None /\ op[p].pc = "delRemove"
    BY <1>19, <1>t, IdleStates DEF DelRemove, OpsOK
  <2>2. exits' = exits \ {op[p].victim} /\ UNCHANGED <<current, route, cut, stale>>
    BY <1>19, <1>r DEF DelRemove
  <2>3. current # op[p].victim
    BY <1>2, <2>1 DEF CommandKnows
  <2> QED
    BY <1>2, <1>3, <2>1, <2>2, <2>3
<1> QED
  BY <1>4, <1>5, <1>6, <1>7, <1>8, <1>9, <1>11, <1>12, <1>13, <1>14, <1>15, <1>16, <1>17,
     <1>18, <1>19 DEF Command, Step

LEMMA RecordNextInv == OneOperator /\ ExitInv /\ RecordInv /\ [Next]_vars => RecordInv'
<1>1. ExitInv /\ RecordInv /\ UNCHANGED vars => RecordInv'
  BY OutsideKeepsRecords DEF vars, ExitInv, FlagsOK
<1> QED
  BY <1>1, MachineKeepsRecords, HelperKeepsRecords, CommandKeepsRecords DEF Next

LEMMA RecordInvariance == ASSUME OneOperator PROVE Spec => []RecordInv
<1>1. ExitInv /\ RecordInv /\ [Next]_vars => RecordInv'
  BY RecordNextInv
<1> QED
  BY <1>1, RecordInitInv, ExitInvariance, PTL DEF Spec

\* With one operator, current-exit never names an exit without configuration,
\* not even while set_exit or del_exit runs, is killed or the machine reboots.
THEOREM CurrentExitExists == ASSUME OneOperator PROVE Spec => []CurrentExists
<1>1. RecordInv => CurrentExists
  BY DEF RecordInv, CurrentExists
<1> QED
  BY <1>1, RecordInvariance, PTL

\* With one operator, traffic leaves through the exit of current-exit or not
\* at all when nobody is at work, but for a killed command and for an
\* apply-exit helper that acted on what it had read before a switch.
THEOREM OnlyOldReadingsDivert == ASSUME OneOperator PROVE Spec => []OnlyStaleHelpersDivert
<1>1. RecordInv => OnlyStaleHelpersDivert
  BY DEF RecordInv, Diversion, OnlyStaleHelpersDivert, RecordedExitInUse, AtRest
<1> QED
  BY <1>1, RecordInvariance, PTL
=============================================================================
