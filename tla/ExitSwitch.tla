----------------------------- MODULE ExitSwitch -----------------------------
(***************************************************************************)
(* The switchable egress of install.sh: set_exit, del_exit and add_exit,   *)
(* run by the CLI and the bot without a lock; the apply-exit helper, run   *)
(* at boot and as ExecStartPost of every mihomo unit; systemd's units and  *)
(* the kernel's devices and routing table they work on.                    *)
(*                                                                         *)
(* A WireGuard device exists from wg-quick up to wg-quick down; the device *)
(* of a mihomo exit comes some time after its process and goes with it.    *)
(* The kernel drops the route over a device that goes.                     *)
(***************************************************************************)
EXTENDS Naturals

CONSTANTS
  Exits,        \* names an exit can have
  WgExits,      \* those of WireGuard exits; the others are run by mihomo
  Operators,    \* concurrent runs of the management script
  Local,        \* the exit "local"
  Boot,         \* the helper run by proxy-gateway-exit.service
  None

ASSUME ExitAssumption ==
  /\ WgExits \subseteq Exits
  /\ Local \notin Exits
  /\ Boot \notin Exits
  /\ None \notin Exits

Mihomo == Exits \ WgExits

\* Each mihomo unit has a helper of its own, its ExecStartPost.
Helpers == Mihomo \cup {Boot}

VARIABLES
  exits,        \* the exits that are configured (exit_exists)
  dev,          \* the exits whose device is up
  unit,         \* unit[e]: state of proxy-gateway-mihomo@e
  alive,        \* the exits whose mihomo process runs
  route,        \* the default route of the exit table
  current,      \* current-exit
  helper,       \* helper[h]: where helper h is, and the exit it read
  op,           \* op[p]: the command p runs, where it is, and what it read
  cut,          \* a command was killed half way, and no set_exit has finished since
  stale,        \* a helper acted on a current-exit that had changed since it was read,
                \* and no set_exit has set the route since
  disturbed     \* since the last boot something happened that boot cannot mend

vars == <<exits, dev, unit, alive, route, current, helper, op, cut, stale, disturbed>>

HelperPoints == {"idle", "read", "flush", "device", "start", "starting", "wait", "route"}
OpPoints == {"idle", "delCheck", "read", "flush", "up", "starting", "wait", "route",
             "write", "downPrev", "delDown", "delRemove"}

\* The types; a unit's own helper runs just while the unit is starting.
TypeOK ==
  /\ exits \subseteq Exits
  /\ dev \subseteq Exits
  /\ unit \in [Mihomo -> {"inactive", "starting", "active", "retry"}]
  /\ alive \subseteq Mihomo
  /\ route \in dev \cup {None}
  /\ current \in Exits \cup {Local}
  /\ helper \in [Helpers -> [pc : HelperPoints, cur : Exits \cup {Local}]]
  /\ op \in [Operators -> [pc : OpPoints, name : Exits \cup {Local},
                           victim : Exits \cup {None}, prev : Exits \cup {Local}]]
  /\ cut \in BOOLEAN
  /\ stale \in BOOLEAN
  /\ disturbed \in BOOLEAN
  /\ \A e \in Mihomo : (helper[e].pc # "idle") = (unit[e] = "starting")

HelperIdle == [pc |-> "idle", cur |-> Local]
OpIdle == [pc |-> "idle", name |-> Local, victim |-> None, prev |-> Local]

\* After setup_exit_switching: some exits, none of them in use.
Init ==
  /\ exits \in SUBSET Exits
  /\ dev = {}
  /\ unit = [e \in Mihomo |-> "inactive"]
  /\ alive = {}
  /\ route = None
  /\ current = Local
  /\ helper = [h \in Helpers |-> HelperIdle]
  /\ op = [p \in Operators |-> OpIdle]
  /\ cut = FALSE
  /\ stale = FALSE
  /\ disturbed = FALSE

network == <<dev, unit, alive, route>>

-----------------------------------------------------------------------------
(* systemd and the kernel.                                                 *)

RouteWithout(e) == IF route = e THEN None ELSE route

\* ExecStart of e, with its ExecStartPost begun; hs are the helpers meanwhile.
UnitStart(e, hs) ==
  /\ unit' = [unit EXCEPT ![e] = "starting"]
  /\ alive' = alive \cup {e}
  /\ helper' = [hs EXCEPT ![e] = [pc |-> "read", cur |-> Local]]

\* systemctl start e: a unit that is starting, or will be, is waited for.
SystemctlStart(e, hs) ==
  IF unit[e] = "inactive" THEN UnitStart(e, hs)
  ELSE helper' = hs /\ UNCHANGED <<unit, alive>>

\* What a bug would do: stop the process but not its ExecStartPost.
ExitDownProcessOnly(e) ==
  IF e \notin exits THEN UNCHANGED <<network, helper>>
  ELSE /\ dev' = dev \ {e}
       /\ route' = RouteWithout(e)
       /\ alive' = alive \ {e}
       /\ unit' = [u \in Mihomo |-> IF u = e THEN "inactive" ELSE unit[u]]
       /\ helper' = helper

\* exit_down: wg-quick down, or systemctl stop, which ends a running helper
\* too; nothing for an exit that is no longer configured.
ExitDown(e) ==
  IF e \notin exits THEN UNCHANGED <<network, helper>>
  ELSE /\ dev' = dev \ {e}
       /\ route' = RouteWithout(e)
       /\ alive' = alive \ {e}
       /\ unit' = [u \in Mihomo |-> IF u = e THEN "inactive" ELSE unit[u]]
       /\ helper' = [h \in Helpers |-> IF h = e THEN HelperIdle ELSE helper[h]]

\* mihomo has created its TUN device.
DeviceUp(e) ==
  /\ e \in alive \ dev
  /\ dev' = dev \cup {e}
  /\ UNCHANGED <<exits, unit, alive, route, current, helper, op, cut, stale, disturbed>>

\* mihomo dies. A unit that is active is restarted after a while; one that is
\* starting first waits for its ExecStartPost.
MihomoDies(e) ==
  /\ e \in alive
  /\ alive' = alive \ {e}
  /\ dev' = dev \ {e}
  /\ route' = RouteWithout(e)
  /\ unit' = IF unit[e] = "active" THEN [unit EXCEPT ![e] = "retry"] ELSE unit
  /\ disturbed' = TRUE
  /\ UNCHANGED <<exits, current, helper, op, cut, stale>>

\* Restart=on-failure.
Retry(e) ==
  /\ unit[e] = "retry"
  /\ UnitStart(e, helper)
  /\ UNCHANGED <<exits, dev, route, current, op, cut, stale, disturbed>>

Reboot ==
  /\ dev' = {}
  /\ unit' = [e \in Mihomo |-> "inactive"]
  /\ alive' = {}
  /\ route' = None
  /\ helper' = [h \in Helpers |-> IF h = Boot THEN [pc |-> "read", cur |-> Local] ELSE HelperIdle]
  /\ op' = [p \in Operators |-> OpIdle]
  /\ cut' = FALSE
  /\ stale' = FALSE
  /\ disturbed' = FALSE
  /\ UNCHANGED <<exits, current>>

-----------------------------------------------------------------------------
(* proxy-gateway-apply-exit.sh.                                            *)

HelperGoto(h, from, to) ==
  /\ helper[h].pc = from
  /\ helper' = [helper EXCEPT ![h].pc = to]

\* The end of an ExecStartPost, successful or not, ends the start of its unit.
HelperEnds(h) ==
  /\ helper' = [helper EXCEPT ![h] = HelperIdle]
  /\ unit' = [e \in Mihomo |->
                IF e # h THEN unit[e] ELSE IF e \in alive THEN "active" ELSE "retry"]

HelperRead(h) ==
  /\ helper[h].pc = "read"
  /\ helper' = [helper EXCEPT ![h] =
       [pc |-> IF current = Local THEN "flush" ELSE "device", cur |-> current]]
  /\ UNCHANGED <<exits, network, current, op, cut, stale, disturbed>>

HelperFlush(h) ==
  /\ helper[h].pc = "flush"
  /\ route' = None
  /\ HelperEnds(h)
  /\ stale' = (stale \/ current # helper[h].cur)
  /\ UNCHANGED <<exits, dev, alive, current, op, cut, disturbed>>

\* What a bug would do: start the unit whatever its state.
HelperDeviceAnyState(h) ==
  LET cur == helper[h].cur IN
  /\ cur \in exits
  /\ \/ cur \in dev /\ HelperGoto(h, "device", "wait") /\ dev' = dev
     \/ cur \in WgExits \ dev /\ HelperGoto(h, "device", "wait") /\ dev' = dev \cup {cur}
     \/ cur \in Mihomo \ dev /\ HelperGoto(h, "device", "start") /\ dev' = dev
  /\ UNCHANGED <<exits, unit, alive, route, current, op, cut, stale, disturbed>>

\* The device is there, or is brought up; a unit that is starting, as that of
\* the helper itself is, is not started again.
HelperDevice(h) ==
  LET cur == helper[h].cur IN
  /\ cur \in exits
  /\ \/ cur \in dev /\ HelperGoto(h, "device", "wait") /\ dev' = dev
     \/ cur \in WgExits \ dev /\ HelperGoto(h, "device", "wait") /\ dev' = dev \cup {cur}
     \/ /\ cur \in Mihomo \ dev
        /\ HelperGoto(h, "device", IF unit[cur] = "inactive" THEN "start" ELSE "wait")
        /\ dev' = dev
  /\ UNCHANGED <<exits, unit, alive, route, current, op, cut, stale, disturbed>>

HelperStart(h) ==
  /\ helper[h].pc = "start"
  /\ SystemctlStart(helper[h].cur, [helper EXCEPT ![h].pc = "starting"])
  /\ UNCHANGED <<exits, dev, route, current, op, cut, stale, disturbed>>

HelperStarted(h) ==
  /\ helper[h].pc = "starting"
  /\ unit[helper[h].cur] = "active"
  /\ HelperGoto(h, "starting", "wait")
  /\ UNCHANGED <<exits, network, current, op, cut, stale, disturbed>>

HelperWait(h) ==
  /\ helper[h].cur \in dev
  /\ HelperGoto(h, "wait", "route")
  /\ UNCHANGED <<exits, network, current, op, cut, stale, disturbed>>

HelperRoute(h) ==
  /\ helper[h].pc = "route"
  /\ helper[h].cur \in dev
  /\ route' = helper[h].cur
  /\ HelperEnds(h)
  /\ stale' = (stale \/ current # helper[h].cur)
  /\ UNCHANGED <<exits, dev, alive, current, op, cut, disturbed>>

\* The exit is gone, wg-quick or the unit fails, or five seconds pass without
\* the device. The failure of an ExecStartPost is ignored.
HelperGivesUp(h) ==
  LET cur == helper[h].cur IN
  /\ \/ helper[h].pc = "device" /\ cur \notin exits \cap (Mihomo \cup dev)
     \/ helper[h].pc = "starting" /\ unit[cur] \in {"inactive", "retry"}
     \/ helper[h].pc \in {"wait", "route"} /\ cur \notin dev
  /\ HelperEnds(h)
  /\ disturbed' = TRUE
  /\ UNCHANGED <<exits, dev, alive, route, current, op, cut, stale>>

Helper(h) ==
  \/ HelperRead(h) \/ HelperFlush(h) \/ HelperDevice(h) \/ HelperStart(h)
  \/ HelperStarted(h) \/ HelperWait(h) \/ HelperRoute(h) \/ HelperGivesUp(h)

-----------------------------------------------------------------------------
(* set_exit, del_exit and add_exit.                                        *)

OpGoto(p, from, to) ==
  /\ op[p].pc = from
  /\ op' = [op EXCEPT ![p].pc = to]

SetExit(p, name) ==
  /\ op[p].pc = "idle"
  /\ op' = [op EXCEPT ![p] = [OpIdle EXCEPT !.pc = "read", !.name = name]]
  /\ disturbed' = TRUE
  /\ UNCHANGED <<exits, network, current, helper, cut, stale>>

DelExit(p, e) ==
  /\ op[p].pc = "idle"
  /\ e \in exits
  /\ op' = [op EXCEPT ![p] = [OpIdle EXCEPT !.pc = "delCheck", !.victim = e]]
  /\ disturbed' = TRUE
  /\ UNCHANGED <<exits, network, current, helper, cut, stale>>

AddExit(p, e) ==
  /\ op[p].pc = "idle"
  /\ exits' = exits \cup {e}
  /\ exits' # exits
  /\ UNCHANGED <<network, current, helper, op, cut, stale, disturbed>>

\* What a bug would do: remove an exit without looking if it is in use.
DelCheckNothing(p) ==
  /\ OpGoto(p, "delCheck", "delDown")
  /\ UNCHANGED <<exits, network, current, helper, cut, stale, disturbed>>

\* The exit in use is left for local first, by set_exit local.
DelCheck(p) ==
  /\ OpGoto(p, "delCheck", IF current = op[p].victim THEN "read" ELSE "delDown")
  /\ UNCHANGED <<exits, network, current, helper, cut, stale, disturbed>>

\* An unknown exit ends the command.
SetRead(p) ==
  /\ op[p].pc = "read"
  /\ LET name == op[p].name IN
     op' = [op EXCEPT ![p] =
       IF name = Local THEN [@ EXCEPT !.pc = "flush", !.prev = current]
       ELSE IF name \in exits THEN [@ EXCEPT !.pc = "up", !.prev = current]
       ELSE OpIdle]
  /\ UNCHANGED <<exits, network, current, helper, cut, stale, disturbed>>

SetFlush(p) ==
  /\ OpGoto(p, "flush", "write")
  /\ route' = None
  /\ stale' = FALSE
  /\ UNCHANGED <<exits, dev, unit, alive, current, helper, cut, disturbed>>

SetUp(p) ==
  LET name == op[p].name IN
  /\ \/ name \in dev /\ OpGoto(p, "up", "wait") /\ UNCHANGED <<dev, unit, alive, helper>>
     \/ /\ name \in (WgExits \cap exits) \ dev
        /\ OpGoto(p, "up", "wait")
        /\ dev' = dev \cup {name}
        /\ UNCHANGED <<unit, alive, helper>>
     \/ /\ name \in (Mihomo \cap exits) \ dev
        /\ OpGoto(p, "up", "starting")
        /\ SystemctlStart(name, helper)
        /\ dev' = dev
  /\ UNCHANGED <<exits, route, current, cut, stale, disturbed>>

SetStarted(p) ==
  /\ op[p].pc = "starting"
  /\ unit[op[p].name] = "active"
  /\ OpGoto(p, "starting", "wait")
  /\ UNCHANGED <<exits, network, current, helper, cut, stale, disturbed>>

SetWait(p) ==
  /\ op[p].name \in dev
  /\ OpGoto(p, "wait", "route")
  /\ UNCHANGED <<exits, network, current, helper, cut, stale, disturbed>>

SetRoute(p) ==
  /\ op[p].name \in dev
  /\ OpGoto(p, "route", "write")
  /\ route' = op[p].name
  /\ stale' = FALSE
  /\ UNCHANGED <<exits, dev, unit, alive, current, helper, cut, disturbed>>

\* The device cannot be brought up or does not come; what has been started
\* for it goes on.
SetGivesUp(p) ==
  LET name == op[p].name IN
  /\ \/ op[p].pc = "up" /\ name \notin dev /\ name \notin exits \cap Mihomo
     \/ op[p].pc = "starting" /\ unit[name] \in {"inactive", "retry"}
     \/ op[p].pc \in {"wait", "route"} /\ name \notin dev
  /\ op' = [op EXCEPT ![p] = OpIdle]
  /\ UNCHANGED <<exits, network, current, helper, cut, stale, disturbed>>

\* What a bug would do: not record the exit.
SetWriteNothing(p) ==
  /\ OpGoto(p, "write", "downPrev")
  /\ UNCHANGED <<exits, network, current, helper, cut, stale, disturbed>>

SetWrite(p) ==
  /\ OpGoto(p, "write", "downPrev")
  /\ current' = op[p].name
  /\ UNCHANGED <<exits, network, helper, cut, stale, disturbed>>

SetDownPrev(p) ==
  /\ op[p].pc = "downPrev"
  /\ IF op[p].prev \in {Local, op[p].name} THEN UNCHANGED <<network, helper>>
     ELSE ExitDown(op[p].prev)
  /\ op' = [op EXCEPT ![p] = IF @.victim = None THEN OpIdle ELSE [@ EXCEPT !.pc = "delDown"]]
  /\ cut' = FALSE
  /\ UNCHANGED <<exits, current, stale, disturbed>>

DelDown(p) ==
  /\ OpGoto(p, "delDown", "delRemove")
  /\ ExitDown(op[p].victim)
  /\ UNCHANGED <<exits, current, cut, stale, disturbed>>

DelRemove(p) ==
  /\ op[p].pc = "delRemove"
  /\ exits' = exits \ {op[p].victim}
  /\ op' = [op EXCEPT ![p] = OpIdle]
  /\ UNCHANGED <<network, current, helper, cut, stale, disturbed>>

\* The bot's time limit, a closed terminal.
Kill(p) ==
  /\ op[p].pc # "idle"
  /\ op' = [op EXCEPT ![p] = OpIdle]
  /\ cut' = TRUE
  /\ UNCHANGED <<exits, network, current, helper, stale, disturbed>>

Step(p) ==
  \/ DelCheck(p) \/ SetRead(p) \/ SetFlush(p) \/ SetUp(p) \/ SetStarted(p)
  \/ SetWait(p) \/ SetRoute(p) \/ SetGivesUp(p) \/ SetWrite(p) \/ SetDownPrev(p)
  \/ DelDown(p) \/ DelRemove(p)

Command(p) ==
  \/ SetExit(p, Local)
  \/ \E e \in Exits : SetExit(p, e) \/ DelExit(p, e) \/ AddExit(p, e)

-----------------------------------------------------------------------------
Next ==
  \/ \E e \in Mihomo : DeviceUp(e) \/ MihomoDies(e) \/ Retry(e)
  \/ Reboot
  \/ \E h \in Helpers : Helper(h)
  \/ \E p \in Operators : Command(p) \/ Step(p) \/ Kill(p)

\* Scripts that run get on, systemd restarts, and mihomo creates its device;
\* nothing makes an operator act.
Fairness ==
  /\ \A e \in Mihomo : WF_vars(DeviceUp(e)) /\ WF_vars(Retry(e))
  /\ \A h \in Helpers : WF_vars(Helper(h))
  /\ \A p \in Operators : WF_vars(Step(p))

Spec == Init /\ [][Next]_vars /\ Fairness

-----------------------------------------------------------------------------
(* Properties.                                                             *)

AtRest ==
  /\ \A p \in Operators : op[p].pc = "idle"
  /\ \A h \in Helpers : helper[h].pc = "idle"

\* "The current exit is recorded in current-exit" (README): when nobody is at
\* work, traffic does not leave through another exit than the recorded one,
\* unless a command was killed half way.
RecordedExitInUse == AtRest /\ ~ cut => route \in {None, current}

\* With one operator at a time the only other way to get there is a helper
\* that read current-exit before a switch and acts on it after the switch; the
\* next switch or boot makes up for either.
OnlyStaleHelpersDivert == ~ stale => RecordedExitInUse

\* del_exit never leaves current-exit naming an exit that is gone.
CurrentExists ==
  (\A p \in Operators : op[p].pc = "idle") => current \in exits \cup {Local}

\* proxy-gateway-exit.service restores the recorded exit at boot, unless a
\* command, a failure, or the next reboot comes in between: starting a unit
\* never waits for itself.
BootRestores ==
  \A e \in Exits :
    (helper[Boot] = [pc |-> "device", cur |-> e] /\ e \in exits)
      ~> (route = e \/ disturbed \/ helper[Boot].pc = "read")
=============================================================================
