----------------------------- MODULE SmartRules ------------------------------
(***************************************************************************)
(* The rules of the smart router: rules.conf, the policy map and the       *)
(* configuration generated from both, changed by jobs of the bot and of    *)
(* the command line that run at the same time.                             *)
(*                                                                         *)
(* A change is made by install.sh under a lock: it builds a candidate from *)
(* the new rules, installs the three files one after the other and         *)
(* restarts the router, and puts back what it found if a step fails. The   *)
(* bot reads rules.conf and edits its text before it calls install.sh.     *)
(* What is mid-way when the time limit of the bot kills install.sh stays.  *)
(***************************************************************************)
EXTENDS RouterConfig, RulesImport, Places, FiniteSetsExt

CONSTANTS
  Procs,      \* jobs that can run at the same time
  Free,       \* no job has the lock
  Default,    \* the lines of rules-default.conf
  FirstExit,  \* what list_exit_names prints first, or "direct"
  First,      \* the rules the router starts with, where it is in use
  Endings,    \* pairs of names of which the first one ends with the second
  Ops,        \* operations asked for, their arguments checked
  MaxOps,     \* bound: operations asked for
  MaxRules,   \* bound: lines of rules.conf
  MaxKills    \* bound: jobs killed half way

ASSUME SmartRulesAssumption ==
  /\ Free \notin Procs
  /\ FirstExit \in Usable \cup {"direct"}
  /\ None = Nothing
  /\ MaxOps \in Nat /\ MaxKills \in Nat

VARIABLES
  rules,    \* rules.conf
  policy,   \* policy-map.conf, as a function on Names
  yaml,     \* configuration of the smart exit, or None
  active,   \* smart is the current exit: it does not change here
  running,  \* configuration the router runs, or None
  lock,     \* who holds SMART_LOCK_FILE
  job,      \* job[p]: where p is, its operation, and its variables
  moved,    \* moved[p]: rules.conf was changed by another job since p read it
  torn,     \* a job left its steps half done and no change has succeeded since
  started,  \* operations asked for
  kills     \* jobs killed

smartVars == <<rules, policy, yaml, active, running, lock, job, moved, torn, started, kills>>
files == <<rules, policy, yaml>>

NoPolicy == [c \in Names |-> None]
Job(pc, op, cand, map, snap) == [pc |-> pc, op |-> op, cand |-> cand, map |-> map, snap |-> snap]
Idle == Job("idle", None, <<>>, NoPolicy, <<>>)

-----------------------------------------------------------------------------
(* What the operations make of the rules. An operation has a kind and what *)
(* its kind needs: a line, a number, a target, raw lines, categories.      *)

Without(lines, n) == [i \in 1..Len(lines) - 1 |-> IF i < n THEN lines[i] ELSE lines[i + 1]]
FinalLine(t) == [typ |-> "FINAL", val |-> None, pol |-> t]
HasFinal(lines) == \E i \in DOMAIN lines : lines[i].typ = "FINAL"

\* op_set_final: every FINAL line changes, where it is; or one is appended.
WithFinal(lines, t) ==
  IF HasFinal(lines)
  THEN [i \in DOMAIN lines |-> IF lines[i].typ = "FINAL" THEN FinalLine(t) ELSE lines[i]]
  ELSE Append(lines, FinalLine(t))

\* The lines that are not about what a line is about.
OtherPlaces(line, lines) ==
  {i \in DOMAIN lines : lines[i].typ # line.typ \/ lines[i].val # line.val}

\* What a bug would do: keep of the rules only the one that is set.
EditedAlone(op, lines) ==
  CASE op.kind = "add"    -> Append(lines, op.line)
    [] op.kind = "del"    -> Without(lines, op.n)
    [] op.kind = "final"  -> <<FinalLine(op.pol)>>
    [] op.kind = "import" -> Convert(op.raws)
    [] op.kind = "proxy"  -> <<op.line>> \o KeptAt(lines, OtherPlaces(op.line, lines))
    [] OTHER              -> lines

\* op_add_rule and op_import_ruleset append a line, op_del_rule takes the
\* n-th rule out; --set-rules and --import-rules replace them all; what
\* --proxy-domain writes comes first, in the place of the same domain's.
Edited(op, lines) ==
  CASE op.kind = "add"    -> Append(lines, op.line)
    [] op.kind = "del"    -> Without(lines, op.n)
    [] op.kind = "final"  -> WithFinal(lines, op.pol)
    [] op.kind = "import" -> Convert(op.raws)
    [] op.kind = "proxy"  -> <<op.line>> \o KeptAt(lines, OtherPlaces(op.line, lines))
    [] op.kind = "rename" -> [i \in DOMAIN lines |->
                                IF lines[i].pol = op.old THEN [lines[i] EXCEPT !.pol = op.new] ELSE lines[i]]
    [] OTHER              -> lines

\* set_policy puts a category in, in the place of every line that contains
\* its name and "=", those of longer names that end with it among them;
\* del_policy takes it out, rename_policy moves what the old name had to the
\* new one.
EditedMap(op, map) ==
  CASE op.kind = "policy"  -> [c \in Names |-> CASE c = op.cat -> op.pol
                                                [] c # op.cat /\ <<c, op.cat>> \in Endings -> None
                                                [] OTHER -> map[c]]
    [] op.kind = "nopolicy" -> [map EXCEPT ![op.cat] = None]
    [] op.kind = "rename"  -> [map EXCEPT ![op.new] = IF map[op.old] = None THEN @ ELSE map[op.old],
                                          ![op.old] = None]
    [] OTHER -> map

BotOps == {"add", "del", "final"}
MapOps == {"policy", "nopolicy", "rename", "regen", "proxy"}

\* What a bug would do: seed the map anew for every set of rules.
InitPolicyMapAnew(lines, map) ==
  LET cats == {PolicyOf(lines[i]) : i \in DOMAIN lines} \ (Words \ {"reject-drop"})
  IN  [c \in Names |-> CASE c \notin cats   -> None
                         [] c \in cats /\ c \in Hostile    -> "block"
                         [] c \in cats /\ c \notin Hostile -> FirstExit]

\* init_policy_map: the last field of every rule is a category, also when it
\* names an exit. One that has a target keeps it, one named for what it
\* blocks is blocked, every other gets the first exit.
InitPolicyMap(lines, map) ==
  LET cats == {PolicyOf(lines[i]) : i \in DOMAIN lines} \ (Words \ {"reject-drop"})
  IN  [c \in Names |-> CASE c \notin cats                    -> None
                         [] c \in cats /\ map[c] # None      -> map[c]
                         [] c \in cats /\ map[c] = None /\ c \in Hostile    -> "block"
                         [] c \in cats /\ map[c] = None /\ c \notin Hostile -> FirstExit]

LinesOK(s) == Len(s) \in Nat /\ s = [i \in 1..Len(s) |-> s[i]]

\* The router was put into use with rules that set_rules took.
ASSUME FirstAssumption ==
  LinesOK(First) /\ Generates(Default \o First, InitPolicyMap(Default \o First, NoPolicy))

\* A policy is set to an exit, direct or block, as set_policy checks; what is
\* imported is a list of raw lines, and so are the members of each.
ASSUME OpsAssumption ==
  \A op \in Ops :
    /\ op.kind = "policy" => op.pol \in Names \cup Words
    /\ op.kind = "rename" => op.old \in Names /\ op.new \in Names
    /\ op.kind = "import" => LinesOK(op.raws) /\ \A i \in DOMAIN op.raws : LinesOK(op.raws[i].members)

\* Without rules yet, or in use with those of First.
SmartInit ==
  /\ active \in BOOLEAN
  /\ rules = IF active THEN First ELSE <<>>
  /\ policy = IF active THEN InitPolicyMap(Default \o First, NoPolicy) ELSE NoPolicy
  /\ yaml = IF active THEN Generate(Default \o First, policy) ELSE None
  /\ running = yaml
  /\ lock = Free
  /\ job = [p \in Procs |-> Idle]
  /\ moved = [p \in Procs |-> FALSE]
  /\ torn = FALSE
  /\ started = 0
  /\ kills = 0

SmartTypeOK ==
  /\ policy \in [Names -> Names \cup Words \cup {None}]
  /\ active \in BOOLEAN
  /\ lock \in Procs \cup {Free}
  /\ \A p \in Procs :
       /\ job[p].pc \in {"idle", "read", "lock", "build", "rules", "policy", "yaml", "reload",
                         "map", "rename", "regen"}
       /\ job[p].map \in [Names -> Names \cup Words \cup {None}]
       /\ job[p].pc \in {"build", "rules", "policy", "yaml", "reload", "map", "rename", "regen"} => lock = p
  /\ moved \in [Procs -> BOOLEAN]
  /\ torn \in BOOLEAN
  /\ started \in 0..MaxOps /\ kills \in 0..MaxKills

-----------------------------------------------------------------------------
(* The steps of a job.                                                     *)

Goto(p, pc) == job' = [job EXCEPT ![p].pc = pc]
Done(p) == job' = [job EXCEPT ![p] = Idle]

\* Another job of the bot's pool, or a run of the command line.
Begin(p, op) ==
  /\ job[p].pc = "idle" /\ started < MaxOps
  /\ started' = started + 1
  /\ job' = [job EXCEPT ![p] = Job(IF op.kind \in BotOps THEN "read" ELSE "lock",
                                   op, <<>>, NoPolicy, <<>>)]
  /\ moved' = [moved EXCEPT ![p] = FALSE]
  /\ UNCHANGED <<files, active, running, lock, torn, kills>>

\* The bot reads the rules and edits them, without the lock. A number that
\* no rule has, and a text without rules, end the operation.
Read(p) ==
  /\ job[p].pc = "read"
  /\ LET op == job[p].op IN
     IF (op.kind = "del" /\ op.n \notin DOMAIN rules) \/ Edited(op, rules) = <<>>
     THEN Done(p)
     ELSE /\ Len(Edited(op, rules)) <= MaxRules
          /\ job' = [job EXCEPT ![p] = Job("lock", op, Edited(op, rules), NoPolicy, <<>>)]
  /\ moved' = [moved EXCEPT ![p] = FALSE]
  /\ UNCHANGED <<files, active, running, lock, torn, started, kills>>

AfterLock(op) ==
  CASE op.kind \in BotOps \cup {"import"} -> "build"
    [] op.kind = "regen"                  -> "regen"
    [] OTHER                              -> "map"

\* What a bug would do: go on without the lock when it cannot be had.
LockAnyway(p) ==
  /\ job[p].pc = "lock"
  /\ Len(Edited(job[p].op, rules)) <= MaxRules
  /\ lock' = p
  /\ LET op == job[p].op IN
     job' = [job EXCEPT ![p] = Job(AfterLock(op), op,
                                   IF op.kind = "import" THEN Convert(op.raws) ELSE job[p].cand,
                                   NoPolicy, files)]
  /\ UNCHANGED <<files, active, running, moved, torn, started, kills>>

\* acquire_smart_lock; what follows depends on the operation. A rename to a
\* name that has a target, which leaves the name in the map twice, is left out.
Lock(p) ==
  /\ job[p].pc = "lock" /\ lock = Free
  /\ Len(Edited(job[p].op, rules)) <= MaxRules
  /\ job[p].op.kind = "rename" => policy[job[p].op.new] = None
  /\ lock' = p
  /\ LET op == job[p].op IN
     job' = [job EXCEPT ![p] = Job(AfterLock(op), op,
                                   IF op.kind = "import" THEN Convert(op.raws) ELSE job[p].cand,
                                   NoPolicy, files)]
  /\ UNCHANGED <<files, active, running, moved, torn, started, kills>>

\* Thirty seconds pass.
LockTimesOut(p) ==
  /\ job[p].pc = "lock" /\ lock # Free
  /\ Done(p)
  /\ UNCHANGED <<files, active, running, lock, moved, torn, started, kills>>

Unlock(p) == Done(p) /\ lock' = Free

\* The policy map of the candidate, then its configuration.
Build(p) ==
  /\ job[p].pc = "build"
  /\ LET map == InitPolicyMap(Default \o job[p].cand, policy) IN
       /\ job[p].cand # <<>> /\ Generates(Default \o job[p].cand, map)
       /\ job' = [job EXCEPT ![p] = Job("rules", job[p].op, job[p].cand, map, job[p].snap)]
  /\ UNCHANGED <<files, active, running, lock, moved, torn, started, kills>>

\* The generator dies, or a download, or mihomo does not take the result.
BuildFails(p) ==
  /\ job[p].pc = "build"
  /\ Unlock(p)
  /\ UNCHANGED <<files, active, running, moved, torn, started, kills>>

\* The others that have read the rules have read old ones now.
SetRules(p, lines) ==
  /\ rules' = lines
  /\ moved' = [q \in Procs |-> q # p /\ (moved[q] \/ rules' # rules)]

InstallRules(p) ==
  /\ job[p].pc = "rules"
  /\ SetRules(p, job[p].cand)
  /\ Goto(p, "policy")
  /\ UNCHANGED <<policy, yaml, active, running, lock, torn, started, kills>>

InstallPolicy(p) ==
  /\ job[p].pc = "policy"
  /\ policy' = job[p].map
  /\ Goto(p, "yaml")
  /\ UNCHANGED <<rules, yaml, active, running, lock, moved, torn, started, kills>>

InstallYaml(p) ==
  /\ job[p].pc = "yaml"
  /\ yaml' = Generate(Default \o job[p].cand, job[p].map)
  /\ Goto(p, "reload")
  /\ UNCHANGED <<rules, policy, active, running, lock, moved, torn, started, kills>>

\* What a bug would do: put the rules back and not the policy map.
RestoreRules(p) ==
  /\ SetRules(p, job[p].snap[1])
  /\ yaml' = job[p].snap[3]
  /\ UNCHANGED policy

\* restore_smart_state
Restore(p) ==
  /\ SetRules(p, job[p].snap[1])
  /\ policy' = job[p].snap[2]
  /\ yaml' = job[p].snap[3]

\* One of the files cannot be installed.
InstallFails(p) ==
  /\ job[p].pc \in {"rules", "policy", "yaml"}
  /\ Restore(p)
  /\ Unlock(p)
  /\ UNCHANGED <<active, running, torn, started, kills>>

\* The router is restarted if it is in use; all is consistent again.
Reload(p) ==
  /\ job[p].pc = "reload"
  /\ running' = IF active THEN yaml ELSE running
  /\ torn' = FALSE
  /\ Unlock(p)
  /\ UNCHANGED <<files, active, moved, started, kills>>

\* The restart fails: the files are put back and the router is restarted
\* with what it had, which may fail too.
ReloadFails(p) ==
  /\ job[p].pc = "reload" /\ active
  /\ Restore(p)
  /\ running' \in {yaml', None}
  /\ Unlock(p)
  /\ UNCHANGED <<active, torn, started, kills>>

\* set_policy, del_policy, rename_policy and proxy_domain change the files in
\* place, the map before the rules, and then have all built from them.
EditMap(p) ==
  /\ job[p].pc = "map"
  /\ policy' = EditedMap(job[p].op, policy)
  /\ Goto(p, "rename")
  /\ UNCHANGED <<rules, yaml, active, running, lock, moved, torn, started, kills>>

EditRules(p) ==
  /\ job[p].pc = "rename"
  /\ SetRules(p, Edited(job[p].op, rules))
  /\ Goto(p, "regen")
  /\ UNCHANGED <<policy, yaml, active, running, lock, torn, started, kills>>

\* regen_smart
Regen(p) ==
  /\ job[p].pc = "regen"
  /\ rules # <<>> /\ Generates(Default \o rules, policy)
  /\ yaml' = Generate(Default \o rules, policy)
  /\ Goto(p, "reload")
  /\ UNCHANGED <<rules, policy, active, running, lock, moved, torn, started, kills>>

RegenFails(p) ==
  /\ job[p].pc = "regen"
  /\ Restore(p)
  /\ Unlock(p)
  /\ UNCHANGED <<active, running, torn, started, kills>>

\* A file of those edited in place cannot be: set -e ends the job, and what
\* it has changed stays.
EditFails(p) ==
  /\ job[p].pc \in {"map", "rename", "regen"}
  /\ torn' = (torn \/ files # job[p].snap)
  /\ Unlock(p)
  /\ UNCHANGED <<files, active, running, moved, started, kills>>

\* In a condition, where set_policy and the others run regen_smart, set -e
\* does not hold: it goes on when the new configuration cannot be installed,
\* and restarts the router with the old one.
RegenKeepsOld(p) ==
  /\ job[p].pc = "regen" /\ job[p].op.kind # "regen"
  /\ rules # <<>> /\ Generates(Default \o rules, policy)
  /\ running' = IF active THEN yaml ELSE running
  /\ torn' = (torn \/ files # job[p].snap)
  /\ Unlock(p)
  /\ UNCHANGED <<files, active, moved, started, kills>>

\* The time limit of the bot, or the admin, kills the job: the lock goes
\* with it, and nothing is put back.
Kill(p) ==
  /\ job[p].pc # "idle" /\ kills < MaxKills
  /\ kills' = kills + 1
  /\ torn' = (torn \/ job[p].pc \in {"policy", "yaml", "reload", "rename", "regen"})
  /\ lock' = IF lock = p THEN Free ELSE lock
  /\ Done(p)
  /\ UNCHANGED <<files, active, running, moved, started>>

Work(p) ==
  \/ \E op \in Ops : Begin(p, op)
  \/ Read(p) \/ Lock(p) \/ LockTimesOut(p)
  \/ Build(p) \/ BuildFails(p)
  \/ InstallRules(p) \/ InstallPolicy(p) \/ InstallYaml(p) \/ InstallFails(p)
  \/ Reload(p) \/ ReloadFails(p)
  \/ EditMap(p) \/ EditRules(p) \/ Regen(p) \/ RegenFails(p)
  \/ EditFails(p) \/ RegenKeepsOld(p)
  \/ Kill(p)

SmartNext == \E p \in Procs : Work(p)

SmartSpec == SmartInit /\ [][SmartNext]_smartVars

-----------------------------------------------------------------------------
(* Properties.                                                             *)

\* When no job has the lock, the configuration on disk is the one of the
\* rules and the policy map on disk, and the router runs it or is down, for
\* every failure that is rolled back; only a job that was killed, or whose
\* edit or installation failed where nothing is rolled back, leaves something
\* else, until the next change succeeds.
AtRestConsistent ==
  lock = Free /\ ~ torn =>
    \/ rules = <<>> /\ yaml = None
    \/ /\ Generates(Default \o rules, policy)
       /\ yaml = Generate(Default \o rules, policy)
       /\ active => running \in {yaml, None}

\* New rules never change the target of a category that they still have.
PolicyChoiceKept ==
  [][\A p \in Procs : job[p].pc = "policy" /\ job'[p].pc = "yaml" =>
       \A c \in Names : policy[c] # None /\ policy'[c] # None => policy'[c] = policy[c]]_smartVars

\* What an edit of the bot leaves alone.
KeepsOthers(op, old, new) ==
  /\ op.kind = "add" => \A i \in DOMAIN old : new[i] = old[i]
  /\ op.kind = "final" => \A i \in DOMAIN old : old[i].typ # "FINAL" => i \in DOMAIN new /\ new[i] = old[i]
  /\ op.kind = "del" => \E i \in DOMAIN old : new = RemoveAt(old, i)

\* An edit of the bot keeps every other rule, unless rules.conf was changed
\* between its read and its commit. The lock does not cover the read.
EditKeepsOthers ==
  [][\A p \in Procs : job[p].pc = "rules" /\ job'[p].pc = "policy" /\ ~ moved[p] =>
       KeepsOthers(job[p].op, rules, rules')]_smartVars

\* The policy of the first line that fits a flow. In a raw list, an OR fits
\* what a matcher among its members fits; an AND fits no flow alone.
RawFits(raw, flow) ==
  /\ raw.pol # Nothing
  /\ \/ raw.typ \in KeepTypes /\ raw.val = flow
     \/ raw.typ = "OR" /\ \E i \in DOMAIN raw.members :
                            raw.members[i].typ \in KeepTypes /\ raw.members[i].val = flow

RawPolicy(raws, flow) ==
  LET fitting == {i \in DOMAIN raws : RawFits(raws[i], flow)}
      finals == {i \in DOMAIN raws : raws[i].typ = "FINAL"}
  IN  IF fitting # {} THEN CategoryOf(raws[Min(fitting)].pol)
      ELSE IF finals # {} /\ raws[Max(finals)].pol # Nothing THEN CategoryOf(raws[Max(finals)].pol)
      ELSE "direct"

\* Imported rules decide for every flow what the list decides for it.
ImportDecidesAlike ==
  \A p \in Procs : job[p].pc # "idle" /\ job[p].op.kind = "import" =>
    \A flow \in {job[p].op.raws[i].val : i \in DOMAIN job[p].op.raws} \cup
                  {m.val : m \in UNION {ToSet(job[p].op.raws[i].members) : i \in DOMAIN job[p].op.raws}} :
      flow # Nothing =>
        Route(Generate(Convert(job[p].op.raws), policy), flow) =
          Resolve(RawPolicy(job[p].op.raws, flow), policy)

\* A rule whose policy is an exit sends its flows through that exit.
RuleGoesToItsExit ==
  lock = Free /\ ~ torn =>
    \A i \in DOMAIN rules : rules[i].pol \in Usable =>
      yaml.rules[Len(Default) + i].target = rules[i].pol
=============================================================================
