-------------------------- MODULE SmartRules_proofs --------------------------
(***************************************************************************)
(* The rules, the policy map and the configuration fit each other whenever *)
(* no job is at work; new rules leave the targets of categories alone, and *)
(* an edit leaves the other rules alone: for every set of rules, exits,    *)
(* categories, operations and jobs.                                        *)
(*                                                                         *)
(* AtRestConsistent alone is not inductive: what a job will install, or    *)
(* put back, was decided steps before. SmartInv follows it: only the job   *)
(* with the lock is past it (Holding); what it found was consistent, and   *)
(* is still there until its first change (Found); what it built is what it *)
(* has installed so far (Installed). What rules mean, and how they are     *)
(* generated, plays no part in that.                                       *)
(*                                                                         *)
(* EditInv adds what a job's variables are worth when it installs them:    *)
(* the map it has built is the one of the policies still in place          *)
(* (JobSeeded), and its rules are the edited form of those still in place  *)
(* unless the job is marked as overtaken (JobEdits).                       *)
(*                                                                         *)
(* The lemmas about lists in the middle say what the importer's lines are  *)
(* and which of them is the first that a flow fits; BotStores_proofs goes  *)
(* on from there to ImportDecidesAlike.                                    *)
(***************************************************************************)
EXTENDS SmartRules, FiniteSetTheorems, SequenceTheorems, WellFoundedInduction, TLAPS

InLock == {"build", "rules", "policy", "yaml", "reload", "map", "rename", "regen"}

\* Files r, map and y, and a router that runs conf, fit each other.
Consistent(r, map, y, conf) ==
  \/ r = <<>> /\ y = None
  \/ /\ Generates(Default \o r, map)
     /\ y = Generate(Default \o r, map)
     /\ active => conf \in {y, None}

\* A job is a record of its place, its operation and its variables.
Record(j) == Job(j.pc, j.op, j.cand, j.map, j.snap)
JobShape ==
  /\ job = [p \in Procs |-> job[p]]
  /\ \A p \in Procs : job[p] = Record(job[p])

Holding ==
  /\ lock \in Procs \cup {Free}
  /\ \A p \in Procs : job[p].pc \in InLock <=> lock = p

Found ==
  ~ torn => \A p \in Procs : job[p].pc \in InLock =>
    /\ Consistent(job[p].snap[1], job[p].snap[2], job[p].snap[3], running)
    /\ job[p].pc \in {"build", "rules", "map"} => job[p].snap = files

Installed ==
  \A p \in Procs :
    /\ job[p].pc \in {"rules", "policy", "yaml"} => Generates(Default \o job[p].cand, job[p].map)
    /\ job[p].pc \in {"policy", "yaml"} => rules = job[p].cand
    /\ job[p].pc = "yaml" => policy = job[p].map
    /\ job[p].pc = "reload" => /\ Generates(Default \o rules, policy)
                               /\ yaml = Generate(Default \o rules, policy)

Resting == lock = Free /\ ~ torn => Consistent(rules, policy, yaml, running)

SmartInv == JobShape /\ torn \in BOOLEAN /\ active \in BOOLEAN /\ Holding /\ Found /\ Installed /\ Resting

\* The fields of what Job makes.
LEMMA JobFields ==
  ASSUME NEW pc, NEW op, NEW cand, NEW map, NEW snap
  PROVE  LET j == Job(pc, op, cand, map, snap)
         IN  /\ j = Record(j)
             /\ j.pc = pc /\ j.op = op /\ j.cand = cand /\ j.map = map /\ j.snap = snap
  BY DEF Job, Record

\* A step of job p gives it a record and leaves the other jobs alone.
LEMMA JobMoves ==
  ASSUME JobShape, NEW p \in Procs, NEW j, j = Record(j), job' = [job EXCEPT ![p] = j]
  PROVE  /\ JobShape'
         /\ job'[p] = j
         /\ \A q \in Procs \ {p} : job'[q] = job[q]
  BY DEF JobShape, Record, Job

LEMMA JobGoes ==
  ASSUME JobShape, NEW p \in Procs, NEW pc, Goto(p, pc)
  PROVE  /\ JobShape'
         /\ job'[p] = [job[p] EXCEPT !.pc = pc]
         /\ job'[p].pc = pc /\ job'[p].op = job[p].op /\ job'[p].cand = job[p].cand
         /\ job'[p].map = job[p].map /\ job'[p].snap = job[p].snap
         /\ \A q \in Procs \ {p} : job'[q] = job[q]
<1> DEFINE j == [job[p] EXCEPT !.pc = pc]
<1>1. /\ j = Record(j)
      /\ j.pc = pc /\ j.op = job[p].op /\ j.cand = job[p].cand /\ j.map = job[p].map /\ j.snap = job[p].snap
  BY DEF JobShape, Record, Job
<1>2. job' = [job EXCEPT ![p] = j]
  BY DEF Goto
<1> HIDE DEF j
<1>3. /\ JobShape' /\ job'[p] = j
      /\ \A q \in Procs \ {p} : job'[q] = job[q]
  BY <1>1, <1>2, JobMoves
<1> QED
  BY <1>1, <1>3 DEF j

LEMMA JobEnds ==
  ASSUME JobShape, NEW p \in Procs, Done(p)
  PROVE  /\ JobShape'
         /\ job'[p].pc = "idle"
         /\ \A q \in Procs \ {p} : job'[q] = job[q]
<1>1. Idle = Record(Idle) /\ Idle.pc = "idle"
  BY JobFields DEF Idle
<1> QED
  BY <1>1, JobMoves DEF Done

\* The router starts with rules that generate, or without any.
LEMMA SmartInitInv == SmartInit => SmartInv
<1> SUFFICES ASSUME SmartInit PROVE SmartInv
  OBVIOUS
<1>1. Idle = Record(Idle) /\ Idle.pc = "idle"
  BY JobFields DEF Idle
<1>2. JobShape
  BY <1>1 DEF SmartInit, JobShape
<1>3. Holding /\ Found /\ Installed
  <2>1. \A p \in Procs : job[p].pc = "idle" /\ lock # p
    BY <1>1, SmartRulesAssumption DEF SmartInit, SmartRulesAssumption
  <2> QED
    BY <2>1 DEF SmartInit, Holding, Found, Installed, InLock
<1>4. Resting
  BY FirstAssumption DEF SmartInit, Resting, Consistent, FirstAssumption
<1> QED
  BY <1>2, <1>3, <1>4 DEF SmartInv, SmartInit

\* The job that is past the lock is the only one.
LEMMA Alone ==
  ASSUME Holding, NEW p \in Procs, job[p].pc \in InLock
  PROVE  /\ lock = p /\ lock # Free
         /\ \A q \in Procs \ {p} : job[q].pc \notin InLock
  BY SmartRulesAssumption DEF Holding, SmartRulesAssumption

\* A step outside the lock: op_add_rule and its like ask, read and wait.
LEMMA OutsideInv ==
  ASSUME SmartInv, NEW p \in Procs, job[p].pc \notin InLock,
         JobShape', job'[p].pc \notin InLock, \A q \in Procs \ {p} : job'[q] = job[q],
         UNCHANGED <<files, active, running, lock, torn>>
  PROVE  SmartInv'
<1>1. Holding'
  BY DEF SmartInv, Holding
<1>2. Found'
  BY DEF SmartInv, Found, files, InLock, Consistent
<1>3. Installed'
  BY DEF SmartInv, Installed, files, InLock
<1>4. Resting'
  BY DEF SmartInv, Resting, files, Consistent
<1> QED
  BY <1>1, <1>2, <1>3, <1>4 DEF SmartInv

\* A step within the lock that keeps it: what it has to show.
LEMMA InsideInv ==
  ASSUME SmartInv, NEW p \in Procs, job[p].pc \in InLock,
         JobShape', job'[p].pc \in InLock, \A q \in Procs \ {p} : job'[q] = job[q],
         job'[p].snap = job[p].snap, job'[p].pc \in {"build", "rules", "map"} =>
           UNCHANGED files /\ job[p].pc \in {"build", "rules", "map"},
         UNCHANGED <<active, running, lock, torn>>,
         /\ job'[p].pc \in {"rules", "policy", "yaml"} => Generates(Default \o job'[p].cand, job'[p].map)
         /\ job'[p].pc \in {"policy", "yaml"} => rules' = job'[p].cand
         /\ job'[p].pc = "yaml" => policy' = job'[p].map
         /\ job'[p].pc = "reload" => /\ Generates(Default \o rules', policy')
                                     /\ yaml' = Generate(Default \o rules', policy')
  PROVE  SmartInv'
<1>1. /\ lock = p /\ lock # Free
      /\ \A q \in Procs \ {p} : job[q].pc \notin InLock
  BY Alone DEF SmartInv
<1>2. Holding'
  BY <1>1 DEF SmartInv, Holding
<1>3. Found'
  BY <1>1 DEF SmartInv, Found, files, Consistent
<1>4. Installed'
  BY <1>1 DEF Installed, InLock
<1>5. Resting'
  BY <1>1 DEF Resting
<1> QED
  BY <1>2, <1>3, <1>4, <1>5 DEF SmartInv

\* A step that gives the lock up, and leaves files and a router that fit.
LEMMA UnlockInv ==
  ASSUME SmartInv, NEW p \in Procs, job[p].pc \in InLock, Unlock(p),
         torn' \in BOOLEAN, UNCHANGED active,
         ~ torn' => Consistent(rules', policy', yaml', running')
  PROVE  SmartInv'
<1>1. \A q \in Procs \ {p} : job[q].pc \notin InLock
  BY Alone DEF SmartInv
<1>2. /\ JobShape' /\ job'[p].pc = "idle"
      /\ \A q \in Procs \ {p} : job'[q] = job[q]
  BY JobEnds DEF SmartInv, Unlock
<1>3. \A q \in Procs : job'[q].pc \notin InLock /\ lock' # q
  BY <1>1, <1>2, SmartRulesAssumption DEF Unlock, InLock, SmartRulesAssumption
<1>4. (Holding /\ Found /\ Installed)'
  BY <1>3 DEF Unlock, Holding, Found, Installed, InLock
<1>5. Resting'
  BY DEF SmartInv, Resting, Consistent
<1> QED
  BY <1>2, <1>4, <1>5 DEF SmartInv

\* What Goto(p, pc) does to the job that is past the lock.
LEMMA GoesInside ==
  ASSUME SmartInv, NEW p \in Procs, NEW pc, Goto(p, pc)
  PROVE  /\ JobShape'
         /\ job'[p].pc = pc /\ job'[p].cand = job[p].cand
         /\ job'[p].map = job[p].map /\ job'[p].snap = job[p].snap
         /\ \A q \in Procs \ {p} : job'[q] = job[q]
  BY JobGoes DEF SmartInv

\* What restore_smart_state puts back fits, if no job was killed before.
LEMMA RestoreFits ==
  ASSUME SmartInv, NEW p \in Procs, job[p].pc \in InLock, ~ torn, Restore(p)
  PROVE  Consistent(rules', policy', yaml', running)
  BY DEF SmartInv, Found, Restore, SetRules

\* acquire_smart_lock: what the job finds is what the one before left.
LEMMA LockInv ==
  ASSUME SmartInv, NEW p \in Procs, Lock(p)
  PROVE  SmartInv'
<1> DEFINE op == job[p].op
           cand == IF op.kind = "import" THEN Convert(op.raws) ELSE job[p].cand
           j == Job(AfterLock(op), op, cand, NoPolicy, files)
<1>1. j = Record(j) /\ j.pc = AfterLock(op) /\ j.snap = files
  BY JobFields
<1>2. job' = [job EXCEPT ![p] = j]
  BY DEF Lock
<1>3. AfterLock(op) \in {"build", "regen", "map"}
  BY DEF AfterLock
<1> HIDE DEF j, cand, op
<1>4. /\ JobShape' /\ job'[p] = j
      /\ \A q \in Procs \ {p} : job'[q] = job[q]
  BY <1>1, <1>2, JobMoves DEF SmartInv
<1>5. /\ lock = Free /\ lock' = p
      /\ \A q \in Procs : job[q].pc \notin InLock
  BY SmartRulesAssumption DEF SmartInv, Holding, Lock, SmartRulesAssumption
<1>6. job'[p].pc \in {"build", "regen", "map"} /\ job'[p].snap = files
  BY <1>1, <1>3, <1>4
<1>7. Holding'
  BY <1>4, <1>5, <1>6 DEF Holding, InLock
<1>8. Found'
  <2>1. ~ torn => Consistent(files[1], files[2], files[3], running)
    BY <1>5 DEF SmartInv, Resting, files
  <2> QED
    BY <1>4, <1>5, <1>6, <2>1 DEF Found, Lock, files, Consistent
<1>9. Installed'
  BY <1>4, <1>5, <1>6 DEF Installed, InLock
<1>10. Resting'
  BY <1>5, SmartRulesAssumption DEF Resting, SmartRulesAssumption
<1> QED
  BY <1>4, <1>7, <1>8, <1>9, <1>10 DEF SmartInv, Lock

\* A job before it has the lock.
LEMMA BeforeLockInv ==
  ASSUME SmartInv, NEW p \in Procs,
         (\E op \in Ops : Begin(p, op)) \/ Read(p) \/ LockTimesOut(p)
  PROVE  SmartInv'
<1>1. JobShape
  BY DEF SmartInv
<1>2. ASSUME NEW op \in Ops, Begin(p, op)
      PROVE  SmartInv'
  <2> DEFINE pc == IF op.kind \in BotOps THEN "read" ELSE "lock"
             j == Job(pc, op, <<>>, NoPolicy, <<>>)
  <2>1. j = Record(j) /\ j.pc \in {"read", "lock"}
    BY JobFields
  <2>2. job' = [job EXCEPT ![p] = j]
    BY <1>2 DEF Begin
  <2> HIDE DEF j
  <2>3. /\ JobShape' /\ job'[p] = j
        /\ \A q \in Procs \ {p} : job'[q] = job[q]
    BY <1>1, <2>1, <2>2, JobMoves
  <2> QED
    BY <1>2, <2>1, <2>3, OutsideInv DEF Begin, InLock
<1>3. ASSUME Read(p)
      PROVE  SmartInv'
  <2> DEFINE op == job[p].op
             j == Job("lock", op, Edited(op, rules), NoPolicy, <<>>)
  <2>1. j = Record(j) /\ j.pc = "lock"
    BY JobFields
  <2>2. job' = [job EXCEPT ![p] = j] \/ Done(p)
    BY <1>3 DEF Read
  <2> HIDE DEF j
  <2>3. /\ JobShape' /\ job'[p].pc \in {"idle", "lock"}
        /\ \A q \in Procs \ {p} : job'[q] = job[q]
    BY <1>1, <2>1, <2>2, JobMoves, JobEnds
  <2> QED
    BY <1>3, <2>3, OutsideInv DEF Read, InLock
<1>4. ASSUME LockTimesOut(p)
      PROVE  SmartInv'
  <2>1. /\ JobShape' /\ job'[p].pc = "idle"
        /\ \A q \in Procs \ {p} : job'[q] = job[q]
    BY <1>1, <1>4, JobEnds DEF LockTimesOut
  <2> QED
    BY <1>4, <2>1, OutsideInv DEF LockTimesOut, InLock
<1> QED
  BY <1>2, <1>3, <1>4

\* A job that builds, installs and edits.
LEMMA WithinLockInv ==
  ASSUME SmartInv, NEW p \in Procs,
         \/ Build(p) \/ InstallRules(p) \/ InstallPolicy(p) \/ InstallYaml(p)
         \/ EditMap(p) \/ EditRules(p) \/ Regen(p)
  PROVE  SmartInv'
<1>1. CASE Build(p)
  <2> DEFINE map == InitPolicyMap(Default \o job[p].cand, policy)
             j == Job("rules", job[p].op, job[p].cand, map, job[p].snap)
  <2>1. j = Record(j) /\ j.pc = "rules" /\ j.map = map /\ j.cand = job[p].cand /\ j.snap = job[p].snap
    BY JobFields
  <2>2. job' = [job EXCEPT ![p] = j] /\ Generates(Default \o job[p].cand, map)
    BY <1>1 DEF Build
  <2> HIDE DEF j, map
  <2>3. /\ JobShape' /\ job'[p] = j
        /\ \A q \in Procs \ {p} : job'[q] = job[q]
    BY <2>1, <2>2, JobMoves DEF SmartInv
  <2> QED
    BY <1>1, <2>1, <2>2, <2>3, InsideInv DEF Build, InLock
<1>2. CASE InstallRules(p)
  BY <1>2, GoesInside, InsideInv DEF InstallRules, SetRules, InLock, SmartInv, Installed
<1>3. CASE InstallPolicy(p)
  BY <1>3, GoesInside, InsideInv DEF InstallPolicy, InLock, SmartInv, Installed
<1>4. CASE InstallYaml(p)
  BY <1>4, GoesInside, InsideInv DEF InstallYaml, InLock, SmartInv, Installed
<1>5. CASE EditMap(p)
  BY <1>5, GoesInside, InsideInv DEF EditMap, InLock
<1>6. CASE EditRules(p)
  BY <1>6, GoesInside, InsideInv DEF EditRules, InLock
<1>7. CASE Regen(p)
  BY <1>7, GoesInside, InsideInv DEF Regen, InLock
<1> QED
  BY <1>1, <1>2, <1>3, <1>4, <1>5, <1>6, <1>7

\* A job that ends, in success or failure, or is killed.
LEMMA EndsInv ==
  ASSUME SmartInv, NEW p \in Procs,
         \/ BuildFails(p) \/ InstallFails(p) \/ Reload(p) \/ ReloadFails(p)
         \/ RegenFails(p) \/ EditFails(p) \/ RegenKeepsOld(p) \/ Kill(p)
  PROVE  SmartInv'
<1>1. CASE BuildFails(p)
  <2>1. ~ torn => Consistent(rules, policy, yaml, running)
    BY <1>1 DEF BuildFails, SmartInv, Found, InLock, files
  <2> QED
    BY <1>1, <2>1, UnlockInv DEF BuildFails, InLock, files, SmartInv, Consistent
<1>2. CASE InstallFails(p) \/ RegenFails(p)
  <2>1. job[p].pc \in InLock /\ Restore(p) /\ Unlock(p) /\ UNCHANGED <<active, running, torn>>
    BY <1>2 DEF InstallFails, RegenFails, InLock
  <2>2. ~ torn => Consistent(rules', policy', yaml', running')
    BY <2>1, RestoreFits
  <2> QED
    BY <2>1, <2>2, UnlockInv DEF SmartInv
<1>3. CASE Reload(p)
  <2>1. Generates(Default \o rules, policy) /\ yaml = Generate(Default \o rules, policy)
    BY <1>3 DEF Reload, SmartInv, Installed
  <2>2. Consistent(rules', policy', yaml', running')
    BY <1>3, <2>1 DEF Reload, Consistent, files
  <2> QED
    BY <1>3, <2>2, UnlockInv DEF Reload, InLock
<1>4. CASE ReloadFails(p)
  <2>1. job[p].pc \in InLock /\ Restore(p) /\ Unlock(p) /\ UNCHANGED <<active, torn>>
        /\ running' \in {yaml', None}
    BY <1>4 DEF ReloadFails, InLock
  <2>2. ~ torn => Consistent(rules', policy', yaml', running')
    BY <2>1, RestoreFits DEF Consistent
  <2> QED
    BY <2>1, <2>2, UnlockInv DEF SmartInv
<1>5. CASE Kill(p)
  <2>1. CASE job[p].pc \in InLock
    <3>1. lock' = Free /\ Unlock(p)
      BY <1>5, <2>1, Alone DEF Kill, SmartInv, Unlock
    <3>2. ~ torn' => Consistent(rules, policy, yaml, running)
      <4>1. ~ torn' => ~ torn /\ job[p].pc \in {"build", "rules", "map"}
        BY <1>5, <2>1 DEF Kill, InLock
      <4>2. ~ torn /\ job[p].pc \in {"build", "rules", "map"} =>
              /\ Consistent(job[p].snap[1], job[p].snap[2], job[p].snap[3], running)
              /\ job[p].snap = <<rules, policy, yaml>>
        BY <2>1 DEF SmartInv, Found, files
      <4> HIDE DEF Consistent
      <4> QED
        BY <4>1, <4>2
    <3> QED
      BY <1>5, <2>1, <3>1, <3>2, UnlockInv DEF Kill, files, SmartInv
  <2>2. CASE job[p].pc \notin InLock
    <3>1. lock # p /\ (torn' <=> torn)
      BY <1>5, <2>2 DEF Kill, SmartInv, Holding, InLock
    <3>2. torn' = torn
      BY <1>5, <3>1 DEF Kill, SmartInv
    <3>3. /\ JobShape' /\ job'[p].pc = "idle"
          /\ \A q \in Procs \ {p} : job'[q] = job[q]
      BY <1>5, JobEnds DEF Kill, SmartInv
    <3> QED
      BY <1>5, <2>2, <3>1, <3>2, <3>3, OutsideInv DEF Kill, InLock
  <2> QED
    BY <2>1, <2>2
<1>6. CASE EditFails(p) \/ RegenKeepsOld(p)
  <2>1. /\ job[p].pc \in InLock /\ Unlock(p) /\ UNCHANGED <<rules, policy, yaml, active>>
        /\ torn' = (torn \/ <<rules, policy, yaml>> # job[p].snap)
        /\ running' \in {running, IF active THEN yaml ELSE running}
    BY <1>6 DEF EditFails, RegenKeepsOld, InLock, files
  <2>2. ASSUME ~ torn'
        PROVE  Consistent(rules', policy', yaml', running')
    <3>1. ~ torn /\ job[p].snap = <<rules, policy, yaml>>
      BY <2>1, <2>2
    <3>2. Consistent(rules, policy, yaml, running)
      BY <2>1, <3>1 DEF SmartInv, Found
    <3> QED
      BY <2>1, <3>2 DEF Consistent
  <2> QED
    BY <2>1, <2>2, UnlockInv DEF SmartInv
<1> QED
  BY <1>1, <1>2, <1>3, <1>4, <1>5, <1>6

\* Every step of every job keeps SmartInv.
LEMMA SmartNextInv == SmartInv /\ [SmartNext]_smartVars => SmartInv'
<1> SUFFICES ASSUME SmartInv, [SmartNext]_smartVars PROVE SmartInv'
  OBVIOUS
<1>1. ASSUME NEW p \in Procs, Work(p)
      PROVE  SmartInv'
  BY <1>1, BeforeLockInv, LockInv, WithinLockInv, EndsInv DEF Work
<1>2. CASE UNCHANGED smartVars
  BY <1>2 DEF smartVars, files, SmartInv, JobShape, Record, Holding, Found, Installed, Resting, Consistent
<1> QED
  BY <1>1, <1>2 DEF SmartNext

\* install.sh leaves rules.conf, the policy map and the configuration of the
\* router fitting each other, whichever step of set_rules, import_rules,
\* set_policy or regen_smart fails and is rolled back, until a job is killed
\* half way or fails where nothing is rolled back.
THEOREM AtRestAllFits == SmartSpec => []AtRestConsistent
<1>1. SmartInv => AtRestConsistent
  BY DEF SmartInv, Resting, Consistent, AtRestConsistent
<1> QED
  BY <1>1, SmartInitInv, SmartNextInv, PTL DEF SmartSpec

-----------------------------------------------------------------------------
(* Types, policies that are kept, and edits.                               *)

Maps == [Names -> Names \cup Words \cup {None}]
JobPlaces == {"idle", "read", "lock"} \cup InLock

JobTyped(p) ==
  /\ job[p].pc \in JobPlaces
  /\ job[p].pc # "idle" => job[p].op \in Ops
  /\ job[p].map \in Maps
  /\ LinesOK(job[p].cand)
  /\ job[p].pc \in InLock => LinesOK(job[p].snap[1]) /\ job[p].snap[2] \in Maps

JobSeeded(p) ==
  job[p].pc \in {"rules", "policy"} => job[p].map = InitPolicyMap(Default \o job[p].cand, policy)

JobEdits(p) ==
  job[p].pc \in {"lock", "build", "rules"} /\ job[p].op.kind \in BotOps /\ ~ moved[p] =>
    /\ job[p].cand = Edited(job[p].op, rules)
    /\ job[p].op.kind = "del" => job[p].op.n \in DOMAIN rules

CountsOK ==
  /\ moved \in [Procs -> BOOLEAN]
  /\ started \in 0..MaxOps /\ kills \in 0..MaxKills

EditInv ==
  /\ SmartInv /\ CountsOK
  /\ policy \in Maps /\ LinesOK(rules)
  /\ \A p \in Procs : JobTyped(p) /\ JobSeeded(p) /\ JobEdits(p)

LEMMA EmptyLines == LinesOK(<<>>)
BY DEF LinesOK

LEMMA LinesAreSeq ==
  ASSUME NEW s, LinesOK(s)
  PROVE  /\ Len(s) \in Nat /\ DOMAIN s = 1..Len(s)
         /\ \A x : s \in Seq({s[i] : i \in DOMAIN s} \cup {x})
<1>1. Len(s) \in Nat /\ DOMAIN s = 1..Len(s)
  BY DEF LinesOK
<1>2. ASSUME NEW x PROVE s \in Seq({s[i] : i \in DOMAIN s} \cup {x})
  <2> DEFINE S == {s[i] : i \in DOMAIN s} \cup {x}
  <2>1. s \in [1..Len(s) -> S]
    BY <1>1 DEF LinesOK
  <2> HIDE DEF S
  <2> QED
    BY <1>1, <2>1, SeqDef
<1> QED
  BY <1>1, <1>2

LEMMA SeqIsLines == ASSUME NEW S, NEW s \in Seq(S) PROVE LinesOK(s)
<1>1. Len(s) \in Nat /\ DOMAIN s = 1..Len(s)
  BY LenProperties
<1>2. s = [i \in 1..Len(s) |-> s[i]]
  BY <1>1
<1> QED
  BY <1>1, <1>2 DEF LinesOK

LEMMA LinesOfLength ==
  ASSUME NEW n \in Nat, NEW s, s = [i \in 1..n |-> s[i]]
  PROVE  LinesOK(s) /\ DOMAIN s = 1..n
<1> DEFINE S == {s[i] : i \in 1..n}
<1>1. s \in [1..n -> S] /\ DOMAIN s = 1..n
  OBVIOUS
<1> HIDE DEF S
<1>2. s \in Seq(S)
  BY <1>1, SeqDef
<1> QED
  BY <1>1, <1>2, SeqIsLines

\* op_add_rule appends.
LEMMA AppendedLines ==
  ASSUME NEW s, LinesOK(s), NEW x
  PROVE  LinesOK(Append(s, x)) /\ \A i \in DOMAIN s : i \in DOMAIN Append(s, x) /\ Append(s, x)[i] = s[i]
<1> DEFINE S == {s[i] : i \in DOMAIN s} \cup {x}
           t == Append(s, x)
<1>1. s \in Seq(S) /\ x \in S /\ Len(s) \in Nat /\ DOMAIN s = 1..Len(s)
  BY LinesAreSeq
<1> HIDE DEF S
<1>2. /\ t \in Seq(S) /\ Len(t) = Len(s) + 1 /\ DOMAIN t = 1..Len(t)
      /\ \A i \in 1..Len(s) : t[i] = s[i]
  BY <1>1, AppendProperties, LenProperties
<1> HIDE DEF t
<1>3. LinesOK(t)
  BY <1>2, SeqIsLines
<1> QED
  BY <1>1, <1>2, <1>3 DEF t

LEMMA ConcatLines ==
  ASSUME NEW s, NEW t, LinesOK(s), LinesOK(t)
  PROVE  LinesOK(s \o t)
<1> DEFINE S == {s[i] : i \in DOMAIN s}
           T == {t[i] : i \in DOMAIN t}
           U == S \cup T
<1>1. s \in [1..Len(s) -> U] /\ t \in [1..Len(t) -> U] /\ Len(s) \in Nat /\ Len(t) \in Nat
  BY DEF LinesOK
<1> HIDE DEF U
<1>2. s \in Seq(U) /\ t \in Seq(U)
  BY <1>1, SeqDef
<1>3. s \o t \in Seq(U)
  BY <1>2, ConcatProperties
<1> QED
  BY <1>3, SeqIsLines

\* op_del_rule takes one line out.
LEMMA WithoutRemoves ==
  ASSUME NEW s, LinesOK(s), NEW n
  PROVE  /\ LinesOK(Without(s, n))
         /\ n \in DOMAIN s => Without(s, n) = RemoveAt(s, n)
<1>1. Len(s) \in Nat /\ DOMAIN s = 1..Len(s)
  BY LinesAreSeq
<1>2. LinesOK(Without(s, n))
  <2>1. CASE Len(s) = 0
    <3>1. Without(s, n) = [i \in 1..0 |-> Without(s, n)[i]]
      BY <2>1 DEF Without
    <3> QED
      BY <3>1, LinesOfLength
  <2>2. CASE Len(s) # 0
    <3>1. Len(s) - 1 \in Nat
      BY <1>1, <2>2
    <3>2. Without(s, n) = [i \in 1..Len(s) - 1 |-> Without(s, n)[i]]
      BY DEF Without
    <3> QED
      BY <3>1, <3>2, LinesOfLength
  <2> QED
    BY <2>1, <2>2
<1>3. ASSUME n \in DOMAIN s
      PROVE  Without(s, n) = RemoveAt(s, n)
  <2> DEFINE S == {s[i] : i \in DOMAIN s} \cup {0}
             a == SubSeq(s, 1, n - 1)
             b == SubSeq(s, n + 1, Len(s))
             t == a \o b
  <2>1. s \in Seq(S) /\ n \in 1..Len(s)
    BY <1>1, <1>3, LinesAreSeq
  <2> HIDE DEF S
  <2>2. a \in Seq(S) /\ Len(a) = n - 1 /\ \A k \in 1..n - 1 : a[k] = s[k]
    BY <1>1, <2>1
  <2>3. b \in Seq(S) /\ Len(b) = Len(s) - n /\ \A k \in 1..Len(s) - n : b[k] = s[n + k]
    <3> HIDE DEF a, t
    <3>1. b \in Seq(S) /\ Len(b) = Len(s) - n
      <4>1. b \in Seq(S)
        BY <1>1, <2>1
      <4>2. Len(s) \in Nat /\ n + 1 \in Nat /\ n \in 1..Len(s)
        BY <1>1, <2>1
      <4>3. Len(b) = IF n + 1 <= Len(s) THEN Len(s) - (n + 1) + 1 ELSE 0
        BY <2>1, <4>2
      <4> QED
        BY <4>1, <4>2, <4>3
    <3>2. ASSUME NEW k \in 1..Len(s) - n PROVE b[k] = s[n + k]
      BY <1>1, <2>1
    <3> QED
      BY <3>1, <3>2
  <2>4. t = RemoveAt(s, n)
    BY DEF RemoveAt
  <2> HIDE DEF a, b
  <2>5. /\ t \in Seq(S) /\ Len(t) = Len(a) + Len(b)
        /\ \A k \in 1..Len(a) + Len(b) : t[k] = IF k <= Len(a) THEN a[k] ELSE b[k - Len(a)]
    BY <2>2, <2>3, ConcatProperties
  <2> HIDE DEF t
  <2>6. Len(t) = Len(s) - 1
    BY <1>1, <2>1, <2>2, <2>3, <2>5
  <2>7. ASSUME NEW k \in 1..Len(s) - 1 PROVE t[k] = IF k < n THEN s[k] ELSE s[k + 1]
    <3>1. t[k] = IF k <= n - 1 THEN a[k] ELSE b[k - (n - 1)]
      BY <1>1, <2>1, <2>2, <2>3, <2>5
    <3>2. CASE k < n
      BY <1>1, <2>1, <2>2, <3>1, <3>2
    <3>3. CASE ~ (k < n)
      <4>1. k - (n - 1) \in 1..Len(s) - n /\ n + (k - (n - 1)) = k + 1
        BY <1>1, <2>1, <3>3
      <4> QED
        BY <1>1, <2>1, <2>3, <3>1, <3>3, <4>1
    <3> QED
      BY <3>2, <3>3
  <2>8. DOMAIN t = 1..Len(s) - 1 /\ t = [k \in DOMAIN t |-> t[k]]
    BY <2>5, <2>6, LenProperties
  <2>9. t = Without(s, n)
    BY <2>7, <2>8 DEF Without
  <2> QED
    BY <2>4, <2>9
<1> QED
  BY <1>2, <1>3

\* --proxy-domain drops the lines about the same domain.
LEMMA KeptLines ==
  ASSUME NEW s, LinesOK(s), NEW places \in SUBSET DOMAIN s
  PROVE  LinesOK(KeptAt(s, places))
<1>1. Len(s) \in Nat /\ DOMAIN s = 1..Len(s)
  BY LinesAreSeq
<1>2. IsFiniteSet(places)
  <2>1. IsFiniteSet(1..Len(s))
    BY <1>1, FS_Interval
  <2> QED
    BY <1>1, <2>1, FS_Subset
<1>3. Cardinality(places) \in Nat
  BY <1>2, FS_CardinalityType
<1>4. KeptAt(s, places) = [k \in 1..Cardinality(places) |-> KeptAt(s, places)[k]]
  BY DEF KeptAt
<1> QED
  BY <1>3, <1>4, LinesOfLength

-----------------------------------------------------------------------------
(* What an import comes to. FlattenSeq is a recursive function: that there *)
(* is one is shown by induction, as the absence of a least counterexample. *)

\* A set of numbers that is not empty has a least one.
LEMMA LeastNumber ==
  ASSUME NEW T \in SUBSET Nat, T # {}
  PROVE  \E x \in T : \A y \in T : x <= y
<1> DEFINE R == OpToRel(<, Nat)
<1>1. IsWellFoundedOn(R, Nat)
  BY NatLessThanWellFounded, Zenon
<1>2. \A x, y \in Nat : y < x => <<y, x>> \in R
  BY DEF OpToRel
<1> HIDE DEF R
<1>3. PICK x \in T : \A y \in T : ~ (<<y, x>> \in R)
  BY <1>1, WFMin
<1>4. ASSUME NEW y \in T PROVE x <= y
  <2>1. x \in Nat /\ y \in Nat /\ ~ (y < x)
    BY <1>2, <1>3
  <2> QED
    BY <2>1
<1> QED
  BY <1>4

\* A function that joins ever more of the lists in s.
LEMMA JoinsExist ==
  ASSUME NEW s, NEW n \in Nat
  PROVE  \E f : f = [i \in 1..n |-> IF i = 1 THEN s[i] ELSE f[i - 1] \o s[i]]
<1> DEFINE Step(f, i) == IF i = 1 THEN s[i] ELSE f[i - 1] \o s[i]
           Good(m) == \E f : f = [i \in 1..m |-> Step(f, i)]
           Bad == {m \in Nat : ~ Good(m)}
<1>1. Good(0)
  OBVIOUS
<1>2. ASSUME NEW m \in Nat, Good(m) PROVE Good(m + 1)
  <2>1. PICK f : f = [i \in 1..m |-> Step(f, i)]
    BY <1>2
  <2> DEFINE g == [i \in 1..m + 1 |-> IF i = m + 1 THEN Step(f, i) ELSE f[i]]
  <2>2. ASSUME NEW i \in 1..m + 1 PROVE g[i] = Step(g, i)
    <3>1. i = 1 \/ i - 1 \in 1..m
      OBVIOUS
    <3>2. i = 1 \/ g[i - 1] = f[i - 1]
      BY <3>1
    <3>3. Step(g, i) = Step(f, i)
      BY <3>2
    <3>4. i = m + 1 \/ i \in 1..m
      OBVIOUS
    <3>5. i \in 1..m => f[i] = Step(f, i)
      BY <2>1
    <3> HIDE DEF Step
    <3> QED
      BY <3>3, <3>4, <3>5
  <2>3. g = [i \in 1..m + 1 |-> g[i]]
    OBVIOUS
  <2> HIDE DEF g, Step
  <2>4. g = [i \in 1..m + 1 |-> Step(g, i)]
    BY <2>2, <2>3
  <2> QED
    BY <2>4
<1> HIDE DEF Good
<1>3. ASSUME Bad # {} PROVE FALSE
  <2>1. PICK m \in Bad : \A k \in Bad : m <= k
    BY <1>3, LeastNumber
  <2>2. m # 0 /\ m - 1 \in Nat /\ Good(m - 1)
    BY <1>1, <2>1
  <2> QED
    BY <1>2, <2>1, <2>2
<1>4. Good(n)
  BY <1>3
<1> QED
  BY <1>4 DEF Good

\* So FlattenSeq is the last of these joins.
LEMMA FlattenJoins ==
  ASSUME NEW s, Len(s) \in Nat \ {0}
  PROVE  \E f : /\ FlattenSeq(s) = f[Len(s)]
                /\ \A i \in 1..Len(s) : f[i] = IF i = 1 THEN s[i] ELSE f[i - 1] \o s[i]
<1> DEFINE n == Len(s)
           Is(f) == f = [i \in 1..n |-> IF i = 1 THEN s[i] ELSE f[i - 1] \o s[i]]
           F == CHOOSE f : Is(f)
<1>1. FlattenSeq(s) = F[n]
  BY DEF FlattenSeq
<1>2. n \in Nat
  OBVIOUS
<1> HIDE DEF n
<1>3. \E f : Is(f)
  BY <1>2, JoinsExist
<1>4. Is(F)
  <2> HIDE DEF Is
  <2> QED
    BY <1>3
<1> HIDE DEF F
<1> QED
  BY <1>1, <1>4 DEF n

\* x is the first line of s that is in A; no line of s is.
Leads(s, A, x) == \E k \in DOMAIN s : s[k] = x /\ x \in A /\ \A j \in 1..k - 1 : s[j] \notin A
NoneIn(s, A) == \A k \in DOMAIN s : s[k] \notin A

\* If any line of s is in A, one is the first.
LEMMA SomeLeads ==
  ASSUME NEW s, LinesOK(s), NEW A, ~ NoneIn(s, A)
  PROVE  \E x : Leads(s, A, x)
<1> DEFINE T == {k \in 1..Len(s) : s[k] \in A}
<1>1. Len(s) \in Nat /\ DOMAIN s = 1..Len(s)
  BY LinesAreSeq
<1>2. T \in SUBSET Nat /\ T # {}
  BY <1>1 DEF NoneIn
<1>3. PICK k \in T : \A j \in T : k <= j
  <2> HIDE DEF T
  <2> QED
    BY <1>2, LeastNumber
<1>4. ASSUME NEW j \in 1..k - 1 PROVE s[j] \notin A
  <2>1. j \in 1..Len(s) /\ ~ (k <= j)
    BY <1>1, <1>3
  <2> QED
    BY <1>3, <2>1
<1> QED
  BY <1>1, <1>3, <1>4 DEF Leads

\* The first in A of two lists is that of the first list, if it has one.
LEMMA LeadsJoined ==
  ASSUME NEW s, NEW t, LinesOK(s), LinesOK(t), NEW A
  PROVE  /\ LinesOK(s \o t)
         /\ NoneIn(s, A) /\ NoneIn(t, A) => NoneIn(s \o t, A)
         /\ \A x : Leads(s, A, x) => Leads(s \o t, A, x)
         /\ \A x : NoneIn(s, A) /\ Leads(t, A, x) => Leads(s \o t, A, x)
<1> DEFINE S == {s[i] : i \in DOMAIN s}
           T == {t[i] : i \in DOMAIN t}
           U == S \cup T
           m == Len(s)
           n == Len(t)
           u == s \o t
<1>1. /\ m \in Nat /\ n \in Nat /\ DOMAIN s = 1..m /\ DOMAIN t = 1..n
      /\ s \in [1..m -> U] /\ t \in [1..n -> U]
  BY LinesAreSeq DEF LinesOK
<1> HIDE DEF U
<1>2. s \in Seq(U) /\ t \in Seq(U)
  BY <1>1, SeqDef
<1>3. /\ u \in Seq(U) /\ DOMAIN u = 1..m + n
      /\ \A i \in 1..m + n : u[i] = IF i <= m THEN s[i] ELSE t[i - m]
  BY <1>2, ConcatProperties, LenProperties
<1>4. LinesOK(u)
  BY <1>3, SeqIsLines
<1> HIDE DEF m, n, u
<1>5. \A i \in 1..m : i \in 1..m + n /\ u[i] = s[i]
  BY <1>1, <1>3
<1>6. \A i \in 1..n : m + i \in 1..m + n /\ u[m + i] = t[i]
  BY <1>1, <1>3
<1>7. \A i \in 1..m + n : (i \in 1..m /\ u[i] = s[i]) \/ (i - m \in 1..n /\ u[i] = t[i - m])
  BY <1>1, <1>3
<1>8. NoneIn(s, A) /\ NoneIn(t, A) => NoneIn(u, A)
  BY <1>1, <1>3, <1>7 DEF NoneIn
<1>9. ASSUME NEW x, Leads(s, A, x) PROVE Leads(u, A, x)
  <2>1. PICK k \in 1..m : s[k] = x /\ x \in A /\ \A j \in 1..k - 1 : s[j] \notin A
    BY <1>1, <1>9 DEF Leads
  <2>2. ASSUME NEW j \in 1..k - 1 PROVE u[j] \notin A
    <3>1. j \in 1..m
      BY <1>1
    <3> QED
      BY <1>5, <2>1, <3>1
  <2> QED
    BY <1>3, <1>5, <2>1, <2>2 DEF Leads
<1>10. ASSUME NEW x, NoneIn(s, A), Leads(t, A, x) PROVE Leads(u, A, x)
  <2>1. PICK k \in 1..n : t[k] = x /\ x \in A /\ \A j \in 1..k - 1 : t[j] \notin A
    BY <1>1, <1>10 DEF Leads
  <2> DEFINE l == m + k
  <2>2. ASSUME NEW j \in 1..l - 1 PROVE u[j] \notin A
    <3>1. j \in 1..m + n /\ (j - m \in 1..n => j - m \in 1..k - 1)
      BY <1>1
    <3> QED
      BY <1>1, <1>7, <1>10, <2>1, <3>1 DEF NoneIn
  <2>3. l \in DOMAIN u /\ u[l] = x
    BY <1>3, <1>6, <2>1
  <2> HIDE DEF l
  <2> QED
    BY <2>1, <2>2, <2>3 DEF Leads
<1> QED
  BY <1>4, <1>8, <1>9, <1>10 DEF u

\* The first line in A of lists that are joined is the first of the first list
\* that has one.
LEMMA FlattenLeads ==
  ASSUME NEW s, LinesOK(s), \A i \in DOMAIN s : LinesOK(s[i]), NEW A
  PROVE  /\ LinesOK(FlattenSeq(s))
         /\ (\A i \in DOMAIN s : NoneIn(s[i], A)) => NoneIn(FlattenSeq(s), A)
         /\ \A m \in DOMAIN s : \A x :
              (\A i \in 1..m - 1 : NoneIn(s[i], A)) /\ Leads(s[m], A, x) => Leads(FlattenSeq(s), A, x)
<1> DEFINE Holds(n, t) ==
             /\ LinesOK(t)
             /\ (\A i \in 1..n : NoneIn(s[i], A)) => NoneIn(t, A)
             /\ \A m \in 1..n : \A x :
                  (\A i \in 1..m - 1 : NoneIn(s[i], A)) /\ Leads(s[m], A, x) => Leads(t, A, x)
<1>1. Len(s) \in Nat /\ DOMAIN s = 1..Len(s)
  BY LinesAreSeq
<1>2. CASE Len(s) = 0
  BY <1>1, <1>2 DEF FlattenSeq, NoneIn
<1>3. CASE Len(s) # 0
  <2>1. PICK f : /\ FlattenSeq(s) = f[Len(s)]
                 /\ \A i \in 1..Len(s) : f[i] = IF i = 1 THEN s[i] ELSE f[i - 1] \o s[i]
    BY <1>1, <1>3, FlattenJoins
  <2>2. 1 \in 1..Len(s) /\ Holds(1, f[1])
    <3>1. 1 \in 1..Len(s) /\ f[1] = s[1]
      BY <1>1, <1>3, <2>1
    <3> QED
      BY <1>1, <3>1
  <2>3. ASSUME NEW n \in 1..Len(s), n # 1, Holds(n - 1, f[n - 1])
        PROVE  Holds(n, f[n])
    <3> DEFINE t == f[n - 1]
    <3>1. /\ n - 1 \in 1..Len(s) /\ f[n] = t \o s[n] /\ LinesOK(t) /\ LinesOK(s[n])
          /\ \A i \in 1..n : i \in 1..n - 1 \/ i = n
          /\ \A i \in 1..n - 1 : i \in 1..n
      <4>1. /\ n - 1 \in 1..Len(s)
            /\ \A i \in 1..n : i \in 1..n - 1 \/ i = n
            /\ \A i \in 1..n - 1 : i \in 1..n
        BY <1>1, <2>3
      <4>2. f[n] = t \o s[n] /\ LinesOK(s[n])
        BY <1>1, <2>1, <2>3
      <4>3. LinesOK(t)
        BY <2>3
      <4> QED
        BY <4>1, <4>2, <4>3
    <3>2. (\A i \in 1..n - 1 : NoneIn(s[i], A)) => NoneIn(t, A)
      BY <2>3
    <3>3. \A m \in 1..n - 1 : \A x :
            (\A i \in 1..m - 1 : NoneIn(s[i], A)) /\ Leads(s[m], A, x) => Leads(t, A, x)
      BY <2>3
    <3> HIDE DEF t
    <3>4. LinesOK(f[n])
      BY <3>1, ConcatLines
    <3>5. ASSUME \A i \in 1..n : NoneIn(s[i], A) PROVE NoneIn(f[n], A)
      BY <3>1, <3>2, <3>5, LeadsJoined
    <3>6. ASSUME NEW m \in 1..n, NEW x, \A i \in 1..m - 1 : NoneIn(s[i], A), Leads(s[m], A, x)
          PROVE  Leads(f[n], A, x)
      <4>1. CASE m \in 1..n - 1
        BY <3>1, <3>3, <3>6, <4>1, LeadsJoined
      <4>2. CASE m = n
        BY <3>1, <3>2, <3>6, <4>2, LeadsJoined
      <4> QED
        BY <3>1, <4>1, <4>2
    <3> QED
      BY <3>4, <3>5, <3>6
  <2> DEFINE Bad == {n \in 1..Len(s) : ~ Holds(n, f[n])}
  <2> HIDE DEF Holds
  <2>4. ASSUME Bad # {} PROVE FALSE
    <3>1. PICK n \in Bad : \A k \in Bad : n <= k
      <4>1. Bad \in SUBSET Nat
        BY <1>1
      <4> HIDE DEF Bad
      <4> QED
        BY <2>4, <4>1, LeastNumber
    <3>2. n \in 1..Len(s) /\ n # 1
      BY <2>2, <3>1
    <3>3. n - 1 \in 1..Len(s) /\ ~ (n <= n - 1)
      BY <1>1, <3>2
    <3> QED
      BY <2>3, <3>1, <3>2, <3>3
  <2>5. Len(s) \in 1..Len(s)
    BY <1>1, <1>3
  <2>6. Holds(Len(s), FlattenSeq(s))
    BY <2>1, <2>4, <2>5
  <2> QED
    BY <1>1, <2>6 DEF Holds
<1> QED
  BY <1>2, <1>3

\* A raw line comes to a list of lines.
LEMMA EmittedLines ==
  ASSUME NEW raw, LinesOK(raw.members)
  PROVE  LinesOK(Emitted(raw))
<1> DEFINE s == Members(raw)
           t == [i \in DOMAIN s |-> Emit(s[i].typ, s[i].val, raw.pol)]
           x == Emit(raw.typ, raw.val, raw.pol)
<1>1. LinesOK(s)
  BY KeptLines DEF Members
<1>2. LinesOK(t)
  <2> HIDE DEF s
  <2>1. Len(s) \in Nat /\ DOMAIN s = 1..Len(s)
    BY <1>1, LinesAreSeq
  <2>2. t = [i \in 1..Len(s) |-> t[i]]
    BY <2>1
  <2> HIDE DEF t
  <2> QED
    BY <2>1, <2>2, LinesOfLength
<1>3. LinesOK(<<x>>)
  <2> HIDE DEF x
  <2>1. <<x>> \in Seq({x})
    OBVIOUS
  <2> QED
    BY <2>1, SeqIsLines
<1>4. Emitted(raw) = t \/ Emitted(raw) = <<x>> \/ Emitted(raw) = <<>>
  BY DEF Emitted
<1> HIDE DEF t, x
<1> QED
  BY <1>2, <1>3, <1>4, EmptyLines

\* The closing line and all of them together are lists as well.
LEMMA FinalLines == ASSUME NEW raws PROVE LinesOK(Final(raws))
<1> DEFINE x == [typ |-> "FINAL", val |-> Nothing, pol |-> CategoryOf(raws[Max(Finals(raws))].pol)]
<1>1. Final(raws) = <<>> \/ Final(raws) = <<x>>
  BY DEF Final
<1> HIDE DEF x
<1>2. <<x>> \in Seq({x})
  OBVIOUS
<1> QED
  BY <1>1, <1>2, SeqIsLines, EmptyLines

LEMMA ConvertedLines ==
  ASSUME NEW raws, LinesOK(raws), \A i \in DOMAIN raws : LinesOK(raws[i].members)
  PROVE  LinesOK(Convert(raws))
<1> DEFINE s == [i \in DOMAIN raws |-> Emitted(raws[i])]
<1>1. Len(raws) \in Nat /\ DOMAIN raws = 1..Len(raws)
  BY LinesAreSeq
<1>2. LinesOK(s) /\ DOMAIN s = DOMAIN raws
  <2>1. s = [i \in 1..Len(raws) |-> s[i]]
    BY <1>1
  <2> HIDE DEF s
  <2> QED
    BY <1>1, <2>1, LinesOfLength
<1>3. \A i \in DOMAIN s : LinesOK(s[i])
  BY EmittedLines
<1>4. LinesOK(Final(raws))
  BY FinalLines
<1>5. Convert(raws) = FlattenSeq(s) \o Final(raws)
  BY DEF Convert
<1> HIDE DEF s
<1> QED
  BY <1>2, <1>3, <1>4, <1>5, FlattenLeads, ConcatLines

\* What an operation makes of lines are lines.
LEMMA EditedLines ==
  ASSUME NEW op \in Ops, NEW s, LinesOK(s)
  PROVE  LinesOK(Edited(op, s))
<1>1. Len(s) \in Nat /\ DOMAIN s = 1..Len(s)
  BY LinesAreSeq
<1>2. CASE op.kind = "add"
  BY <1>2, AppendedLines DEF Edited
<1>3. CASE op.kind = "del"
  BY <1>3, WithoutRemoves DEF Edited
<1>4. CASE op.kind = "final"
  <2>1. CASE HasFinal(s)
    <3> DEFINE t == [i \in DOMAIN s |-> IF s[i].typ = "FINAL" THEN FinalLine(op.pol) ELSE s[i]]
    <3>1. t = [i \in 1..Len(s) |-> t[i]]
      BY <1>1
    <3>2. t = Edited(op, s)
      BY <1>4, <2>1 DEF Edited, WithFinal
    <3> HIDE DEF t
    <3> QED
      BY <1>1, <3>1, <3>2, LinesOfLength
  <2>2. CASE ~ HasFinal(s)
    BY <1>4, <2>2, AppendedLines DEF Edited, WithFinal
  <2> QED
    BY <2>1, <2>2
<1>5. CASE op.kind = "import"
  BY <1>5, OpsAssumption, ConvertedLines DEF OpsAssumption, Edited
<1>6. CASE op.kind = "proxy"
  <2>1. OtherPlaces(op.line, s) \in SUBSET DOMAIN s
    BY DEF OtherPlaces
  <2>2. LinesOK(KeptAt(s, OtherPlaces(op.line, s)))
    BY <2>1, KeptLines
  <2>3. <<op.line>> \in Seq({op.line})
    OBVIOUS
  <2>4. LinesOK(<<op.line>>)
    BY <2>3, SeqIsLines
  <2> QED
    BY <1>6, <2>2, <2>4, ConcatLines DEF Edited
<1>7. CASE op.kind = "rename"
  <2> DEFINE t == [i \in DOMAIN s |-> IF s[i].pol = op.old THEN [s[i] EXCEPT !.pol = op.new] ELSE s[i]]
  <2>1. t = [i \in 1..Len(s) |-> t[i]]
    BY <1>1
  <2>2. t = Edited(op, s)
    BY <1>7 DEF Edited
  <2> HIDE DEF t
  <2> QED
    BY <1>1, <2>1, <2>2, LinesOfLength
<1>8. CASE op.kind \notin {"add", "del", "final", "import", "proxy", "rename"}
  BY <1>8 DEF Edited
<1> QED
  BY <1>2, <1>3, <1>4, <1>5, <1>6, <1>7, <1>8

\* What the edits of the bot leave alone.
LEMMA EditedKeeps ==
  ASSUME NEW op, NEW s, LinesOK(s), op.kind = "del" => op.n \in DOMAIN s
  PROVE  KeepsOthers(op, s, Edited(op, s))
<1>1. ASSUME op.kind = "add" PROVE \A i \in DOMAIN s : Edited(op, s)[i] = s[i]
  BY <1>1, AppendedLines DEF Edited
<1>2. ASSUME op.kind = "final", NEW i \in DOMAIN s, s[i].typ # "FINAL"
      PROVE  i \in DOMAIN Edited(op, s) /\ Edited(op, s)[i] = s[i]
  <2>1. Edited(op, s) = WithFinal(s, op.pol)
    BY <1>2 DEF Edited
  <2>2. CASE HasFinal(s)
    BY <1>2, <2>1, <2>2 DEF WithFinal
  <2>3. CASE ~ HasFinal(s)
    BY <1>2, <2>1, <2>3, AppendedLines DEF WithFinal
  <2> QED
    BY <2>2, <2>3
<1>3. ASSUME op.kind = "del" PROVE \E i \in DOMAIN s : Edited(op, s) = RemoveAt(s, i)
  <2>1. Edited(op, s) = RemoveAt(s, op.n)
    BY <1>3, WithoutRemoves DEF Edited
  <2> QED
    BY <1>3, <2>1
<1> QED
  BY <1>1, <1>2, <1>3 DEF KeepsOthers

-----------------------------------------------------------------------------

\* init_policy_map and the edits of the map keep to targets there are.
LEMMA MapsTyped ==
  /\ NoPolicy \in Maps
  /\ \A lines : \A map \in Maps : InitPolicyMap(lines, map) \in Maps
  /\ \A op \in Ops : \A map \in Maps : EditedMap(op, map) \in Maps
<1> DEFINE Targets == Names \cup Words \cup {None}
<1>1. NoPolicy \in Maps
  BY DEF NoPolicy, Maps
<1>2. ASSUME NEW lines, NEW map \in Maps PROVE InitPolicyMap(lines, map) \in Maps
  <2>1. FirstExit \in Targets /\ "block" \in Targets /\ None \in Targets
    BY SmartRulesAssumption, RouterAssumption
    DEF SmartRulesAssumption, RouterAssumption, Words, DirectWords, RejectWords
  <2>2. \A c \in Names : map[c] \in Targets
    BY DEF Maps
  <2> DEFINE cats == {PolicyOf(lines[i]) : i \in DOMAIN lines} \ (Words \ {"reject-drop"})
  <2> HIDE DEF cats, Targets
  <2>3. [c \in Names |-> CASE c \notin cats                    -> None
                           [] c \in cats /\ map[c] # None      -> map[c]
                           [] c \in cats /\ map[c] = None /\ c \in Hostile    -> "block"
                           [] c \in cats /\ map[c] = None /\ c \notin Hostile -> FirstExit]
          \in [Names -> Targets]
    BY <2>1, <2>2
  <2> QED
    BY <2>3 DEF InitPolicyMap, Maps, cats, Targets
<1>3. ASSUME NEW op \in Ops, NEW map \in Maps PROVE EditedMap(op, map) \in Maps
  <2>1. \A c \in Names : map[c] \in Targets
    BY DEF Maps
  <2>2. CASE op.kind = "policy"
    <3>1. op.pol \in Targets
      BY <2>2, OpsAssumption DEF OpsAssumption
    <3> HIDE DEF Targets
    <3>2. [c \in Names |-> CASE c = op.cat -> op.pol
                             [] c # op.cat /\ <<c, op.cat>> \in Endings -> None
                             [] OTHER -> map[c]] \in [Names -> Targets]
      BY <2>1, <3>1 DEF Targets
    <3> QED
      BY <2>2, <3>2 DEF EditedMap, Maps, Targets
  <2>3. CASE op.kind = "nopolicy"
    <3>1. [map EXCEPT ![op.cat] = None] \in Maps
      BY DEF Maps
    <3> QED
      BY <2>3, <3>1 DEF EditedMap
  <2>4. CASE op.kind = "rename"
    <3>1. op.old \in Names /\ op.new \in Names
      BY <2>4, OpsAssumption DEF OpsAssumption
    <3> DEFINE target == IF map[op.old] = None THEN map[op.new] ELSE map[op.old]
    <3>2. target \in Targets
      BY <2>1, <3>1
    <3>3. [map EXCEPT ![op.new] = target, ![op.old] = None] \in Maps
      BY <3>2 DEF Maps
    <3>4. EditedMap(op, map) = [map EXCEPT ![op.new] = target, ![op.old] = None]
      BY <2>4, <3>1 DEF EditedMap, Maps
    <3> QED
      BY <3>3, <3>4
  <2>5. CASE op.kind \notin {"policy", "nopolicy", "rename"}
    BY <2>5 DEF EditedMap
  <2> QED
    BY <2>2, <2>3, <2>4, <2>5
<1> QED
  BY <1>1, <1>2, <1>3

LEMMA IdleTyped ==
  ASSUME NEW p \in Procs, job[p] = Idle
  PROVE  JobTyped(p) /\ JobSeeded(p) /\ JobEdits(p)
<1>1. job[p].pc = "idle" /\ job[p].map = NoPolicy /\ job[p].cand = <<>>
  BY JobFields DEF Idle
<1> QED
  BY <1>1, MapsTyped, EmptyLines DEF JobTyped, JobSeeded, JobEdits, JobPlaces, InLock

LEMMA EditInitInv == SmartInit => EditInv
<1> SUFFICES ASSUME SmartInit PROVE EditInv
  OBVIOUS
<1>1. SmartInv
  BY SmartInitInv
<1>2. CountsOK
  BY SmartRulesAssumption DEF SmartRulesAssumption, SmartInit, CountsOK
<1>3. policy \in Maps /\ LinesOK(rules)
  BY MapsTyped, EmptyLines, FirstAssumption DEF SmartInit, FirstAssumption
<1>4. \A p \in Procs : job[p] = Idle
  BY DEF SmartInit
<1> QED
  BY <1>1, <1>2, <1>3, <1>4, IdleTyped DEF EditInv

\* What a step of job p has to show: the files keep their type, the others
\* notice a change of the rules, and the own variables fit.
LEMMA StepKeepsEdits ==
  ASSUME EditInv, NEW p \in Procs, SmartInv', CountsOK',
         \A q \in Procs \ {p} : job'[q] = job[q] /\ (~ moved'[q] => ~ moved[q] /\ rules' = rules),
         policy' = policy \/ job[p].pc \in InLock,
         policy' \in Maps, LinesOK(rules)', (JobTyped(p) /\ JobSeeded(p) /\ JobEdits(p))'
  PROVE  EditInv'
<1>1. ASSUME NEW q \in Procs \ {p} PROVE (JobTyped(q) /\ JobSeeded(q) /\ JobEdits(q))'
  <2>1. job'[q] = job[q] /\ JobTyped(q) /\ JobSeeded(q) /\ JobEdits(q)
    BY DEF EditInv
  <2>2. JobTyped(q)'
    BY <2>1 DEF JobTyped
  <2>3. job[q].pc \in {"rules", "policy"} => policy' = policy
    BY Alone DEF EditInv, SmartInv, InLock
  <2>4. JobSeeded(q)'
    BY <2>1, <2>3 DEF JobSeeded
  <2>5. JobEdits(q)'
    BY <2>1 DEF JobEdits
  <2> QED
    BY <2>2, <2>4, <2>5
<1> QED
  BY <1>1 DEF EditInv

\* A step that leaves the rules, and who is marked, alone.
LEMMA SameRules ==
  ASSUME EditInv, NEW p \in Procs, UNCHANGED rules,
         moved' = moved \/ moved' = [moved EXCEPT ![p] = FALSE]
  PROVE  /\ LinesOK(rules)' /\ moved' \in [Procs -> BOOLEAN]
         /\ \A q \in Procs \ {p} : ~ moved'[q] => ~ moved[q] /\ rules' = rules
BY DEF EditInv, CountsOK

LEMMA ChangedRules ==
  ASSUME EditInv, NEW p \in Procs, NEW lines, LinesOK(lines), SetRules(p, lines)
  PROVE  /\ LinesOK(rules)' /\ moved' \in [Procs -> BOOLEAN] /\ ~ moved'[p]
         /\ \A q \in Procs \ {p} : ~ moved'[q] => ~ moved[q] /\ rules' = rules
<1>1. rules' = lines /\ moved' = [q \in Procs |-> q # p /\ (moved[q] \/ rules' # rules)]
  BY DEF SetRules
<1> QED
  BY <1>1 DEF EditInv, CountsOK

\* A job that is over, with the files as they are or as it found them.
LEMMA OverKeepsEdits ==
  ASSUME EditInv, NEW p \in Procs, SmartInv', Done(p), started' \in 0..MaxOps, kills' \in 0..MaxKills,
         \/ UNCHANGED <<rules, policy, moved>>
         \/ Restore(p) /\ job[p].pc \in InLock
  PROVE  EditInv'
<1>1. job'[p] = Idle /\ \A q \in Procs \ {p} : job'[q] = job[q]
  <2>1. JobShape /\ Idle = Record(Idle)
    BY JobFields DEF EditInv, SmartInv, Idle
  <2> QED
    BY <2>1, JobMoves DEF Done
<1>2. (JobTyped(p) /\ JobSeeded(p) /\ JobEdits(p))'
  BY <1>1, MapsTyped, EmptyLines, JobFields
  DEF JobTyped, JobSeeded, JobEdits, JobPlaces, InLock, Idle
<1>3. CASE UNCHANGED <<rules, policy, moved>>
  BY <1>1, <1>2, <1>3, SameRules, StepKeepsEdits DEF EditInv, CountsOK
<1>4. CASE Restore(p) /\ job[p].pc \in InLock
  <2>1. LinesOK(job[p].snap[1]) /\ job[p].snap[2] \in Maps
    BY <1>4 DEF EditInv, JobTyped
  <2>2. SetRules(p, job[p].snap[1]) /\ policy' = job[p].snap[2]
    BY <1>4 DEF Restore
  <2>3. /\ LinesOK(rules)' /\ moved' \in [Procs -> BOOLEAN]
        /\ \A q \in Procs \ {p} : ~ moved'[q] => ~ moved[q] /\ rules' = rules
    BY <2>1, <2>2, ChangedRules
  <2> QED
    BY <1>1, <1>2, <1>4, <2>1, <2>2, <2>3, StepKeepsEdits DEF CountsOK
<1> QED
  BY <1>3, <1>4

\* A step that gives job p a record and changes neither files nor marks.
LEMMA RecordKeepsEdits ==
  ASSUME EditInv, NEW p \in Procs, SmartInv', NEW j, j = Record(j), job' = [job EXCEPT ![p] = j],
         UNCHANGED <<rules, policy>>, moved' = moved \/ moved' = [moved EXCEPT ![p] = FALSE],
         started' \in 0..MaxOps, kills' \in 0..MaxKills,
         (JobTyped(p) /\ JobSeeded(p) /\ JobEdits(p))'
  PROVE  EditInv'
<1>1. \A q \in Procs \ {p} : job'[q] = job[q]
  BY JobMoves DEF EditInv, SmartInv
<1>2. /\ LinesOK(rules)' /\ moved' \in [Procs -> BOOLEAN]
      /\ \A q \in Procs \ {p} : ~ moved'[q] => ~ moved[q] /\ rules' = rules
  BY SameRules
<1>3. policy' \in Maps /\ CountsOK'
  BY <1>2 DEF EditInv, CountsOK
<1> QED
  BY <1>1, <1>2, <1>3, StepKeepsEdits

\* A job is asked for, reads the rules and takes the lock.
LEMMA AsksKeepsEdits ==
  ASSUME EditInv, SmartInv', NEW p \in Procs, NEW op \in Ops, Begin(p, op)
  PROVE  EditInv'
<1> DEFINE pc == IF op.kind \in BotOps THEN "read" ELSE "lock"
           j == Job(pc, op, <<>>, NoPolicy, <<>>)
<1>1. j = Record(j) /\ j.pc = pc /\ j.op = op /\ j.cand = <<>> /\ j.map = NoPolicy
  BY JobFields
<1>2. job' = [job EXCEPT ![p] = j]
  BY DEF Begin
<1>3. pc \in {"read", "lock"} /\ (pc = "lock" => op.kind \notin BotOps)
  OBVIOUS
<1> HIDE DEF j, pc
<1>4. job'[p] = j
  BY <1>1, <1>2, JobMoves DEF EditInv, SmartInv
<1>5. (JobTyped(p) /\ JobSeeded(p) /\ JobEdits(p))'
  BY <1>1, <1>3, <1>4, MapsTyped, EmptyLines DEF JobTyped, JobSeeded, JobEdits, JobPlaces, InLock
<1>6. started' \in 0..MaxOps /\ kills' \in 0..MaxKills
  BY SmartRulesAssumption DEF SmartRulesAssumption, EditInv, CountsOK, Begin
<1> QED
  BY <1>1, <1>2, <1>5, <1>6, RecordKeepsEdits DEF Begin, files

LEMMA ReadKeepsEdits ==
  ASSUME EditInv, SmartInv', NEW p \in Procs, Read(p)
  PROVE  EditInv'
<1> DEFINE op == job[p].op
           cand == Edited(op, rules)
           j == Job("lock", op, cand, NoPolicy, <<>>)
<1>1. j = Record(j) /\ j.pc = "lock" /\ j.op = op /\ j.cand = cand /\ j.map = NoPolicy
  BY JobFields
<1>2. /\ UNCHANGED <<rules, policy, started, kills>> /\ moved' = [moved EXCEPT ![p] = FALSE]
      /\ started' \in 0..MaxOps /\ kills' \in 0..MaxKills
  BY DEF Read, files, EditInv, CountsOK
<1>3. op \in Ops /\ LinesOK(rules)
  BY DEF EditInv, JobTyped, Read
<1>4. LinesOK(cand)
  BY <1>3, EditedLines
<1>5. CASE Done(p)
  <2>1. Idle = Record(Idle) /\ job' = [job EXCEPT ![p] = Idle]
    BY <1>5, JobFields DEF Done, Idle
  <2>2. job'[p] = Idle
    BY <2>1, JobMoves DEF EditInv, SmartInv
  <2>3. (JobTyped(p) /\ JobSeeded(p) /\ JobEdits(p))'
    BY <2>2, MapsTyped, EmptyLines, JobFields DEF JobTyped, JobSeeded, JobEdits, JobPlaces, InLock, Idle
  <2> QED
    BY <1>2, <2>1, <2>3, RecordKeepsEdits
<1>6. CASE ~ Done(p)
  <2>1. job' = [job EXCEPT ![p] = j] /\ (op.kind = "del" => op.n \in DOMAIN rules)
    BY <1>6 DEF Read
  <2> HIDE DEF j, cand
  <2>2. job'[p] = j
    BY <1>1, <2>1, JobMoves DEF EditInv, SmartInv
  <2>3. (JobTyped(p) /\ JobSeeded(p))'
    BY <1>1, <1>3, <1>4, <2>2, MapsTyped DEF JobTyped, JobSeeded, JobPlaces, InLock
  <2>4. JobEdits(p)'
    BY <1>1, <1>2, <2>1, <2>2 DEF JobEdits, cand
  <2> QED
    BY <1>1, <1>2, <2>1, <2>3, <2>4, RecordKeepsEdits
<1> QED
  BY <1>5, <1>6

LEMMA LockKeepsEdits ==
  ASSUME EditInv, SmartInv', NEW p \in Procs, Lock(p)
  PROVE  EditInv'
<1> DEFINE op == job[p].op
           cand == IF op.kind = "import" THEN Convert(op.raws) ELSE job[p].cand
           pc == AfterLock(op)
           j == Job(pc, op, cand, NoPolicy, files)
<1>1. j = Record(j) /\ j.pc = pc /\ j.op = op /\ j.cand = cand /\ j.map = NoPolicy /\ j.snap = files
  BY JobFields
<1>2. job' = [job EXCEPT ![p] = j] /\ pc \in {"build", "regen", "map"}
  BY DEF Lock, AfterLock
<1>3. op \in Ops /\ LinesOK(job[p].cand) /\ LinesOK(rules) /\ policy \in Maps
  BY DEF EditInv, JobTyped, Lock
<1>4. LinesOK(cand)
  BY <1>3, OpsAssumption, ConvertedLines DEF OpsAssumption
<1>5. op.kind \in BotOps => cand = job[p].cand
  BY DEF BotOps
<1>6. files[1] = rules /\ files[2] = policy
  BY DEF files
<1> HIDE DEF j, cand, pc
<1>7. job'[p] = j
  BY <1>1, <1>2, JobMoves DEF EditInv, SmartInv
<1>8. (JobTyped(p) /\ JobSeeded(p))'
  BY <1>1, <1>2, <1>3, <1>4, <1>6, <1>7, MapsTyped DEF JobTyped, JobSeeded, JobPlaces, InLock
<1>9. UNCHANGED <<rules, policy, moved, started, kills>>
  BY DEF Lock, files
<1>10. JobEdits(p)'
  <2>1. JobEdits(p) /\ job[p].pc = "lock"
    BY DEF EditInv, Lock
  <2> QED
    BY <1>1, <1>2, <1>5, <1>7, <1>9, <2>1 DEF JobEdits
<1> QED
  BY <1>1, <1>2, <1>8, <1>9, <1>10, RecordKeepsEdits DEF EditInv, CountsOK

\* init_policy_map is given the policies in place.
LEMMA BuildKeepsEdits ==
  ASSUME EditInv, SmartInv', NEW p \in Procs, Build(p)
  PROVE  EditInv'
<1> DEFINE map == InitPolicyMap(Default \o job[p].cand, policy)
           j == Job("rules", job[p].op, job[p].cand, map, job[p].snap)
<1>1. /\ j = Record(j) /\ j.pc = "rules" /\ j.op = job[p].op /\ j.cand = job[p].cand
      /\ j.map = map /\ j.snap = job[p].snap
  BY JobFields
<1>2. job' = [job EXCEPT ![p] = j] /\ job[p].pc = "build"
  BY DEF Build
<1>3. map \in Maps
  BY MapsTyped DEF EditInv
<1>4. UNCHANGED <<rules, policy, moved, started, kills>>
  BY DEF Build, files
<1>5. map' = InitPolicyMap(Default \o job'[p].cand, policy')
  OBVIOUS
<1> HIDE DEF j
<1>6. job'[p] = j
  BY <1>1, <1>2, JobMoves DEF EditInv, SmartInv
<1>7. JobSeeded(p)'
  BY <1>1, <1>4, <1>6 DEF JobSeeded
<1> HIDE DEF map
<1>8. JobTyped(p) /\ JobEdits(p)
  BY DEF EditInv
<1>9. JobTyped(p)'
  BY <1>1, <1>2, <1>3, <1>6, <1>8 DEF JobTyped, JobPlaces, InLock
<1>10. JobEdits(p)'
  BY <1>1, <1>2, <1>4, <1>6, <1>8 DEF JobEdits
<1> QED
  BY <1>1, <1>2, <1>4, <1>7, <1>9, <1>10, RecordKeepsEdits DEF EditInv, CountsOK

\* A step that installs or edits one file, or has the configuration built.
LEMMA GoesKeepsEdits ==
  ASSUME EditInv, SmartInv', NEW p \in Procs,
         \/ InstallRules(p) \/ InstallPolicy(p) \/ InstallYaml(p)
         \/ EditMap(p) \/ EditRules(p) \/ Regen(p)
  PROVE  EditInv'
<1>1. /\ JobTyped(p) /\ JobSeeded(p) /\ LinesOK(rules) /\ policy \in Maps /\ JobShape
      /\ CountsOK
  BY DEF EditInv, SmartInv
<1>2. PICK pc \in {"policy", "yaml", "reload", "rename", "regen"} :
        Goto(p, pc) /\ (pc = "policy" => InstallRules(p))
  BY DEF InstallRules, InstallPolicy, InstallYaml, EditMap, EditRules, Regen
<1>3. job[p].pc \in InLock
  BY DEF InstallRules, InstallPolicy, InstallYaml, EditMap, EditRules, Regen, InLock
<1>4. /\ job'[p].pc = pc /\ job'[p].op = job[p].op /\ job'[p].cand = job[p].cand
      /\ job'[p].map = job[p].map /\ job'[p].snap = job[p].snap
      /\ \A q \in Procs \ {p} : job'[q] = job[q]
  BY <1>1, <1>2, JobGoes
<1>5. JobTyped(p)'
  BY <1>1, <1>2, <1>3, <1>4 DEF JobTyped, JobPlaces, InLock
<1>6. JobSeeded(p)'
  BY <1>1, <1>2, <1>4 DEF JobSeeded, InstallRules
<1>7. JobEdits(p)'
  BY <1>2, <1>4 DEF JobEdits
<1>8. job[p].op \in Ops
  BY <1>1, <1>3 DEF JobTyped, InLock
<1>9. policy' \in Maps
  BY <1>1, <1>8, MapsTyped
  DEF JobTyped, InstallRules, InstallPolicy, InstallYaml, EditMap, EditRules, Regen
<1>10. \/ UNCHANGED <<rules, moved>>
       \/ SetRules(p, job[p].cand) \/ SetRules(p, Edited(job[p].op, rules))
  BY DEF InstallRules, InstallPolicy, InstallYaml, EditMap, EditRules, Regen
<1>11. /\ LinesOK(rules)' /\ moved' \in [Procs -> BOOLEAN]
       /\ \A q \in Procs \ {p} : ~ moved'[q] => ~ moved[q] /\ rules' = rules
  <2>1. LinesOK(job[p].cand) /\ LinesOK(Edited(job[p].op, rules))
    BY <1>1, <1>8, EditedLines DEF JobTyped
  <2> QED
    BY <1>10, <2>1, SameRules, ChangedRules
<1>12. CountsOK'
  BY <1>1, <1>11 DEF CountsOK, InstallRules, InstallPolicy, InstallYaml, EditMap, EditRules, Regen
<1> QED
  BY <1>3, <1>4, <1>5, <1>6, <1>7, <1>9, <1>11, <1>12, StepKeepsEdits

\* A job that is over, by any way it has.
LEMMA EndsKeepEdits ==
  ASSUME EditInv, SmartInv', NEW p \in Procs,
         \/ LockTimesOut(p) \/ BuildFails(p) \/ InstallFails(p) \/ Reload(p) \/ ReloadFails(p)
         \/ RegenFails(p) \/ EditFails(p) \/ RegenKeepsOld(p) \/ Kill(p)
  PROVE  EditInv'
<1>1. started' \in 0..MaxOps /\ kills' \in 0..MaxKills
  BY SmartRulesAssumption
  DEF SmartRulesAssumption, EditInv, CountsOK, LockTimesOut, BuildFails, InstallFails, Reload,
      ReloadFails, RegenFails, EditFails, RegenKeepsOld, Kill
<1>2. Done(p)
  BY DEF LockTimesOut, BuildFails, InstallFails, Reload, ReloadFails, RegenFails, EditFails,
         RegenKeepsOld, Kill, Unlock
<1>3. UNCHANGED <<rules, policy, moved>> \/ (Restore(p) /\ job[p].pc \in InLock)
  BY DEF LockTimesOut, BuildFails, InstallFails, Reload, ReloadFails, RegenFails, EditFails,
         RegenKeepsOld, Kill, files, InLock
<1> QED
  BY <1>1, <1>2, <1>3, OverKeepsEdits

LEMMA EditNextInv == EditInv /\ [SmartNext]_smartVars => EditInv'
<1> SUFFICES ASSUME EditInv, [SmartNext]_smartVars PROVE EditInv'
  OBVIOUS
<1>1. SmartInv'
  BY SmartNextInv DEF EditInv
<1>2. ASSUME NEW p \in Procs, Work(p) PROVE EditInv'
  BY <1>1, <1>2, AsksKeepsEdits, ReadKeepsEdits, LockKeepsEdits, BuildKeepsEdits,
     GoesKeepsEdits, EndsKeepEdits DEF Work
<1>3. CASE UNCHANGED smartVars
  <2>1. UNCHANGED <<rules, policy, job, moved, started, kills>>
    BY <1>3 DEF smartVars, files
  <2>2. ASSUME NEW p \in Procs PROVE (JobTyped(p) /\ JobSeeded(p) /\ JobEdits(p))'
    BY <2>1 DEF EditInv, JobTyped, JobSeeded, JobEdits
  <2> QED
    BY <1>1, <2>1, <2>2 DEF EditInv, CountsOK
<1> QED
  BY <1>2, <1>3 DEF SmartNext

LEMMA EditInvHolds == SmartSpec => []EditInv
BY EditInitInv, EditNextInv, PTL DEF SmartSpec

\* The policy map has a target there is for every category or none, in every
\* job of set_rules, set_policy and their like too, and only who has the lock
\* is at work.
THEOREM SmartTypeCorrect == SmartSpec => []SmartTypeOK
<1>1. EditInv => SmartTypeOK
  <2> SUFFICES ASSUME EditInv PROVE SmartTypeOK
    OBVIOUS
  <2>1. \A p \in Procs : JobTyped(p) /\ (job[p].pc \in InLock <=> lock = p)
    BY DEF EditInv, SmartInv, Holding
  <2> QED
    BY <2>1 DEF SmartTypeOK, EditInv, SmartInv, Holding, CountsOK, JobTyped, Maps, JobPlaces, InLock
<1> QED
  BY <1>1, EditInvHolds, PTL

\* A job moves by its own steps, and what it installs it installs by itself.
LEMMA WhoInstalls ==
  ASSUME JobShape, SmartNext, NEW p \in Procs
  PROVE  /\ job[p].pc = "policy" /\ job'[p].pc = "yaml" => InstallPolicy(p)
         /\ job[p].pc = "rules" /\ job'[p].pc = "policy" => InstallRules(p)
<1>1. PICK q \in Procs : Work(q)
  BY DEF SmartNext
<1>2. PICK j : job' = [job EXCEPT ![q] = j]
  BY <1>1
  DEF Work, Begin, Read, Lock, LockTimesOut, Build, BuildFails, InstallRules, InstallPolicy,
      InstallYaml, InstallFails, Reload, ReloadFails, EditMap, EditRules, Regen, RegenFails,
      EditFails, RegenKeepsOld, Kill, Unlock, Done, Goto
<1>3. CASE q # p
  <2>1. job'[p] = job[p]
    BY <1>2, <1>3 DEF JobShape
  <2> QED
    BY <2>1
<1>4. CASE q = p /\ job[p].pc \in {"rules", "policy"}
  <2>1. InstallRules(p) \/ InstallPolicy(p) \/ Done(p)
    BY <1>1, <1>4
    DEF Work, Begin, Read, Lock, LockTimesOut, Build, BuildFails, InstallYaml, InstallFails,
        Reload, ReloadFails, EditMap, EditRules, Regen, RegenFails, EditFails, RegenKeepsOld,
        Kill, Unlock
  <2>2. Done(p) => job'[p].pc = "idle"
    BY JobEnds
  <2> QED
    BY <1>4, <2>1, <2>2 DEF InstallRules, InstallPolicy
<1> QED
  BY <1>3, <1>4

\* set_rules and import_rules never change the target of a category that the
\* new rules still have: init_policy_map was run on the policies that are in
\* place when its map is installed.
THEOREM ChoicesKept == SmartSpec => PolicyChoiceKept
<1> DEFINE Kept == \A p \in Procs : job[p].pc = "policy" /\ job'[p].pc = "yaml" =>
                     \A c \in Names : policy[c] # None /\ policy'[c] # None => policy'[c] = policy[c]
<1>1. EditInv /\ [SmartNext]_smartVars => [Kept]_smartVars
  <2> SUFFICES ASSUME EditInv, SmartNext, NEW p \in Procs,
                      job[p].pc = "policy", job'[p].pc = "yaml",
                      NEW c \in Names, policy[c] # None, policy'[c] # None
               PROVE  policy'[c] = policy[c]
    BY DEF smartVars
  <2>1. InstallPolicy(p)
    BY WhoInstalls DEF EditInv, SmartInv
  <2>2. policy' = InitPolicyMap(Default \o job[p].cand, policy)
    BY <2>1 DEF InstallPolicy, EditInv, JobSeeded
  <2> QED
    BY <2>2 DEF InitPolicyMap
<1> QED
  BY <1>1, EditInvHolds, PTL DEF SmartSpec, PolicyChoiceKept

\* op_add_rule, op_del_rule and op_set_final of the bot keep every other rule
\* of the rules.conf their text replaces, unless it was changed between their
\* read and their commit: the lock of install.sh does not cover the read.
THEOREM EditsKeepOthers == SmartSpec => EditKeepsOthers
<1> DEFINE Kept == \A p \in Procs : job[p].pc = "rules" /\ job'[p].pc = "policy" /\ ~ moved[p] =>
                     KeepsOthers(job[p].op, rules, rules')
<1>1. EditInv /\ [SmartNext]_smartVars => [Kept]_smartVars
  <2> SUFFICES ASSUME EditInv, SmartNext, NEW p \in Procs,
                      job[p].pc = "rules", job'[p].pc = "policy", ~ moved[p]
               PROVE  KeepsOthers(job[p].op, rules, rules')
    BY DEF smartVars
  <2>1. rules' = job[p].cand
    BY WhoInstalls DEF EditInv, SmartInv, InstallRules, SetRules
  <2>2. CASE job[p].op.kind \in BotOps
    <3>1. /\ rules' = Edited(job[p].op, rules) /\ LinesOK(rules)
          /\ job[p].op.kind = "del" => job[p].op.n \in DOMAIN rules
      BY <2>1, <2>2 DEF EditInv, JobEdits
    <3> QED
      BY <3>1, EditedKeeps
  <2>3. CASE job[p].op.kind \notin BotOps
    BY <2>3 DEF KeepsOthers, BotOps
  <2> QED
    BY <2>2, <2>3
<1> QED
  BY <1>1, EditInvHolds, PTL DEF SmartSpec, EditKeepsOthers
=============================================================================
