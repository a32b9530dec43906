-------------------------- MODULE BotStores_proofs ---------------------------
(***************************************************************************)
(* Three stores that the bot changes from several jobs at once, for any    *)
(* number of jobs: the additional domains, the address of the exit and the *)
(* input chain of nftables. They share no state. Then what an import is    *)
(* worth: the router sends a flow where the imported list would have. At   *)
(* the end the five components of MCBotStores are put together: a          *)
(* behaviour of it is one of each, so what is proved of each holds of it.  *)
(*                                                                         *)
(* ExtrasReachDns speaks of the end. While jobs are under way, the file    *)
(* and dnsdist may differ for one of three reasons: a job has an update to *)
(* come, an update has the file still to load, or it has loaded what the   *)
(* file has now. OnItsWay says that one of them holds or that they do not  *)
(* differ, and every step keeps it.                                        *)
(***************************************************************************)
EXTENDS MCBotStores, SmartRules_proofs, BotDialog_proofs

-----------------------------------------------------------------------------
(* The additional domains.                                                 *)

OnItsWay ==
  \/ \E w \in Updaters : writer[w].pc \in {"write", "update", "load"}
  \/ \E w \in Updaters : writer[w].pc = "install" /\ writer[w].list = extra
  \/ dns = extra /\ \A w \in Updaters : writer[w].pc # "install"

GfwInv == GfwTypeOK /\ (behind \/ OnItsWay)

\* Where a step can leave a job: at rest, or on with its list.
LEMMA GfwPlaces ==
  /\ AtRest \in Places
  /\ \A w \in Updaters : \A pc, list :
       GfwTypeOK /\ pc \in {"idle", "read", "open", "write", "update", "load", "install"}
         /\ list \in SUBSET Domains
       => [writer[w] EXCEPT !.pc = pc, !.list = list] \in Places
  BY DEF GfwTypeOK, Places, AtRest

\* Jobs and updates start idle: op_gfwlist_add and its like have not begun.
LEMMA GfwInitInv == GfwInit => GfwInv
<1> SUFFICES ASSUME GfwInit PROVE GfwInv
  OBVIOUS
<1>1. GfwTypeOK
  <2>1. writer \in [Updaters -> Places]
    BY GfwPlaces DEF GfwInit
  <2>2. \A w \in Updaters : writer[w].pc = "idle" /\ updater # w
    <3>1. \A w \in Updaters : writer[w] = AtRest /\ w # Nobody
      BY GfwAssumption DEF GfwAssumption, GfwInit, Updaters
    <3>2. updater = Nobody /\ AtRest.pc = "idle"
      BY DEF GfwInit, AtRest
    <3> QED
      BY <3>1, <3>2
  <2>3. /\ extra \subseteq Domains /\ dns \subseteq Domains
        /\ updater \in Updaters \cup {Nobody}
        /\ behind \in BOOLEAN
    BY DEF GfwInit
  <2>4. begun \in 0..MaxJobs
    BY GfwAssumption DEF GfwAssumption, GfwInit
  <2> QED
    BY <2>1, <2>2, <2>3, <2>4 DEF GfwTypeOK
<1>2. OnItsWay
  BY DEF GfwInit, OnItsWay, AtRest
<1> QED
  BY <1>1, <1>2 DEF GfwInv

\* A step of one job moves it to a place and leaves the others alone.
LEMMA GfwMoves ==
  ASSUME GfwTypeOK, NEW w \in Updaters, NEW place \in Places,
         writer' = [writer EXCEPT ![w] = place]
  PROVE  /\ writer' \in [Updaters -> Places]
         /\ writer'[w] = place
         /\ \A v \in Updaters \ {w} : writer'[v] = writer[v]
  BY DEF GfwTypeOK

\* Goes and Ends are such steps.
LEMMA GfwGoes ==
  ASSUME GfwTypeOK, NEW w \in Updaters, NEW pc, NEW list \in SUBSET Domains,
         pc \in {"idle", "read", "open", "write", "update", "load", "install"},
         Goes(w, pc, list)
  PROVE  /\ writer' \in [Updaters -> Places]
         /\ writer'[w].pc = pc /\ writer'[w].list = list
         /\ \A v \in Updaters \ {w} : writer'[v] = writer[v]
<1> DEFINE place == [writer[w] EXCEPT !.pc = pc, !.list = list]
<1>1. place \in Places
  BY GfwPlaces
<1>2. writer' = [writer EXCEPT ![w] = place]
  BY DEF Goes, GfwTypeOK, Places
<1>3. place.pc = pc /\ place.list = list
  BY DEF GfwTypeOK, Places
<1> QED
  BY <1>1, <1>2, <1>3, GfwMoves

LEMMA GfwEnds ==
  ASSUME GfwTypeOK, NEW w \in Updaters, Ends(w)
  PROVE  /\ writer' \in [Updaters -> Places]
         /\ writer'[w].pc = "idle"
         /\ \A v \in Updaters \ {w} : writer'[v] = writer[v]
  BY GfwPlaces, GfwMoves DEF Ends, AtRest

\* Every step of a job, an update or the death of the bot keeps GfwInv.
LEMMA GfwNextInv == GfwInv /\ [GfwNext]_gfwVars => GfwInv'
<1> SUFFICES ASSUME GfwInv, [GfwNext]_gfwVars PROVE GfwInv'
  OBVIOUS
<1> USE GfwAssumption DEF GfwAssumption
<1>t. GfwTypeOK
  BY DEF GfwInv
<1>1. ASSUME NEW w \in Writers, NEW ask \in {"add", "del", "import"},
             NEW with \in SUBSET Domains, BeginJob(w, ask, with)
      PROVE  GfwInv'
  <2> DEFINE place == [pc |-> "read", ask |-> ask, with |-> with, list |-> {}]
  <2>1. place \in Places
    BY DEF Places
  <2>2. /\ writer' \in [Updaters -> Places] /\ writer'[w].pc = "read"
        /\ \A v \in Updaters \ {w} : writer'[v] = writer[v]
    BY <1>1, <1>t, <2>1, GfwMoves DEF BeginJob, Updaters
  <2>3. GfwTypeOK'
    BY <1>1, <1>t, <2>2 DEF BeginJob, GfwTypeOK, Updaters
  <2>4. (behind \/ OnItsWay)'
    BY <1>1, <2>2 DEF BeginJob, GfwInv, OnItsWay, Updaters
  <2> QED
    BY <2>3, <2>4 DEF GfwInv
<1>2. ASSUME BeginNightly
      PROVE  GfwInv'
  <2>1. /\ writer' \in [Updaters -> Places] /\ writer'[Timer].pc = "update"
        /\ \A v \in Updaters \ {Timer} : writer'[v] = writer[v]
    <3>1. Timer \in Updaters /\ {} \in SUBSET Domains
      BY DEF Updaters
    <3>2. Goes(Timer, "update", {})
      BY <1>2 DEF BeginNightly
    <3> QED
      BY <1>t, <3>1, <3>2, GfwGoes
  <2>2. GfwTypeOK'
    BY <1>2, <1>t, <2>1 DEF BeginNightly, GfwTypeOK, Updaters
  <2>3. OnItsWay'
    BY <2>1 DEF OnItsWay, Updaters
  <2> QED
    BY <2>2, <2>3 DEF GfwInv
<1>3. ASSUME NEW w \in Writers, ReadExtra(w)
      PROVE  GfwInv'
  <2>1. /\ writer' \in [Updaters -> Places] /\ writer'[w].pc \in {"idle", "open"}
        /\ \A v \in Updaters \ {w} : writer'[v] = writer[v]
    <3> DEFINE own == writer[w]
               new == IF own.ask = "del" THEN extra \ own.with ELSE extra \cup own.with
    <3>1. new \in SUBSET Domains
      BY <1>t DEF GfwTypeOK, Updaters, Places
    <3>2. CASE new = extra
      BY <1>3, <1>t, <3>2, GfwEnds DEF ReadExtra, Updaters
    <3>3. CASE new # extra
      BY <1>3, <1>t, <3>1, <3>3, GfwGoes DEF ReadExtra, Updaters
    <3> QED
      BY <3>2, <3>3
  <2>2. GfwTypeOK'
    BY <1>3, <1>t, <2>1 DEF ReadExtra, GfwTypeOK, Updaters
  <2>3. (behind \/ OnItsWay)'
    BY <1>3, <2>1 DEF ReadExtra, GfwInv, OnItsWay, Updaters
  <2> QED
    BY <2>2, <2>3 DEF GfwInv
<1>4. ASSUME NEW w \in Writers, OpenExtra(w)
      PROVE  GfwInv'
  <2>1. /\ writer' \in [Updaters -> Places] /\ writer'[w].pc = "write"
        /\ \A v \in Updaters \ {w} : writer'[v] = writer[v]
    <3>1. writer[w].list \in SUBSET Domains
      BY <1>t DEF GfwTypeOK, Updaters, Places
    <3> QED
      BY <1>4, <1>t, <3>1, GfwGoes DEF OpenExtra, Updaters
  <2>2. GfwTypeOK'
    BY <1>4, <1>t, <2>1 DEF OpenExtra, GfwTypeOK, Updaters
  <2>3. OnItsWay'
    BY <2>1 DEF OnItsWay, Updaters
  <2> QED
    BY <2>2, <2>3 DEF GfwInv
<1>5. ASSUME NEW w \in Writers, WriteExtra(w) \/ WriteFails(w)
      PROVE  GfwInv'
  <2>1. /\ writer' \in [Updaters -> Places] /\ writer'[w].pc = "update"
        /\ \A v \in Updaters \ {w} : writer'[v] = writer[v]
    <3>1. w \in Updaters /\ {} \in SUBSET Domains
      BY DEF Updaters
    <3>2. Goes(w, "update", {})
      BY <1>5 DEF WriteExtra, WriteFails
    <3> QED
      BY <1>t, <3>1, <3>2, GfwGoes
  <2>2. extra' \subseteq Domains
    BY <1>5, <1>t DEF WriteExtra, WriteFails, GfwTypeOK, Updaters, Places
  <2>3. GfwTypeOK'
    BY <1>5, <1>t, <2>1, <2>2 DEF WriteExtra, WriteFails, GfwTypeOK, Updaters
  <2>4. OnItsWay'
    BY <2>1 DEF OnItsWay, Updaters
  <2> QED
    BY <2>3, <2>4 DEF GfwInv
<1>6. ASSUME NEW w \in Updaters, BeginUpdate(w)
      PROVE  GfwInv'
  <2>1. /\ writer' \in [Updaters -> Places] /\ writer'[w].pc = "load"
        /\ \A v \in Updaters \ {w} : writer'[v] = writer[v]
    BY <1>6, <1>t, GfwGoes DEF BeginUpdate
  <2>2. GfwTypeOK'
    BY <1>6, <1>t, <2>1 DEF BeginUpdate, GfwTypeOK, Updaters
  <2>3. OnItsWay'
    BY <2>1 DEF OnItsWay
  <2> QED
    BY <2>2, <2>3 DEF GfwInv
<1>7. ASSUME NEW w \in Updaters, UpdateRefused(w) \/ UpdateFails(w)
      PROVE  GfwInv'
  <2>1. /\ writer' \in [Updaters -> Places] /\ writer'[w].pc = "idle"
        /\ \A v \in Updaters \ {w} : writer'[v] = writer[v]
    BY <1>7, <1>t, GfwEnds DEF UpdateRefused, UpdateFails
  <2>2. GfwTypeOK'
    BY <1>7, <1>t, <2>1 DEF UpdateRefused, UpdateFails, GfwTypeOK, Updaters
  <2> QED
    BY <1>7, <2>2 DEF GfwInv, UpdateRefused, UpdateFails
<1>8. ASSUME NEW w \in Updaters, LoadExtra(w)
      PROVE  GfwInv'
  <2>1. /\ writer' \in [Updaters -> Places]
        /\ writer'[w].pc = "install" /\ writer'[w].list = extra
        /\ \A v \in Updaters \ {w} : writer'[v] = writer[v]
    BY <1>8, <1>t, GfwGoes DEF LoadExtra, GfwTypeOK
  <2>2. GfwTypeOK'
    BY <1>8, <1>t, <2>1 DEF LoadExtra, GfwTypeOK
  <2>3. OnItsWay'
    BY <1>8, <2>1 DEF LoadExtra, OnItsWay
  <2> QED
    BY <2>2, <2>3 DEF GfwInv
<1>9. ASSUME NEW w \in Updaters, InstallDns(w)
      PROVE  GfwInv'
  <2>1. /\ writer' \in [Updaters -> Places] /\ writer'[w].pc = "idle"
        /\ \A v \in Updaters \ {w} : writer'[v] = writer[v]
    BY <1>9, <1>t, GfwEnds DEF InstallDns
  <2>2. writer[w].list \in SUBSET Domains
    BY <1>t DEF GfwTypeOK, Places
  <2>3. GfwTypeOK'
    BY <1>9, <1>t, <2>1, <2>2 DEF InstallDns, GfwTypeOK, Updaters
  <2>4. \A v \in Updaters \ {w} : writer[v].pc # "install"
    BY <1>9, <1>t DEF InstallDns, GfwTypeOK
  <2>5. (behind \/ OnItsWay)'
    BY <1>9, <2>1, <2>4 DEF InstallDns, GfwInv, OnItsWay
  <2> QED
    BY <2>3, <2>5 DEF GfwInv
<1>10. ASSUME BotDies
       PROVE  GfwInv'
  <2>1. writer' \in [Updaters -> Places]
    BY <1>10, <1>t, GfwPlaces DEF BotDies, GfwTypeOK
  <2>2. \A w \in Updaters : writer'[w].pc \in {"load", "install"} <=> updater' = w
    BY <1>10, <1>t DEF BotDies, GfwTypeOK, AtRest, Updaters
  <2>3. updater' \in Updaters \cup {Nobody}
    BY <1>10, <1>t DEF BotDies, GfwTypeOK
  <2>4. GfwTypeOK'
    BY <1>10, <1>t, <2>1, <2>2, <2>3 DEF BotDies, GfwTypeOK
  <2> QED
    BY <1>10, <2>4 DEF GfwInv, BotDies
<1>11. CASE UNCHANGED gfwVars
  BY <1>11 DEF gfwVars, GfwInv, GfwTypeOK, OnItsWay
<1> QED
  BY <1>1, <1>2, <1>3, <1>4, <1>5, <1>6, <1>7, <1>8, <1>9, <1>10, <1>11 DEF GfwNext

\* The parts of GfwTypeOK hold always: the update that has LOCK_FILE of
\* update-rules.sh is the one that loads or installs.
THEOREM GfwTypeCorrect == GfwSpec => []GfwTypeOK
<1>1. GfwInv => GfwTypeOK
  BY DEF GfwInv
<1> QED
  BY <1>1, GfwInitInv, GfwNextInv, PTL DEF GfwSpec

\* What the jobs of the bot wrote to gfwlist-extra-local.txt is what dnsdist
\* has when all have ended and no update failed since.
THEOREM ExtrasDoReachDns == GfwSpec => []ExtrasReachDns
<1>1. GfwInv => ExtrasReachDns
  BY DEF GfwInv, OnItsWay, ExtrasReachDns
<1> QED
  BY <1>1, GfwInitInv, GfwNextInv, PTL DEF GfwSpec

-----------------------------------------------------------------------------
(* The address of the exit.                                                *)

\* What a lookup has found is what traffic leaves by, unless the exit changed
\* after the answer: StoreIp writes it to the cache without looking again.
FoundInUse ==
  \A w \in Lookers : looker[w].pc = "store" /\ w \notin crossed => looker[w].exit \in {NoIp, inUse}

ExitIpInv == ExitIpTypeOK /\ ShowsExitInUse /\ FoundInUse

LookerPlaces == {"idle", "ask", "fetch", "store", "switch", "forget"}

LEMMA ExitIpInitInv == ExitIpInit => ExitIpInv
<1> SUFFICES ASSUME ExitIpInit PROVE ExitIpInv
  OBVIOUS
<1>1. ExitIpTypeOK
  BY ExitIpAssumption DEF ExitIpAssumption, ExitIpInit, ExitIpTypeOK, Asleep
<1> QED
  BY <1>1 DEF ExitIpInit, ExitIpInv, ShowsExitInUse, FoundInUse, Asleep

\* A job that goes to another place leaves the others where they are.
LEMMA LookerMoves ==
  ASSUME ExitIpTypeOK, NEW w \in Lookers, NEW pc \in LookerPlaces, NEW exit \in Ways \cup {NoIp},
         looker' = [looker EXCEPT ![w] = [pc |-> pc, exit |-> exit]]
  PROVE  /\ looker' \in [Lookers -> [pc : LookerPlaces, exit : Ways \cup {NoIp}]]
         /\ looker'[w].pc = pc /\ looker'[w].exit = exit
         /\ \A v \in Lookers \ {w} : looker'[v] = looker[v]
BY DEF ExitIpTypeOK, LookerPlaces

\* A change of the exit makes the lookups that have been answered crossed.
LEMMA ChangeCrosses ==
  ASSUME ExitIpInv, NEW w \in Lookers, NEW way \in Ways, Changes(way), looker[w].pc = "switch",
         looker'[w].pc \in {"idle", "forget"},
         \A v \in Lookers \ {w} : looker'[v] = looker[v]
  PROVE  /\ inUse' \in Ways /\ crossed' \subseteq {v \in Lookers : looker'[v].pc = "store"}
         /\ FoundInUse'
<1>1. inUse' = way /\ crossed' = IF way = inUse THEN crossed ELSE {v \in Lookers : looker[v].pc = "store"}
  BY DEF Changes
<1>2. \A v \in Lookers : looker[v].pc = "store" => v # w
  OBVIOUS
<1>3. \A v \in Lookers : looker'[v].pc = "store" => v # w
  OBVIOUS
<1> QED
  BY <1>1, <1>2, <1>3 DEF ExitIpInv, ExitIpTypeOK, FoundInUse

LEMMA ExitIpNextInv == ExitIpInv /\ [ExitIpNext]_exitIpVars => ExitIpInv'
<1> SUFFICES ASSUME ExitIpInv, [ExitIpNext]_exitIpVars PROVE ExitIpInv'
  OBVIOUS
<1> USE ExitIpAssumption DEF ExitIpAssumption
<1>t. ExitIpTypeOK /\ ShowsExitInUse /\ FoundInUse
  BY DEF ExitIpInv
<1>n. NoIp \in Ways \cup {NoIp} /\ {"idle", "ask", "fetch", "store", "switch", "forget"} = LookerPlaces
  BY DEF LookerPlaces
<1>1. ASSUME NEW w \in Lookers, looker[w].pc \in {"idle", "ask"},
             NEW pc \in {"idle", "ask", "fetch", "switch"}, NEW exit \in Ways \cup {NoIp},
             pc = "switch" => exit \in Ways,
             looker' = [looker EXCEPT ![w] = [pc |-> pc, exit |-> exit]],
             UNCHANGED <<inUse, cachedIp, fresh, crossed, excused>>
      PROVE  ExitIpInv'
  <2>1. /\ looker' \in [Lookers -> [pc : LookerPlaces, exit : Ways \cup {NoIp}]]
        /\ looker'[w].pc = pc /\ looker'[w].exit = exit
        /\ \A v \in Lookers \ {w} : looker'[v] = looker[v]
    BY <1>1, <1>t, <1>n, LookerMoves
  <2>2. ExitIpTypeOK'
    BY <1>1, <1>t, <1>n, <2>1 DEF ExitIpTypeOK
  <2>3. ShowsExitInUse'
    BY <1>1, <1>t, <2>1 DEF ShowsExitInUse
  <2>4. FoundInUse'
    BY <1>1, <1>t, <2>1 DEF FoundInUse
  <2> QED
    BY <2>2, <2>3, <2>4 DEF ExitIpInv
<1>2. ASSUME NEW w \in Lookers, BeginShow(w) \/ AskCache(w)
      PROVE  ExitIpInv'
  BY <1>1, <1>2, <1>n DEF BeginShow, AskCache, LookerGoes, Asleep
<1>3. ASSUME NEW w \in Lookers, NEW way \in Ways, BeginSwitch(w, way)
      PROVE  ExitIpInv'
  BY <1>1, <1>3 DEF BeginSwitch, LookerGoes
<1>4. ASSUME NEW w \in Lookers, Fetch(w)
      PROVE  ExitIpInv'
  <2>1. PICK ip \in {inUse, NoIp} : looker' = [looker EXCEPT ![w] = [pc |-> "store", exit |-> ip]]
    BY <1>4 DEF Fetch, LookerGoes
  <2>2. looker[w].pc = "fetch" /\ UNCHANGED <<inUse, cachedIp, fresh, crossed, excused>>
    BY <1>4 DEF Fetch
  <2>3. ip \in Ways \cup {NoIp}
    BY <1>t DEF ExitIpTypeOK
  <2>4. /\ looker' \in [Lookers -> [pc : LookerPlaces, exit : Ways \cup {NoIp}]]
        /\ looker'[w].pc = "store" /\ looker'[w].exit = ip
        /\ \A v \in Lookers \ {w} : looker'[v] = looker[v]
    BY <1>t, <1>n, <2>1, <2>3, LookerMoves
  <2>5. ExitIpTypeOK'
    BY <1>t, <1>n, <2>2, <2>4 DEF ExitIpTypeOK
  <2>6. ShowsExitInUse'
    BY <1>t, <2>2, <2>4 DEF ShowsExitInUse
  <2>7. FoundInUse'
    BY <1>t, <2>2, <2>4 DEF FoundInUse
  <2> QED
    BY <2>5, <2>6, <2>7 DEF ExitIpInv
<1>5. ASSUME NEW w \in Lookers, StoreIp(w)
      PROVE  ExitIpInv'
  <2>1. /\ looker[w].pc = "store" /\ cachedIp' = looker[w].exit /\ fresh' = TRUE
        /\ excused' = (w \in crossed) /\ crossed' = crossed \ {w} /\ inUse' = inUse
        /\ looker' = [looker EXCEPT ![w] = [pc |-> "idle", exit |-> NoIp]]
    BY <1>5 DEF StoreIp, Asleep
  <2>2. /\ looker' \in [Lookers -> [pc : LookerPlaces, exit : Ways \cup {NoIp}]]
        /\ looker'[w].pc = "idle"
        /\ \A v \in Lookers \ {w} : looker'[v] = looker[v]
    BY <1>t, <1>n, <2>1, LookerMoves
  <2>3. ExitIpTypeOK'
    BY <1>t, <1>n, <2>1, <2>2 DEF ExitIpTypeOK
  <2>4. w \notin crossed => cachedIp' \in {NoIp, inUse}
    BY <1>t, <2>1 DEF FoundInUse
  <2>5. ShowsExitInUse'
    BY <2>1, <2>4 DEF ShowsExitInUse
  <2>6. FoundInUse'
    BY <1>t, <2>1, <2>2 DEF FoundInUse
  <2> QED
    BY <2>3, <2>5, <2>6 DEF ExitIpInv
<1>6. ASSUME NEW w \in Lookers, Switched(w)
      PROVE  ExitIpInv'
  <2> DEFINE way == looker[w].exit
  <2>1. /\ looker[w].pc = "switch" /\ Changes(way) /\ UNCHANGED <<cachedIp, fresh, excused>>
        /\ looker' = [looker EXCEPT ![w] = [pc |-> "forget", exit |-> way]]
    BY <1>6 DEF Switched, LookerGoes
  <2>2. way \in Ways \cup {NoIp}
    BY <1>t DEF ExitIpTypeOK
  <2>3. /\ looker' \in [Lookers -> [pc : LookerPlaces, exit : Ways \cup {NoIp}]]
        /\ looker'[w].pc = "forget"
        /\ \A v \in Lookers \ {w} : looker'[v] = looker[v]
    BY <1>t, <1>n, <2>1, <2>2, LookerMoves
  <2>4. way \in Ways
    BY <1>t, <2>1, <2>2 DEF ExitIpTypeOK
  <2>5. /\ inUse' \in Ways /\ crossed' \subseteq {v \in Lookers : looker'[v].pc = "store"}
        /\ FoundInUse'
    BY <2>1, <2>3, <2>4, ChangeCrosses
  <2>6. ExitIpTypeOK'
    BY <1>t, <1>n, <2>1, <2>3, <2>5 DEF ExitIpTypeOK
  <2>7. ShowsExitInUse'
    BY <2>3 DEF ShowsExitInUse
  <2> QED
    BY <2>5, <2>6, <2>7 DEF ExitIpInv
<1>7. ASSUME NEW w \in Lookers, SwitchFails(w)
      PROVE  ExitIpInv'
  <2>1. /\ looker[w].pc = "switch" /\ UNCHANGED <<cachedIp, fresh>>
        /\ looker' = [looker EXCEPT ![w] = [pc |-> "idle", exit |-> NoIp]]
    BY <1>7 DEF SwitchFails, Asleep
  <2>2. /\ looker' \in [Lookers -> [pc : LookerPlaces, exit : Ways \cup {NoIp}]]
        /\ looker'[w].pc = "idle"
        /\ \A v \in Lookers \ {w} : looker'[v] = looker[v]
    BY <1>t, <1>n, <2>1, LookerMoves
  <2>3. CASE UNCHANGED <<inUse, crossed, excused>>
    <3>1. ExitIpTypeOK'
      BY <1>t, <1>n, <2>1, <2>2, <2>3 DEF ExitIpTypeOK
    <3>2. ShowsExitInUse' /\ FoundInUse'
      BY <1>t, <2>1, <2>2, <2>3 DEF ShowsExitInUse, FoundInUse
    <3> QED
      BY <3>1, <3>2 DEF ExitIpInv
  <2>4. CASE Changes(looker[w].exit) /\ excused' = (excused \/ inUse' # inUse)
    <3>1. looker[w].exit \in Ways
      BY <1>t, <2>1 DEF ExitIpTypeOK
    <3>2. /\ inUse' \in Ways /\ crossed' \subseteq {v \in Lookers : looker'[v].pc = "store"}
          /\ FoundInUse'
      BY <2>1, <2>2, <2>4, <3>1, ChangeCrosses
    <3>3. ExitIpTypeOK'
      BY <1>t, <1>n, <2>1, <2>2, <2>4, <3>2 DEF ExitIpTypeOK
    <3>4. ShowsExitInUse'
      BY <1>t, <2>1, <2>2, <2>4 DEF ShowsExitInUse
    <3> QED
      BY <3>2, <3>3, <3>4 DEF ExitIpInv
  <2> QED
    BY <1>7, <2>3, <2>4 DEF SwitchFails
<1>8. ASSUME NEW w \in Lookers, Invalidate(w)
      PROVE  ExitIpInv'
  <2>1. PICK pc \in {"idle", "ask"} : looker' = [looker EXCEPT ![w] = [pc |-> pc, exit |-> NoIp]]
    BY <1>8 DEF Invalidate, Asleep
  <2>2. /\ looker' \in [Lookers -> [pc : LookerPlaces, exit : Ways \cup {NoIp}]]
        /\ looker'[w].pc = pc
        /\ \A v \in Lookers \ {w} : looker'[v] = looker[v]
    BY <1>t, <1>n, <2>1, LookerMoves
  <2>3. /\ looker[w].pc = "forget" /\ cachedIp' = NoIp /\ fresh' = FALSE /\ excused' = FALSE
        /\ UNCHANGED <<inUse, crossed>>
    BY <1>8 DEF Invalidate
  <2>4. ExitIpTypeOK'
    BY <1>t, <1>n, <2>2, <2>3 DEF ExitIpTypeOK
  <2> QED
    BY <1>t, <2>2, <2>3, <2>4 DEF ExitIpInv, ShowsExitInUse, FoundInUse
<1>9. ASSUME NEW way \in Ways, ExitElsewhere(way)
      PROVE  ExitIpInv'
  BY <1>9, <1>t DEF ExitElsewhere, Changes, ExitIpInv, ExitIpTypeOK, ShowsExitInUse, FoundInUse
<1>10. CASE FiveMinutes
  BY <1>10, <1>t DEF FiveMinutes, ExitIpInv, ExitIpTypeOK, ShowsExitInUse, FoundInUse
<1>11. CASE BotRestarts
  <2>1. looker' \in [Lookers -> [pc : LookerPlaces, exit : Ways \cup {NoIp}]]
        /\ \A w \in Lookers : looker'[w].pc = "idle"
    BY <1>11, <1>n DEF BotRestarts, Asleep
  <2> QED
    BY <1>11, <1>t, <1>n, <2>1 DEF BotRestarts, ExitIpInv, ExitIpTypeOK, ShowsExitInUse, FoundInUse
<1>12. CASE UNCHANGED exitIpVars
  BY <1>12, <1>t DEF exitIpVars, ExitIpInv, ExitIpTypeOK, ShowsExitInUse, FoundInUse
<1> QED
  BY <1>2, <1>3, <1>4, <1>5, <1>6, <1>7, <1>8, <1>9, <1>10, <1>11, <1>12 DEF ExitIpNext

LEMMA ExitIpInvariance == ExitIpSpec => []ExitIpInv
BY ExitIpInitInv, ExitIpNextInv, PTL DEF ExitIpSpec

\* Every variable keeps its type: a job switches to an exit there is, and only
\* a lookup that has been answered can be from before a change.
THEOREM ExitIpTypeCorrect == ExitIpSpec => []ExitIpTypeOK
<1>1. ExitIpInv => ExitIpTypeOK
  BY DEF ExitIpInv
<1> QED
  BY <1>1, ExitIpInvariance, PTL

\* The bot shows the address of the exit in use, up to the three exceptions
\* that ShowsExitInUse names, however many lookups, switches and restarts of
\* tgbot.py overlap.
THEOREM ShowsTheExitInUse == ExitIpSpec => []ShowsExitInUse
<1>1. ExitIpInv => ShowsExitInUse
  BY DEF ExitIpInv
<1> QED
  BY <1>1, ExitIpInvariance, PTL

-----------------------------------------------------------------------------
(* The firewall.                                                           *)

\* The rules that op_firewall_add_port makes are listed in either way, and
\* have one port.
BotRules == \A i \in DOMAIN chain : chain[i].bot => chain[i].plain /\ \E p : chain[i].ports = {p}

\* The port about to be opened is one, and has no rule of the bot: it was
\* looked for, and nobody else adds such rules.
AddingNew ==
  adding # NotAdding =>
    /\ adding.port # NoPort
    /\ \A i \in DOMAIN chain : chain[i].bot => adding.port \notin chain[i].ports

\* The handle a job has found is still that of a rule with the port pressed,
\* or of none.
HandleOfPort ==
  \A c \in Closers : closer[c].handle # 0 /\ c \notin aside =>
    /\ closer[c].handle <= handles
    /\ \A i \in DOMAIN chain : chain[i].handle = closer[c].handle => closer[c].port \in chain[i].ports

FirewallInv == FirewallTypeOK /\ AddedOnce /\ BotRules /\ AddingNew /\ HandleOfPort

\* How a chain can change: t has the rules of s, or some of them, each at one
\* place, and r besides, once at most.
Extends(t, s, r) ==
  \E f \in [1..Len(t) -> 0..Len(s)] :
    /\ \A j, k \in 1..Len(t) : f[j] = f[k] => j = k
    /\ \A k \in 1..Len(t) : t[k] = IF f[k] = 0 THEN r ELSE s[f[k]]

Shrinks(t, s) ==
  \E f \in [1..Len(t) -> 1..Len(s)] :
    /\ \A j, k \in 1..Len(t) : f[j] = f[k] => j = k
    /\ \A k \in 1..Len(t) : t[k] = s[f[k]]

\* nft add
LEMMA AppendExtends ==
  ASSUME NEW S, NEW s \in Seq(S), NEW r \in S
  PROVE  Append(s, r) \in Seq(S) /\ Extends(Append(s, r), s, r)
<1> DEFINE t == Append(s, r)
           f == [k \in 1..Len(t) |-> IF k = Len(s) + 1 THEN 0 ELSE k]
<1>1. /\ t \in Seq(S) /\ Len(s) \in Nat /\ Len(t) = Len(s) + 1
      /\ \A k \in 1..Len(s) : t[k] = s[k]
      /\ t[Len(s) + 1] = r
  BY AppendProperties, LenProperties
<1>2. f \in [1..Len(t) -> 0..Len(s)]
  BY <1>1
<1>3. \A j, k \in 1..Len(t) : f[j] = f[k] => j = k
  BY <1>1
<1>4. \A k \in 1..Len(t) : t[k] = IF f[k] = 0 THEN r ELSE s[f[k]]
  BY <1>1
<1> HIDE DEF f, t
<1> QED
  BY <1>1, <1>2, <1>3, <1>4 DEF Extends, t

\* nft insert
LEMMA PrependExtends ==
  ASSUME NEW S, NEW s \in Seq(S), NEW r \in S
  PROVE  <<r>> \o s \in Seq(S) /\ Extends(<<r>> \o s, s, r)
<1> DEFINE t == <<r>> \o s
           f == [k \in 1..Len(t) |-> k - 1]
<1>1. /\ t \in Seq(S) /\ Len(s) \in Nat /\ Len(t) = Len(s) + 1
      /\ \A k \in 1..Len(t) : t[k] = IF k = 1 THEN r ELSE s[k - 1]
  <2>1. <<r>> \in Seq(S) /\ Len(<<r>>) = 1 /\ <<r>>[1] = r
    OBVIOUS
  <2>2. /\ t \in Seq(S) /\ Len(t) = 1 + Len(s)
        /\ \A k \in 1..1 + Len(s) : t[k] = IF k <= 1 THEN <<r>>[k] ELSE s[k - 1]
    BY <2>1, ConcatProperties
  <2>3. Len(s) \in Nat
    BY LenProperties
  <2> HIDE DEF t
  <2> QED
    BY <2>1, <2>2, <2>3
<1> HIDE DEF t
<1>2. f \in [1..Len(t) -> 0..Len(s)]
  BY <1>1
<1>3. \A j, k \in 1..Len(t) : f[j] = f[k] => j = k
  BY <1>1
<1>4. \A k \in 1..Len(t) : t[k] = IF f[k] = 0 THEN r ELSE s[f[k]]
  BY <1>1
<1> HIDE DEF f
<1> QED
  BY <1>1, <1>2, <1>3, <1>4 DEF Extends, t

\* nft delete: the rules behind the one that goes move up by one.
LEMMA RemoveMoves ==
  ASSUME NEW S, NEW s \in Seq(S), NEW i \in DOMAIN s
  PROVE  /\ RemoveAt(s, i) \in Seq(S) /\ Len(RemoveAt(s, i)) = Len(s) - 1
         /\ \A k \in 1..Len(s) - 1 : RemoveAt(s, i)[k] = IF k < i THEN s[k] ELSE s[k + 1]
<1> DEFINE t == RemoveAt(s, i)
<1>1. Len(s) \in Nat /\ i \in 1..Len(s)
  BY LenProperties
<1>2. /\ SubSeq(s, 1, i - 1) \in Seq(S) /\ Len(SubSeq(s, 1, i - 1)) = i - 1
      /\ \A k \in 1..i - 1 : SubSeq(s, 1, i - 1)[k] = s[k]
  BY <1>1
<1>3. /\ SubSeq(s, i + 1, Len(s)) \in Seq(S) /\ Len(SubSeq(s, i + 1, Len(s))) = Len(s) - i
      /\ \A k \in 1..Len(s) - i : SubSeq(s, i + 1, Len(s))[k] = s[i + k]
  BY <1>1
<1>4. /\ t \in Seq(S) /\ Len(t) = Len(s) - 1
      /\ \A k \in 1..Len(s) - 1 : t[k] = IF k < i THEN s[k] ELSE s[k + 1]
  <2> DEFINE a == SubSeq(s, 1, i - 1)
             b == SubSeq(s, i + 1, Len(s))
  <2>1. t = a \o b
    BY DEF RemoveAt
  <2> HIDE DEF a, b, t
  <2>2. /\ a \in Seq(S) /\ Len(a) = i - 1 /\ \A k \in 1..i - 1 : a[k] = s[k]
        /\ b \in Seq(S) /\ Len(b) = Len(s) - i /\ \A k \in 1..Len(s) - i : b[k] = s[i + k]
    BY <1>2, <1>3 DEF a, b
  <2>3. /\ t \in Seq(S) /\ Len(t) = Len(a) + Len(b)
        /\ \A k \in 1..Len(a) + Len(b) : t[k] = IF k <= Len(a) THEN a[k] ELSE b[k - Len(a)]
    BY <2>1, <2>2, ConcatProperties
  <2>4. Len(t) = Len(s) - 1
    BY <1>1, <2>2, <2>3
  <2>5. ASSUME NEW k \in 1..Len(s) - 1 PROVE t[k] = IF k < i THEN s[k] ELSE s[k + 1]
    <3>1. t[k] = IF k <= i - 1 THEN a[k] ELSE b[k - (i - 1)]
      <4>1. k \in 1..Len(a) + Len(b) /\ Len(a) = i - 1
        BY <1>1, <2>2
      <4> QED
        BY <2>3, <4>1
    <3>2. CASE k < i
      <4>1. k \in 1..i - 1 /\ k <= i - 1
        BY <1>1, <3>2
      <4> QED
        BY <2>2, <3>1, <3>2, <4>1
    <3>3. CASE ~ (k < i)
      <4>1. k - (i - 1) \in 1..Len(s) - i /\ i + (k - (i - 1)) = k + 1 /\ ~ (k <= i - 1)
        BY <1>1, <3>3
      <4>2. b[k - (i - 1)] = s[i + (k - (i - 1))]
        BY <2>2, <4>1
      <4> QED
        BY <3>1, <3>3, <4>1, <4>2
    <3> QED
      BY <3>2, <3>3
  <2> QED
    BY <2>3, <2>4, <2>5
<1> QED
  BY <1>4

\* So what is left are rules of s, each at one place, and all but the one.
LEMMA RemoveShrinks ==
  ASSUME NEW S, NEW s \in Seq(S), NEW i \in DOMAIN s
  PROVE  /\ RemoveAt(s, i) \in Seq(S) /\ Shrinks(RemoveAt(s, i), s)
         /\ \A j \in DOMAIN s \ {i} : \E k \in DOMAIN RemoveAt(s, i) : RemoveAt(s, i)[k] = s[j]
<1> DEFINE t == RemoveAt(s, i)
           f == [k \in 1..Len(t) |-> IF k < i THEN k ELSE k + 1]
<1>1. Len(s) \in Nat /\ i \in 1..Len(s) /\ DOMAIN s = 1..Len(s)
  BY LenProperties
<1>2. /\ t \in Seq(S) /\ Len(t) = Len(s) - 1 /\ DOMAIN t = 1..Len(t)
      /\ \A k \in 1..Len(s) - 1 : t[k] = IF k < i THEN s[k] ELSE s[k + 1]
  BY RemoveMoves, LenProperties
<1> HIDE DEF t
<1>3. f \in [1..Len(t) -> 1..Len(s)]
  BY <1>1, <1>2
<1>4. \A j, k \in 1..Len(t) : f[j] = f[k] => j = k
  BY <1>1, <1>2
<1>5. \A k \in 1..Len(t) : t[k] = s[f[k]]
  BY <1>1, <1>2
<1> HIDE DEF f
<1>6. ASSUME NEW j \in DOMAIN s \ {i} PROVE \E k \in DOMAIN t : t[k] = s[j]
  <2>1. CASE j < i
    BY <1>1, <1>2, <2>1
  <2>2. CASE ~ (j < i)
    <3>1. j - 1 \in 1..Len(s) - 1 /\ ~ (j - 1 < i) /\ (j - 1) + 1 = j
      BY <1>1, <2>2
    <3>2. t[j - 1] = s[j]
      BY <1>2, <3>1
    <3> QED
      BY <1>2, <3>1, <3>2
  <2> QED
    BY <2>1, <2>2
<1> QED
  BY <1>2, <1>3, <1>4, <1>5, <1>6 DEF Shrinks, t

\* Where the rules of a chain come from: the chain before, or new.
Comes(t, s, new) == \A k \in DOMAIN t : t[k] \in new \/ \E j \in DOMAIN s : t[k] = s[j]

Numbered(t, last) ==
  /\ \A i \in DOMAIN t : t[i].handle <= last
  /\ \A i, j \in DOMAIN t : t[i].handle = t[j].handle => i = j

LEMMA ExtendsNumbered ==
  ASSUME NEW s \in Seq(Rules), NEW t \in Seq(Rules), NEW r \in Rules, NEW n \in Nat,
         Numbered(s, n), r.handle = n + 1, Extends(t, s, r)
  PROVE  Comes(t, s, {r}) /\ Numbered(t, n + 1)
<1>1. /\ Len(s) \in Nat /\ DOMAIN s = 1..Len(s)
      /\ Len(t) \in Nat /\ DOMAIN t = 1..Len(t)
  BY LenProperties
<1>2. \A j \in DOMAIN s : s[j] \in Rules
  BY ElementOfSeq, <1>1
<1>3. PICK f \in [1..Len(t) -> 0..Len(s)] :
        /\ \A j, k \in 1..Len(t) : f[j] = f[k] => j = k
        /\ \A k \in 1..Len(t) : t[k] = IF f[k] = 0 THEN r ELSE s[f[k]]
  BY DEF Extends
<1>4. \A k \in DOMAIN t : f[k] # 0 => f[k] \in DOMAIN s
  BY <1>1, <1>3
<1>5. Comes(t, s, {r})
  BY <1>1, <1>3, <1>4 DEF Comes
<1>6. \A j \in DOMAIN s : s[j].handle \in Nat /\ s[j].handle <= n
  BY <1>2 DEF Rules, Numbered
<1>7. \A i \in DOMAIN t : t[i].handle <= n + 1
  BY <1>1, <1>3, <1>4, <1>6
<1>8. ASSUME NEW i \in DOMAIN t, NEW j \in DOMAIN t, t[i].handle = t[j].handle
      PROVE  i = j
  <2>1. CASE f[i] = 0 /\ f[j] = 0
    BY <1>1, <1>3, <2>1
  <2>2. CASE f[i] # 0 /\ f[j] # 0
    <3>1. t[i] = s[f[i]] /\ t[j] = s[f[j]]
      BY <1>1, <1>3, <2>2
    <3>2. f[i] = f[j]
      BY <1>4, <1>8, <2>2, <3>1 DEF Numbered
    <3> QED
      BY <1>1, <1>3, <3>2
  <2>3. CASE f[i] = 0 /\ f[j] # 0
    BY <1>1, <1>3, <1>4, <1>6, <1>8, <2>3
  <2>4. CASE f[i] # 0 /\ f[j] = 0
    BY <1>1, <1>3, <1>4, <1>6, <1>8, <2>4
  <2> QED
    BY <2>1, <2>2, <2>3, <2>4
<1> QED
  BY <1>5, <1>7, <1>8 DEF Numbered

LEMMA ShrinksNumbered ==
  ASSUME NEW s \in Seq(Rules), NEW t \in Seq(Rules), NEW n \in Nat,
         Numbered(s, n), Shrinks(t, s)
  PROVE  Comes(t, s, {}) /\ Numbered(t, n)
<1>1. DOMAIN s = 1..Len(s) /\ DOMAIN t = 1..Len(t)
  BY LenProperties
<1>2. PICK f \in [1..Len(t) -> 1..Len(s)] :
        /\ \A j, k \in 1..Len(t) : f[j] = f[k] => j = k
        /\ \A k \in 1..Len(t) : t[k] = s[f[k]]
  BY DEF Shrinks
<1> QED
  BY <1>1, <1>2 DEF Comes, Numbered

\* What the actions have to show of a chain: the rest follows from where its
\* rules come from.
LEMMA ChainKept ==
  ASSUME FirewallInv, NEW new, chain' \in Seq(Rules), Comes(chain', chain, new),
         handles' \in Nat, Numbered(chain', handles'), handles <= handles',
         \A r \in new : r.bot => r.plain /\ \E p : r.ports = {p},
         \A r \in new, q \in new : r.bot /\ q.bot => r = q,
         \A r \in new, i \in DOMAIN chain : r.bot /\ chain[i].bot => r.ports # chain[i].ports
  PROVE  AddedOnce' /\ BotRules'
<1>1. Numbered(chain, handles)
  BY DEF FirewallInv, FirewallTypeOK, Numbered
<1>2. ASSUME NEW i \in DOMAIN chain', chain'[i].bot
      PROVE  chain'[i].plain /\ \E p : chain'[i].ports = {p}
  <2>1. CASE chain'[i] \in new
    BY <1>2, <2>1
  <2>2. ASSUME NEW j \in DOMAIN chain, chain'[i] = chain[j]
        PROVE  chain'[i].plain /\ \E p : chain'[i].ports = {p}
    <3>1. chain[j].bot
      BY <1>2, <2>2
    <3>2. chain[j].plain /\ \E p : chain[j].ports = {p}
      BY <3>1 DEF FirewallInv, BotRules
    <3> QED
      BY <2>2, <3>2
  <2> QED
    BY <2>1, <2>2 DEF Comes
<1>3. ASSUME NEW i \in DOMAIN chain', NEW j \in DOMAIN chain',
             chain'[i].bot, chain'[j].bot, chain'[i].ports = chain'[j].ports
      PROVE  i = j
  <2>1. chain'[i] = chain'[j]
    <3>1. CASE chain'[i] \in new /\ chain'[j] \in new
      BY <1>3, <3>1
    <3>2. ASSUME NEW a \in DOMAIN chain, NEW b \in DOMAIN chain,
                 chain'[i] = chain[a], chain'[j] = chain[b]
          PROVE  chain'[i] = chain'[j]
      <4>1. a = b
        BY <1>3, <3>2 DEF FirewallInv, AddedOnce
      <4> QED
        BY <3>2, <4>1
    <3> QED
      BY <1>3, <3>1, <3>2 DEF Comes
  <2> QED
    BY <2>1 DEF Numbered
<1> QED
  BY <1>2, <1>3 DEF AddedOnce, BotRules

\* nftables.conf has no rule of the bot.
LEMMA BootChain ==
  /\ Boot \in Seq(Rules) /\ DOMAIN Boot = DOMAIN Shipped
  /\ Len(Shipped) \in Nat /\ Numbered(Boot, Len(Shipped))
  /\ \A i \in DOMAIN Boot : ~ Boot[i].bot
<1> USE FirewallAssumption DEF FirewallAssumption
<1> DEFINE Lines == [ports : SUBSET ShippedPorts, plain : BOOLEAN]
<1>1. Len(Shipped) \in Nat /\ DOMAIN Shipped = 1..Len(Shipped)
  BY LenProperties
<1>2. \A i \in DOMAIN Shipped : Shipped[i] \in Lines
  BY ElementOfSeq, <1>1
<1>3. ASSUME NEW i \in DOMAIN Shipped
      PROVE  Rule(i, Shipped[i].ports, Shipped[i].plain, FALSE) \in Rules
  <2>1. Shipped[i].ports \in SUBSET ShippedPorts /\ Shipped[i].plain \in BOOLEAN
    BY <1>2
  <2>2. Shipped[i].ports \in SUBSET Ported
    BY <2>1 DEF Ported
  <2>3. i \in Nat \ {0}
    BY <1>1
  <2> QED
    BY <2>1, <2>2, <2>3 DEF Rule, Rules
<1>4. Boot \in [1..Len(Shipped) -> Rules]
  BY <1>1, <1>3 DEF Boot
<1>5. Boot \in Seq(Rules)
  BY <1>1, <1>4, SeqDef
<1>6. DOMAIN Boot = DOMAIN Shipped
  BY DEF Boot
<1>7. \A i \in DOMAIN Boot : Boot[i].handle = i /\ ~ Boot[i].bot
  BY DEF Boot, Rule
<1> QED
  BY <1>1, <1>5, <1>6, <1>7 DEF Numbered

LEMMA FirewallInitInv == FirewallInit => FirewallInv
<1> SUFFICES ASSUME FirewallInit PROVE FirewallInv
  OBVIOUS
<1>1. chain = Boot /\ handles = Len(Shipped)
  BY DEF FirewallInit
<1>2. presses \in 0..MaxAsked
  BY FirewallAssumption DEF FirewallAssumption, FirewallInit
<1>3. closer \in [Closers -> [port : Openable \cup {NoPort}, handle : Nat]]
  BY DEF FirewallInit, NotClosing
<1>4. adding \in [port : Openable \cup {NoPort}, note : BOOLEAN]
  BY DEF FirewallInit, NotAdding
<1>5. FirewallTypeOK
  BY <1>1, <1>2, <1>3, <1>4, BootChain DEF FirewallInit, FirewallTypeOK, Numbered
<1>6. AddedOnce /\ BotRules /\ AddingNew
  BY <1>1, BootChain DEF FirewallInit, AddedOnce, BotRules, AddingNew
<1>7. HandleOfPort
  BY DEF FirewallInit, HandleOfPort, NotClosing
<1> QED
  BY <1>5, <1>6, <1>7 DEF FirewallInv

\* A rule that nothing in the chain has the handle of, at one of its ends.
LEMMA NewRule ==
  ASSUME FirewallInv, NEW r \in Rules, r.handle = handles + 1, handles' = handles + 1,
         chain' = Append(chain, r) \/ chain' = <<r>> \o chain
  PROVE  chain' \in Seq(Rules) /\ Comes(chain', chain, {r}) /\ Numbered(chain', handles')
<1>1. chain \in Seq(Rules) /\ handles \in Nat /\ Numbered(chain, handles)
  BY DEF FirewallInv, FirewallTypeOK, Numbered
<1>2. chain' \in Seq(Rules) /\ Extends(chain', chain, r)
  BY <1>1, AppendExtends, PrependExtends
<1> QED
  BY <1>1, <1>2, ExtendsNumbered

\* Handles that were found stay those of rules with the port: a new rule has
\* a new handle.
LEMMA HandlesStay ==
  ASSUME FirewallInv, NEW new, Comes(chain', chain, new), closer' = closer, aside' = aside,
         handles' \in Nat, handles' >= handles, \A r \in new : r.handle > handles
  PROVE  HandleOfPort'
<1> SUFFICES ASSUME NEW c \in Closers, closer[c].handle # 0, c \notin aside
             PROVE  /\ closer[c].handle <= handles'
                    /\ \A i \in DOMAIN chain' :
                         chain'[i].handle = closer[c].handle => closer[c].port \in chain'[i].ports
  BY DEF HandleOfPort
<1>1. handles \in Nat /\ closer[c].handle \in Nat
  BY DEF FirewallInv, FirewallTypeOK
<1>2. /\ closer[c].handle <= handles
      /\ \A i \in DOMAIN chain : chain[i].handle = closer[c].handle => closer[c].port \in chain[i].ports
  BY DEF FirewallInv, HandleOfPort
<1>3. \A r \in new : r.handle # closer[c].handle
  BY <1>1, <1>2
<1>4. closer[c].handle <= handles'
  BY <1>1, <1>2
<1> QED
  BY <1>2, <1>3, <1>4 DEF Comes

LEMMA FirewallNextInv == FirewallInv /\ [FirewallNext]_firewallVars => FirewallInv'
<1> SUFFICES ASSUME FirewallInv, [FirewallNext]_firewallVars PROVE FirewallInv'
  OBVIOUS
<1>t. FirewallTypeOK /\ AddedOnce /\ BotRules /\ AddingNew /\ HandleOfPort
  BY DEF FirewallInv
<1>c. UNCHANGED <<chain, handles>> => AddedOnce' /\ BotRules'
  <2> SUFFICES ASSUME chain' = chain PROVE AddedOnce' /\ BotRules'
    OBVIOUS
  <2>1. AddedOnce'
    BY <1>t, Zenon DEF AddedOnce
  <2>2. BotRules'
    BY <1>t, Zenon DEF BotRules
  <2> QED
    BY <2>1, <2>2
<1> USE FirewallAssumption DEF FirewallAssumption
<1>a. Asked => presses' \in 0..MaxAsked
  BY <1>t DEF Asked, FirewallTypeOK
<1>h. UNCHANGED <<chain, handles, closer, aside>> => HandleOfPort'
  BY <1>t DEF HandleOfPort
<1>1. ASSUME NEW port \in Openable, NEW note \in BOOLEAN, AddChecks(port, note)
      PROVE  FirewallInv'
  <2>1. adding' \in [port : Openable \cup {NoPort}, note : BOOLEAN]
    BY <1>1 DEF AddChecks, NotAdding
  <2>2. FirewallTypeOK'
    BY <1>1, <1>t, <1>a, <2>1 DEF AddChecks, FirewallTypeOK
  <2>3. AddingNew'
    <3>1. CASE HasPort(port)
      BY <1>1, <3>1 DEF AddChecks, AddingNew, NotAdding
    <3>2. CASE ~ HasPort(port)
      <4>1. \A i \in DOMAIN chain : chain[i].bot => port \notin chain[i].ports
        BY <1>t, <3>2 DEF HasPort, Shows, BotRules
      <4>2. adding'.port = port /\ port # NoPort /\ chain' = chain
        BY <1>1, <3>2 DEF AddChecks
      <4> QED
        BY <4>1, <4>2 DEF AddingNew
    <3> QED
      BY <3>1, <3>2
  <2> QED
    BY <1>1, <1>c, <1>h, <2>2, <2>3 DEF AddChecks, FirewallInv
<1>2. CASE AddRule
  <2> DEFINE r == Rule(handles', {adding.port}, TRUE, TRUE)
  <2>1. adding.port \in Openable
    BY <1>2, <1>t DEF AddRule, FirewallTypeOK, AddingNew
  <2>2. /\ r \in Rules /\ r.handle = handles + 1 /\ r.ports = {adding.port} /\ r.bot /\ r.plain
        /\ handles' = handles + 1 /\ handles \in Nat
    BY <1>2, <1>t, <2>1 DEF AddRule, FirewallTypeOK, Rule, Rules, Ported
  <2>3. chain' = Append(chain, r)
    BY <1>2 DEF AddRule
  <2> HIDE DEF r
  <2>4. chain' \in Seq(Rules) /\ Comes(chain', chain, {r}) /\ Numbered(chain', handles')
    BY <2>2, <2>3, NewRule
  <2>5. adding' = NotAdding /\ adding' \in [port : Openable \cup {NoPort}, note : BOOLEAN]
    BY <1>2 DEF AddRule, NotAdding
  <2>6. notes' \subseteq Openable
    BY <1>2, <1>t, <2>1 DEF AddRule, FirewallTypeOK
  <2>7. FirewallTypeOK'
    <3>1. UNCHANGED <<closer, aside, presses>> /\ handles' \in Nat
      BY <1>2, <2>2 DEF AddRule
    <3>2. /\ \A i \in DOMAIN chain' : chain'[i].handle <= handles'
          /\ \A i, j \in DOMAIN chain' : chain'[i].handle = chain'[j].handle => i = j
      BY <2>4 DEF Numbered
    <3> QED
      BY <1>t, <2>4, <2>5, <2>6, <3>1, <3>2 DEF FirewallTypeOK
  <2>8. \A i \in DOMAIN chain : chain[i].bot => r.ports # chain[i].ports
    BY <1>2, <1>t, <2>2 DEF AddRule, AddingNew
  <2>9. AddedOnce' /\ BotRules'
    <3>1. handles' \in Nat /\ handles <= handles'
      BY <2>2
    <3> DEFINE new == {r}
    <3>2. \A q \in new : q.bot => q.plain /\ \E p : q.ports = {p}
      BY <2>2
    <3>3. \A q \in new, o \in new : q.bot /\ o.bot => q = o
      OBVIOUS
    <3>4. \A q \in new, i \in DOMAIN chain : q.bot /\ chain[i].bot => q.ports # chain[i].ports
      BY <2>8
    <3>5. chain' \in Seq(Rules) /\ Comes(chain', chain, new) /\ Numbered(chain', handles')
      BY <2>4
    <3> HIDE DEF new
    <3> QED
      BY <3>1, <3>2, <3>3, <3>4, <3>5, ChainKept
  <2>10. AddingNew'
    BY <2>5 DEF AddingNew
  <2>11. HandleOfPort'
    <3>1. /\ handles' \in Nat /\ handles' >= handles /\ \A q \in {r} : q.handle > handles
          /\ closer' = closer /\ aside' = aside
      BY <1>2, <2>2 DEF AddRule
    <3> QED
      BY <2>4, <3>1, HandlesStay
  <2> QED
    BY <2>7, <2>9, <2>10, <2>11 DEF FirewallInv
<1>3. CASE AddRuleFails
  <2>1. adding' = NotAdding /\ adding' \in [port : Openable \cup {NoPort}, note : BOOLEAN]
    BY <1>3 DEF AddRuleFails, NotAdding
  <2>2. FirewallTypeOK'
    BY <1>3, <1>t, <2>1 DEF AddRuleFails, FirewallTypeOK
  <2> QED
    BY <1>3, <1>c, <1>h, <2>1, <2>2 DEF AddRuleFails, FirewallInv, AddingNew
<1>4. ASSUME NEW port \in Openable, NEW text \in BOOLEAN, SetNote(port, text)
      PROVE  FirewallInv'
  <2>1. notes' \subseteq Openable
    BY <1>4, <1>t DEF SetNote, FirewallTypeOK
  <2>2. FirewallTypeOK'
    BY <1>4, <1>t, <1>a, <2>1 DEF SetNote, FirewallTypeOK
  <2> QED
    BY <1>4, <1>t, <1>c, <1>h, <2>2 DEF SetNote, FirewallInv, AddingNew
<1>5. ASSUME NEW c \in Closers, NEW port \in Openable, PressClose(c, port)
      PROVE  FirewallInv'
  <2>1. /\ closer' \in [Closers -> [port : Openable \cup {NoPort}, handle : Nat]]
        /\ closer'[c].handle = 0
        /\ \A d \in Closers \ {c} : closer'[d] = closer[d]
    BY <1>5, <1>t DEF PressClose, FirewallTypeOK, NotClosing
  <2>2. FirewallTypeOK'
    BY <1>5, <1>t, <1>a, <2>1 DEF PressClose, FirewallTypeOK
  <2>3. HandleOfPort'
    BY <1>5, <1>t, <2>1 DEF PressClose, HandleOfPort
  <2> QED
    BY <1>5, <1>t, <1>c, <2>2, <2>3 DEF PressClose, FirewallInv, AddingNew
<1>6. ASSUME NEW c \in Closers, FindHandle(c)
      PROVE  FirewallInv'
  <2>1. /\ UNCHANGED <<chain, handles, notes, adding, presses>>
        /\ aside' = aside \ {c}
    BY <1>6 DEF FindHandle
  <2>2. ASSUME NEW i \in DOMAIN chain, FirstWith(i, closer[c].port),
               closer' = [closer EXCEPT ![c].handle = chain[i].handle]
        PROVE  FirewallInv'
    <3>1. chain[i].handle \in Nat \ {0} /\ chain[i].handle <= handles
      <4>1. i \in 1..Len(chain)
        BY <1>t, LenProperties DEF FirewallTypeOK
      <4>2. chain[i] \in Rules
        BY <1>t, <4>1, ElementOfSeq DEF FirewallTypeOK
      <4> QED
        BY <1>t, <4>2 DEF FirewallTypeOK, Rules
    <3>2. /\ closer' \in [Closers -> [port : Openable \cup {NoPort}, handle : Nat]]
          /\ closer'[c].handle = chain[i].handle /\ closer'[c].port = closer[c].port
          /\ \A d \in Closers \ {c} : closer'[d] = closer[d]
      BY <1>t, <2>2, <3>1 DEF FirewallTypeOK
    <3>3. FirewallTypeOK'
      BY <1>t, <2>1, <3>2 DEF FirewallTypeOK
    <3>4. \A j \in DOMAIN chain : chain[j].handle = chain[i].handle => closer[c].port \in chain[j].ports
      BY <1>t, <2>2 DEF FirewallTypeOK, FirstWith
    <3>5. HandleOfPort'
      BY <1>t, <2>1, <3>1, <3>2, <3>4 DEF HandleOfPort
    <3> QED
      BY <1>t, <1>c, <2>1, <3>3, <3>5 DEF FirewallInv, AddingNew
  <2>3. CASE closer' = [closer EXCEPT ![c] = NotClosing]
    <3>1. /\ closer' \in [Closers -> [port : Openable \cup {NoPort}, handle : Nat]]
          /\ closer'[c].handle = 0
          /\ \A d \in Closers \ {c} : closer'[d] = closer[d]
      BY <1>t, <2>3 DEF FirewallTypeOK, NotClosing
    <3>2. FirewallTypeOK'
      BY <1>t, <2>1, <3>1 DEF FirewallTypeOK
    <3>3. HandleOfPort'
      BY <1>t, <2>1, <3>1 DEF HandleOfPort
    <3> QED
      BY <1>t, <1>c, <2>1, <3>2, <3>3 DEF FirewallInv, AddingNew
  <2> QED
    BY <1>6, <2>2, <2>3 DEF FindHandle
<1>7. ASSUME NEW c \in Closers, DeleteRule(c)
      PROVE  FirewallInv'
  <2>1. /\ closer' = [closer EXCEPT ![c] = NotClosing]
        /\ UNCHANGED <<handles, notes, adding, aside, presses>>
    BY <1>7 DEF DeleteRule
  <2>2. /\ closer' \in [Closers -> [port : Openable \cup {NoPort}, handle : Nat]]
        /\ closer'[c].handle = 0
        /\ \A d \in Closers \ {c} : closer'[d] = closer[d]
    BY <1>t, <2>1 DEF FirewallTypeOK, NotClosing
  <2>3. chain' \in Seq(Rules) /\ Comes(chain', chain, {}) /\ Numbered(chain', handles)
    <3>1. chain \in Seq(Rules) /\ handles \in Nat /\ Numbered(chain, handles)
      BY <1>t DEF FirewallTypeOK, Numbered
    <3>2. ASSUME NEW i \in DOMAIN chain, chain' = RemoveAt(chain, i)
          PROVE  chain' \in Seq(Rules) /\ Shrinks(chain', chain)
      BY <3>1, <3>2, RemoveShrinks
    <3>3. CASE chain' = chain
      BY <3>1, <3>3 DEF Comes
    <3> QED
      BY <1>7, <3>1, <3>2, <3>3, ShrinksNumbered DEF DeleteRule
  <2>4. FirewallTypeOK'
    BY <1>t, <2>1, <2>2, <2>3 DEF FirewallTypeOK, Numbered
  <2>5. AddedOnce' /\ BotRules'
    <3>1. handles' \in Nat /\ handles <= handles' /\ Numbered(chain', handles')
      BY <1>t, <2>1, <2>3 DEF FirewallTypeOK
    <3> QED
      BY <2>3, <3>1, ChainKept
  <2>6. AddingNew'
    BY <1>t, <2>1, <2>3 DEF AddingNew, Comes
  <2>7. HandleOfPort'
    BY <1>t, <2>1, <2>2, <2>3 DEF HandleOfPort, Comes
  <2> QED
    BY <2>4, <2>5, <2>6, <2>7 DEF FirewallInv
<1>8. CASE CertOpens
  <2> DEFINE r == Rule(handles', {HttpPort}, TRUE, FALSE)
  <2>1. /\ r \in Rules /\ r.handle = handles + 1 /\ ~ r.bot
        /\ handles' = handles + 1 /\ handles \in Nat
    BY <1>8, <1>t DEF CertOpens, FirewallTypeOK, Rule, Rules, Ported
  <2>2. chain' = <<r>> \o chain
    BY <1>8 DEF CertOpens
  <2> HIDE DEF r
  <2>3. chain' \in Seq(Rules) /\ Comes(chain', chain, {r}) /\ Numbered(chain', handles')
    BY <2>1, <2>2, NewRule
  <2>4. FirewallTypeOK'
    <3>1. UNCHANGED <<notes, adding, closer, aside>> /\ handles' \in Nat /\ presses' \in 0..MaxAsked
      BY <1>8, <1>a, <2>1 DEF CertOpens
    <3>2. /\ \A i \in DOMAIN chain' : chain'[i].handle <= handles'
          /\ \A i, j \in DOMAIN chain' : chain'[i].handle = chain'[j].handle => i = j
      BY <2>3 DEF Numbered
    <3> QED
      BY <1>t, <2>3, <3>1, <3>2 DEF FirewallTypeOK
  <2>5. AddedOnce' /\ BotRules'
    BY <2>1, <2>3, ChainKept
  <2>6. AddingNew'
    BY <1>8, <1>t, <2>1, <2>3 DEF CertOpens, AddingNew, Comes
  <2>7. HandleOfPort'
    <3>1. /\ handles' \in Nat /\ handles' >= handles /\ \A q \in {r} : q.handle > handles
          /\ closer' = closer /\ aside' = aside
      BY <1>8, <2>1 DEF CertOpens
    <3> QED
      BY <2>3, <3>1, HandlesStay
  <2> QED
    BY <2>4, <2>5, <2>6, <2>7 DEF FirewallInv
<1>9. CASE ReloadChain
  <2>1. /\ chain' = Boot /\ handles' = Len(Shipped) /\ aside' = Closers
        /\ UNCHANGED <<notes, adding, closer>>
    BY <1>9 DEF ReloadChain
  <2>2. FirewallTypeOK'
    BY <1>9, <1>t, <1>a, <2>1, BootChain DEF ReloadChain, FirewallTypeOK, Numbered
  <2>3. \A i \in DOMAIN chain' : ~ chain'[i].bot
    BY <2>1, BootChain
  <2>4. AddedOnce' /\ BotRules'
    BY <2>3 DEF AddedOnce, BotRules
  <2>5. AddingNew'
    BY <1>t, <2>1, <2>3 DEF AddingNew
  <2>6. HandleOfPort'
    BY <2>1 DEF HandleOfPort
  <2> QED
    BY <2>2, <2>4, <2>5, <2>6 DEF FirewallInv
<1>10. CASE UNCHANGED firewallVars
  BY <1>10, <1>t, <1>c, <1>h DEF firewallVars, FirewallInv, FirewallTypeOK, AddingNew
<1> QED
  BY <1>1, <1>2, <1>3, <1>4, <1>5, <1>6, <1>7, <1>8, <1>9, <1>10 DEF FirewallNext

LEMMA FirewallInvariance == FirewallSpec => []FirewallInv
BY FirewallInitInv, FirewallNextInv, PTL DEF FirewallSpec

\* Every variable keeps its type: no two rules of the chain have one handle,
\* as nft gives them, and none has a handle not given yet.
THEOREM FirewallTypeCorrect == FirewallSpec => []FirewallTypeOK
<1>1. FirewallInv => FirewallTypeOK
  BY DEF FirewallInv
<1> QED
  BY <1>1, FirewallInvariance, PTL

\* op_firewall_add_port never gives the bot a second rule for a port, whatever
\* renewals, reloads and closed ports come between its check and its addition,
\* and whichever of the two listings it looked at.
THEOREM RuleAddedOnce == FirewallSpec => []AddedOnce
<1>1. FirewallInv => AddedOnce
  BY DEF FirewallInv
<1> QED
  BY <1>1, FirewallInvariance, PTL

\* op_firewall_del_port_key deletes one rule, which accepts the port pressed:
\* the handle it found is that of such a rule or of none, until a reload.
THEOREM ClosesPressedRule == FirewallSpec => ClosesRuleOfPort
<1> DEFINE A == \A c \in Closers : closer[c].handle # 0 /\ closer'[c].handle = 0 /\ c \notin aside /\ chain' # chain =>
                  \E i \in DOMAIN chain : closer[c].port \in chain[i].ports /\ chain' = RemoveAt(chain, i)
<1>1. FirewallInv /\ [FirewallNext]_firewallVars => [A]_firewallVars
  <2> SUFFICES ASSUME FirewallInv, FirewallNext,
                      NEW c \in Closers, closer[c].handle # 0, closer'[c].handle = 0,
                      c \notin aside, chain' # chain
               PROVE  \E i \in DOMAIN chain : closer[c].port \in chain[i].ports /\ chain' = RemoveAt(chain, i)
    BY DEF firewallVars
  <2>1. PICK d \in Closers : DeleteRule(d)
    BY DEF FirewallNext, AddChecks, SetNote, PressClose, AddRule, AddRuleFails, FindHandle,
           CertOpens, ReloadChain
  <2>2. d = c
    BY <2>1 DEF DeleteRule, FirewallInv, FirewallTypeOK
  <2>3. PICK i \in DOMAIN chain : chain[i].handle = closer[c].handle /\ chain' = RemoveAt(chain, i)
    BY <2>1, <2>2 DEF DeleteRule
  <2>4. closer[c].port \in chain[i].ports
    BY <2>3 DEF FirewallInv, HandleOfPort
  <2> QED
    BY <2>3, <2>4
<1> QED
  BY <1>1, FirewallInvariance, PTL DEF FirewallSpec, ClosesRuleOfPort

\* The theorem behind SshStaysOpen, which a run shows violated: SSH is closed
\* only with a rule that it shares with the port pressed, or, if the rule is
\* none of nftables.conf, by a handle that was found before a reload.
SshGoesWithShared ==
  [][SshStaysOpen /\ ~ SshStaysOpen' =>
       \E c \in Closers, i \in DOMAIN chain :
         /\ closer[c].handle = chain[i].handle /\ SSHPort \in chain[i].ports
         /\ closer[c].port # SSHPort
         /\ \/ closer[c].port \in chain[i].ports
            \/ c \in aside /\ chain[i].handle > Len(Shipped)]_firewallVars

\* firewall_del_menu has no button for 22/tcp.
Pressed ==
  \A c \in Closers :
    /\ closer[c].port \in (Openable \ {SSHPort}) \cup {NoPort}
    /\ closer[c].handle # 0 => closer[c].port # NoPort

\* The rules of nftables.conf have the same handles after every reload, so a
\* handle found for one of them is never given to another rule.
ShippedHandles ==
  /\ Len(Shipped) <= handles
  /\ \A i \in DOMAIN chain : chain[i].handle <= Len(Shipped) =>
       chain[i].ports = Shipped[chain[i].handle].ports
  /\ \A c \in Closers : closer[c].handle \in DOMAIN Shipped =>
       closer[c].port \in Shipped[closer[c].handle].ports

LEMMA PressedStep == FirewallInv /\ Pressed /\ [FirewallNext]_firewallVars => Pressed'
<1> SUFFICES ASSUME FirewallInv, Pressed, [FirewallNext]_firewallVars PROVE Pressed'
  OBVIOUS
<1>t. closer \in [Closers -> [port : Openable \cup {NoPort}, handle : Nat]]
  BY DEF FirewallInv, FirewallTypeOK
<1>1. ASSUME NEW c \in Closers, NEW port \in Openable, PressClose(c, port) PROVE Pressed'
  BY <1>1, <1>t, FirewallAssumption DEF PressClose, Pressed, NotClosing, FirewallAssumption
<1>2. ASSUME NEW c \in Closers, FindHandle(c) PROVE Pressed'
  <2>1. closer[c].port # NoPort
    BY <1>2 DEF FindHandle
  <2>2. \/ closer' = [closer EXCEPT ![c] = NotClosing]
        \/ \E h : closer' = [closer EXCEPT ![c].handle = h]
    BY <1>2 DEF FindHandle
  <2> QED
    BY <1>t, <2>1, <2>2 DEF Pressed, NotClosing
<1>3. ASSUME NEW c \in Closers, DeleteRule(c) PROVE Pressed'
  BY <1>3, <1>t DEF DeleteRule, Pressed, NotClosing
<1>4. ASSUME UNCHANGED closer PROVE Pressed'
  BY <1>4 DEF Pressed
<1> QED
  BY <1>1, <1>2, <1>3, <1>4
  DEF FirewallNext, AddChecks, SetNote, AddRule, AddRuleFails, CertOpens, ReloadChain, firewallVars

LEMMA ShippedStep == FirewallInv /\ ShippedHandles /\ [FirewallNext]_firewallVars => ShippedHandles'
<1> SUFFICES ASSUME FirewallInv, ShippedHandles, [FirewallNext]_firewallVars PROVE ShippedHandles'
  OBVIOUS
<1>t. /\ chain \in Seq(Rules) /\ handles \in Nat /\ Numbered(chain, handles)
      /\ closer \in [Closers -> [port : Openable \cup {NoPort}, handle : Nat]]
      /\ adding \in [port : Openable \cup {NoPort}, note : BOOLEAN]
  BY DEF FirewallInv, FirewallTypeOK, Numbered
<1>n. Len(Shipped) \in Nat /\ DOMAIN Shipped = 1..Len(Shipped)
  BY FirewallAssumption, LenProperties DEF FirewallAssumption
<1>z. 0 \notin DOMAIN Shipped
  BY <1>n
<1>1. ASSUME NEW new, Comes(chain', chain, new), \A r \in new : r.handle = handles + 1,
             handles' \in {handles, handles + 1}, UNCHANGED closer
      PROVE  ShippedHandles'
  <2>1. \A r \in new : ~ (r.handle <= Len(Shipped))
    BY <1>1, <1>t, <1>n DEF ShippedHandles
  <2>2. Len(Shipped) <= handles'
    BY <1>1, <1>t, <1>n DEF ShippedHandles
  <2> QED
    BY <1>1, <2>1, <2>2 DEF ShippedHandles, Comes
<1>2. CASE AddRule
  <2> DEFINE r == Rule(handles', {adding.port}, TRUE, TRUE)
  <2>1. /\ handles' = handles + 1 /\ chain' = Append(chain, r) /\ UNCHANGED closer
        /\ adding.port # NoPort
    BY <1>2 DEF AddRule, FirewallInv, AddingNew
  <2>2. r \in Rules /\ r.handle = handles + 1
    BY <1>t, <2>1 DEF Rule, Rules, Ported
  <2> HIDE DEF r
  <2>3. Comes(chain', chain, {r})
    BY <2>1, <2>2, NewRule
  <2> QED
    BY <1>1, <2>1, <2>2, <2>3
<1>3. CASE CertOpens
  <2> DEFINE r == Rule(handles', {HttpPort}, TRUE, FALSE)
  <2>1. handles' = handles + 1 /\ chain' = <<r>> \o chain /\ UNCHANGED closer
    BY <1>3 DEF CertOpens
  <2>2. r \in Rules /\ r.handle = handles + 1
    BY <1>t, <2>1 DEF Rule, Rules, Ported
  <2> HIDE DEF r
  <2>3. Comes(chain', chain, {r})
    BY <2>1, <2>2, NewRule
  <2> QED
    BY <1>1, <2>1, <2>2, <2>3
<1>4. ASSUME NEW c \in Closers, DeleteRule(c) PROVE ShippedHandles'
  <2>1. handles' = handles /\ closer' = [closer EXCEPT ![c] = NotClosing]
    BY <1>4 DEF DeleteRule
  <2>2. Comes(chain', chain, {})
    <3>1. CASE chain' = chain
      BY <3>1 DEF Comes
    <3>2. ASSUME NEW i \in DOMAIN chain, chain' = RemoveAt(chain, i) PROVE Comes(chain', chain, {})
      BY <1>t, <3>2, RemoveShrinks, ShrinksNumbered
    <3> QED
      BY <1>4, <3>1, <3>2 DEF DeleteRule
  <2>3. \A d \in Closers : closer'[d] = closer[d] \/ closer'[d].handle = 0
    BY <1>t, <2>1 DEF NotClosing
  <2> QED
    BY <1>z, <2>1, <2>2, <2>3 DEF ShippedHandles, Comes
<1>5. CASE ReloadChain
  <2>1. chain' = Boot /\ handles' = Len(Shipped) /\ UNCHANGED closer
    BY <1>5 DEF ReloadChain
  <2>2. \A i \in DOMAIN Boot : Boot[i].handle = i /\ Boot[i].ports = Shipped[i].ports
    BY DEF Boot, Rule
  <2> QED
    BY <1>n, <2>1, <2>2 DEF ShippedHandles
<1>6. ASSUME NEW c \in Closers, FindHandle(c) PROVE ShippedHandles'
  <2>1. UNCHANGED <<chain, handles>>
    BY <1>6 DEF FindHandle
  <2>2. CASE closer' = [closer EXCEPT ![c] = NotClosing]
    <3>1. \A d \in Closers : closer'[d] = closer[d] \/ closer'[d].handle = 0
      BY <1>t, <2>2 DEF NotClosing
    <3> QED
      BY <1>z, <2>1, <3>1 DEF ShippedHandles
  <2>3. ASSUME NEW i \in DOMAIN chain, FirstWith(i, closer[c].port),
               closer' = [closer EXCEPT ![c].handle = chain[i].handle]
        PROVE  ShippedHandles'
    <3>1. \A d \in Closers : \/ closer'[d] = closer[d]
                             \/ closer'[d].port = closer[c].port /\ closer'[d].handle = chain[i].handle
      BY <1>t, <2>3
    <3>2. chain[i].handle \in DOMAIN Shipped => closer[c].port \in Shipped[chain[i].handle].ports
      BY <1>n, <2>3 DEF FirstWith, ShippedHandles
    <3> QED
      BY <2>1, <3>1, <3>2 DEF ShippedHandles
  <2> QED
    BY <1>6, <2>2, <2>3 DEF FindHandle
<1>7. ASSUME NEW c \in Closers, NEW port \in Openable, PressClose(c, port) PROVE ShippedHandles'
  <2>1. UNCHANGED <<chain, handles>> /\ closer[c].handle = 0 /\ closer' = [closer EXCEPT ![c].port = port]
    BY <1>7 DEF PressClose, NotClosing
  <2>2. \A d \in Closers : closer'[d] = closer[d] \/ closer'[d].handle = 0
    BY <1>t, <2>1
  <2> QED
    BY <1>z, <2>1, <2>2 DEF ShippedHandles
<1>8. ASSUME UNCHANGED <<chain, handles, closer>> PROVE ShippedHandles'
  BY <1>8 DEF ShippedHandles
<1> QED
  BY <1>2, <1>3, <1>4, <1>5, <1>6, <1>7, <1>8
  DEF FirewallNext, AddChecks, SetNote, AddRuleFails, firewallVars

\* What a job that closes a port has, whatever came before.
LEMMA ClosersHold == FirewallSpec => [](Pressed /\ ShippedHandles)
<1>1. FirewallInit => Pressed
  BY DEF FirewallInit, Pressed, NotClosing
<1>2. FirewallInit => ShippedHandles
  <2>1. Len(Shipped) \in Nat /\ DOMAIN Shipped = 1..Len(Shipped)
    BY FirewallAssumption, LenProperties DEF FirewallAssumption
  <2>2. \A i \in DOMAIN Boot : Boot[i].handle = i /\ Boot[i].ports = Shipped[i].ports
    BY DEF Boot, Rule
  <2> QED
    BY <2>1, <2>2 DEF FirewallInit, ShippedHandles, NotClosing
<1> QED
  BY <1>1, <1>2, PressedStep, ShippedStep, FirewallInvariance, PTL DEF FirewallSpec

\* Whatever is opened, closed, renewed and reloaded, op_firewall_del_port_key
\* takes 22/tcp away only with another port that shares its rule: a handle from
\* before a reload may be that of another rule, but of none in nftables.conf.
\* Nothing else takes it away, as long as nftables.conf accepts it.
THEOREM SshClosedWithItsRule ==
  ASSUME \E i \in DOMAIN Shipped : SSHPort \in Shipped[i].ports
  PROVE  FirewallSpec => SshGoesWithShared
<1> DEFINE A == SshStaysOpen /\ ~ SshStaysOpen' =>
                  \E c \in Closers, i \in DOMAIN chain :
                    /\ closer[c].handle = chain[i].handle /\ SSHPort \in chain[i].ports
                    /\ closer[c].port # SSHPort
                    /\ \/ closer[c].port \in chain[i].ports
                       \/ c \in aside /\ chain[i].handle > Len(Shipped)
<1>1. FirewallInv /\ Pressed /\ ShippedHandles /\ [FirewallNext]_firewallVars => [A]_firewallVars
  <2> SUFFICES ASSUME FirewallInv, Pressed, ShippedHandles, FirewallNext, SshStaysOpen, ~ SshStaysOpen'
               PROVE  \E c \in Closers, i \in DOMAIN chain :
                        /\ closer[c].handle = chain[i].handle /\ SSHPort \in chain[i].ports
                        /\ closer[c].port # SSHPort
                        /\ \/ closer[c].port \in chain[i].ports
                           \/ c \in aside /\ chain[i].handle > Len(Shipped)
    BY DEF firewallVars
  <2>t. chain \in Seq(Rules) /\ handles \in Nat /\ Len(chain) \in Nat /\ DOMAIN chain = 1..Len(chain)
    BY LenProperties DEF FirewallInv, FirewallTypeOK
  <2>1. PICK i \in DOMAIN chain : SSHPort \in chain[i].ports
    BY DEF SshStaysOpen
  <2>2. chain' # chain
    BY DEF SshStaysOpen
  <2>3. ~ AddRule
    <3> SUFFICES ASSUME AddRule PROVE FALSE
      OBVIOUS
    <3>1. PICK r : chain' = Append(chain, r)
      BY DEF AddRule
    <3>2. i \in DOMAIN chain' /\ chain'[i] = chain[i]
      BY <2>t, <3>1
    <3> QED
      BY <2>1, <3>2 DEF SshStaysOpen
  <2>4. ~ CertOpens
    <3> SUFFICES ASSUME CertOpens PROVE FALSE
      OBVIOUS
    <3>1. PICK r : chain' = <<r>> \o chain
      BY DEF CertOpens
    <3>2. i + 1 \in DOMAIN chain' /\ chain'[i + 1] = chain[i]
      BY <2>t, <3>1
    <3> QED
      BY <2>1, <3>2 DEF SshStaysOpen
  <2>5. ~ ReloadChain
    <3>1. \E k \in DOMAIN Boot : SSHPort \in Boot[k].ports
      BY DEF Boot, Rule
    <3> QED
      BY <3>1 DEF ReloadChain, SshStaysOpen
  <2>6. PICK c \in Closers : DeleteRule(c)
    BY <2>2, <2>3, <2>4, <2>5 DEF FirewallNext, AddChecks, SetNote, PressClose, AddRuleFails, FindHandle
  <2>7. PICK k \in DOMAIN chain : chain[k].handle = closer[c].handle /\ chain' = RemoveAt(chain, k)
    BY <2>2, <2>6 DEF DeleteRule
  <2>8. i = k
    <3> SUFFICES ASSUME i # k PROVE FALSE
      OBVIOUS
    <3>1. \E j \in DOMAIN chain' : chain'[j] = chain[i]
      BY <2>t, <2>7, RemoveShrinks
    <3> QED
      BY <2>1, <3>1 DEF SshStaysOpen
  <2>9. closer[c].handle # 0
    BY <2>6 DEF DeleteRule
  <2>10. closer[c].port # SSHPort
    BY <2>9, FirewallAssumption DEF Pressed, FirewallAssumption
  <2>11. closer[c].port \in chain[k].ports \/ c \in aside
    BY <2>7, <2>9 DEF FirewallInv, HandleOfPort
  <2>12. closer[c].port \in chain[k].ports \/ chain[k].handle > Len(Shipped)
    <3>1. chain[k].handle \in Nat \ {0}
      <4>1. chain[k] \in Rules
        BY <2>t, ElementOfSeq
      <4> QED
        BY <4>1 DEF Rules
    <3>2. Len(Shipped) \in Nat /\ DOMAIN Shipped = 1..Len(Shipped)
      BY FirewallAssumption, LenProperties DEF FirewallAssumption
    <3>3. chain[k].handle \in DOMAIN Shipped \/ chain[k].handle > Len(Shipped)
      BY <3>1, <3>2
    <3> QED
      BY <2>7, <3>2, <3>3 DEF ShippedHandles
  <2> QED
    BY <2>1, <2>7, <2>8, <2>10, <2>11, <2>12
<1> QED
  BY <1>1, FirewallInvariance, ClosersHold, PTL DEF FirewallSpec, SshGoesWithShared

-----------------------------------------------------------------------------
(* Imported lists. The lines that a raw line comes to fit the flows that   *)
(* it fits, and all have its policy; so the first line that fits a flow is *)
(* one of those of the first raw line that does. Here, because the members *)
(* of an OR are kept by their places.                                      *)

LEMMA MembersKept ==
  ASSUME NEW raw, LinesOK(raw.members)
  PROVE  /\ LinesOK(Members(raw))
         /\ \A k \in DOMAIN Members(raw) : \E i \in DOMAIN raw.members :
              Members(raw)[k] = raw.members[i] /\ raw.members[i].typ \in KeepTypes
                /\ raw.members[i].val # Nothing
         /\ \A i \in DOMAIN raw.members :
              raw.members[i].typ \in KeepTypes /\ raw.members[i].val # Nothing =>
                \E k \in DOMAIN Members(raw) : Members(raw)[k] = raw.members[i]
<1> DEFINE s == raw.members
           P == {i \in DOMAIN s : s[i].typ \in KeepTypes /\ s[i].val # Nothing}
           t == Members(raw)
<1>1. Len(s) \in Nat /\ DOMAIN s = 1..Len(s)
  BY LinesAreSeq
<1>2. P \in SUBSET Nat /\ P \in SUBSET DOMAIN s /\ IsFiniteSet(P)
  <2>1. IsFiniteSet(1..Len(s))
    BY <1>1, FS_Interval
  <2> QED
    BY <1>1, <2>1, FS_Subset
<1>3. t = [k \in 1..Cardinality(P) |-> s[PlaceOf(P, k)]]
  BY DEF Members, KeptAt
<1>4. LinesOK(t)
  <2>1. t = KeptAt(s, P)
    BY DEF Members
  <2> HIDE DEF t, P, s
  <2> QED
    BY <1>2, <2>1, KeptLines DEF s
<1>5. /\ \A k \in 1..Cardinality(P) : PlaceOf(P, k) \in P
      /\ \A i \in P : Rank(P, i) \in 1..Cardinality(P) /\ PlaceOf(P, Rank(P, i)) = i
  <2> HIDE DEF P
  <2> QED
    BY <1>2, RankRange, PlaceOfRank
<1>6. \A k \in DOMAIN t : \E i \in DOMAIN s : t[k] = s[i] /\ i \in P
  <2> HIDE DEF t, s
  <2> QED
    BY <1>2, <1>3, <1>5
<1>7. \A i \in P : \E k \in DOMAIN t : t[k] = s[i]
  <2> HIDE DEF t, s, P
  <2> QED
    BY <1>3, <1>5
<1> QED
  BY <1>4, <1>6, <1>7

\* What the router does with a line that was emitted.
LEMMA EmittedFits ==
  ASSUME NEW typ \in KeepTypes, NEW val, NEW p, NEW map, NEW flow
  PROVE  /\ Fits(RouteRule(Emit(typ, val, p), map), flow) <=> val = flow
         /\ RouteRule(Emit(typ, val, p), map).target = Resolve(CategoryOf(p), map)
<1> DEFINE c == CategoryOf(p)
           e == Emit(typ, val, p)
<1>1. e.typ \in KeepTypes /\ e.val = val /\ e.pol = c
  BY DEF Emit, KeepTypes
<1> HIDE DEF e, c
<1>2. PolicyOf(e) = c
  BY <1>1 DEF PolicyOf, KeepTypes
<1>3. RouteRule(e, map).val = val /\ RouteRule(e, map).target = Resolve(c, map)
  BY <1>1, <1>2 DEF RouteRule
<1>4. RouteRule(e, map).typ # "MATCH"
  BY <1>1 DEF RouteRule, KeepTypes, SetTypes
<1> QED
  BY <1>3, <1>4 DEF Fits, e, c

\* A raw line comes to lines that fit the flows it fits, under its policy.
LEMMA EmittedDecides ==
  ASSUME NEW raw, LinesOK(raw.members), NEW map, NEW flow, flow # Nothing
  PROVE  /\ \A k \in DOMAIN Emitted(raw) :
              /\ RouteRule(Emitted(raw)[k], map).target = Resolve(CategoryOf(raw.pol), map)
              /\ Fits(RouteRule(Emitted(raw)[k], map), flow) => RawFits(raw, flow)
         /\ RawFits(raw, flow) =>
              \E k \in DOMAIN Emitted(raw) : Fits(RouteRule(Emitted(raw)[k], map), flow)
<1> DEFINE s == Members(raw)
           t == [k \in DOMAIN s |-> Emit(s[k].typ, s[k].val, raw.pol)]
           x == Emit(raw.typ, raw.val, raw.pol)
<1>1. /\ \A k \in DOMAIN s : \E i \in DOMAIN raw.members :
           s[k] = raw.members[i] /\ raw.members[i].typ \in KeepTypes
      /\ \A i \in DOMAIN raw.members :
           raw.members[i].typ \in KeepTypes /\ raw.members[i].val = flow =>
             \E k \in DOMAIN s : s[k] = raw.members[i]
  BY MembersKept
<1>2. CASE raw.typ = "OR" /\ raw.pol # Nothing
  <2>1. Emitted(raw) = t
    BY <1>2 DEF Emitted, KeepTypes
  <2>2. RawFits(raw, flow) <=>
          \E i \in DOMAIN raw.members : raw.members[i].typ \in KeepTypes /\ raw.members[i].val = flow
    BY <1>2 DEF RawFits, KeepTypes
  <2> HIDE DEF s
  <2>3. \A k \in DOMAIN s : s[k].typ \in KeepTypes
    BY <1>1
  <2>4. DOMAIN t = DOMAIN s /\ \A k \in DOMAIN s : t[k] = Emit(s[k].typ, s[k].val, raw.pol)
    OBVIOUS
  <2> HIDE DEF t
  <2>5. \A k \in DOMAIN t : /\ RouteRule(t[k], map).target = Resolve(CategoryOf(raw.pol), map)
                            /\ Fits(RouteRule(t[k], map), flow) <=> s[k].val = flow
    BY <2>3, <2>4, EmittedFits
  <2>6. \A k \in DOMAIN t : s[k].val = flow => RawFits(raw, flow)
    BY <1>1, <2>2, <2>4
  <2>7. RawFits(raw, flow) => \E k \in DOMAIN t : s[k].val = flow
    BY <1>1, <2>2, <2>4
  <2> QED
    BY <2>1, <2>5, <2>6, <2>7
<1>3. CASE raw.typ \in KeepTypes /\ raw.pol # Nothing
  <2>1. Emitted(raw) = <<x>>
    BY <1>3 DEF Emitted, KeepTypes
  <2>2. RawFits(raw, flow) <=> raw.val = flow
    BY <1>3 DEF RawFits, KeepTypes
  <2>3. /\ RouteRule(x, map).target = Resolve(CategoryOf(raw.pol), map)
        /\ Fits(RouteRule(x, map), flow) <=> raw.val = flow
    BY <1>3, EmittedFits
  <2> HIDE DEF x
  <2>4. DOMAIN <<x>> = {1} /\ <<x>>[1] = x
    OBVIOUS
  <2> QED
    BY <2>1, <2>2, <2>3, <2>4
<1>4. CASE ~ (raw.typ = "OR" /\ raw.pol # Nothing) /\ ~ (raw.typ \in KeepTypes /\ raw.pol # Nothing)
  <2>1. Emitted(raw) = <<>> /\ ~ RawFits(raw, flow)
    BY <1>4 DEF Emitted, RawFits
  <2> QED
    BY <2>1
<1> QED
  BY <1>2, <1>3, <1>4

\* The first line that fits decides; none does, and the flow goes out directly.
LEMMA RouteByFirst ==
  ASSUME NEW lines, LinesOK(lines), NEW map, NEW flow, NEW A,
         \A i \in DOMAIN lines : lines[i] \in A <=> Fits(RouteRule(lines[i], map), flow)
  PROVE  /\ NoneIn(lines, A) => Route(Generate(lines, map), flow) = "DIRECT"
         /\ \A x : Leads(lines, A, x) => Route(Generate(lines, map), flow) = RouteRule(x, map).target
<1> DEFINE conf == Generate(lines, map)
           T == {i \in DOMAIN conf.rules : Fits(conf.rules[i], flow)}
           first == CHOOSE i \in T : \A j \in T : i <= j
<1>1. Len(lines) \in Nat /\ DOMAIN lines = 1..Len(lines)
  BY LinesAreSeq
<1>2. /\ DOMAIN conf.rules = DOMAIN lines
      /\ \A i \in DOMAIN lines : conf.rules[i] = RouteRule(lines[i], map)
  BY DEF Generate
<1>3. Route(conf, flow) = IF T = {} THEN "DIRECT" ELSE conf.rules[first].target
  BY DEF Route
<1> HIDE DEF conf
<1>4. T = {i \in DOMAIN lines : lines[i] \in A}
  BY <1>2
<1>5. NoneIn(lines, A) => T = {}
  BY <1>4 DEF NoneIn
<1>6. ASSUME NEW x, Leads(lines, A, x) PROVE Route(conf, flow) = RouteRule(x, map).target
  <2>1. PICK k \in DOMAIN lines : lines[k] = x /\ x \in A /\ \A j \in 1..k - 1 : lines[j] \notin A
    BY <1>6 DEF Leads
  <2>2. k \in T
    BY <1>4, <2>1
  <2>3. ASSUME NEW j \in T PROVE k <= j
    <3>1. j \in 1..Len(lines) /\ lines[j] \in A /\ k \in 1..Len(lines)
      BY <1>1, <1>4, <2>1
    <3>2. j \notin 1..k - 1
      BY <2>1, <3>1
    <3> QED
      BY <1>1, <3>1, <3>2
  <2>4. \A i \in T : (\A j \in T : i <= j) => i = k
    <3>1. \A i \in T : i \in Nat
      BY <1>1, <1>4
    <3> HIDE DEF T
    <3> QED
      BY <2>2, <2>3, <3>1
  <2> HIDE DEF T
  <2>5. first = k
    BY <2>2, <2>3, <2>4
  <2> HIDE DEF first
  <2> QED
    BY <1>2, <1>3, <2>1, <2>2, <2>5
<1> QED
  BY <1>3, <1>5, <1>6 DEF conf

\* There is a category for every policy.
LEMMA CategoryThere == \A q : CategoryOf(q) # Nothing
BY ImportAssumption DEF ImportAssumption, CategoryOf, NormCategory

\* A list comes to lines that decide every flow as the list does.
LEMMA ConvertDecides ==
  ASSUME NEW raws, LinesOK(raws), \A i \in DOMAIN raws : LinesOK(raws[i].members),
         NEW map, NEW flow, flow # Nothing
  PROVE  Route(Generate(Convert(raws), map), flow) = Resolve(RawPolicy(raws, flow), map)
<1> DEFINE s == [i \in DOMAIN raws |-> Emitted(raws[i])]
           flat == FlattenSeq(s)
           end == Final(raws)
           lines == Convert(raws)
           Elements(l) == {l[k] : k \in DOMAIN l}
           U == Elements(lines) \cup Elements(end) \cup UNION {Elements(s[i]) : i \in DOMAIN s}
           A == {r \in U : Fits(RouteRule(r, map), flow)}
           fitting == {i \in DOMAIN raws : RawFits(raws[i], flow)}
           last == raws[Max(Finals(raws))].pol
           z == [typ |-> "FINAL", val |-> Nothing, pol |-> CategoryOf(last)]
<1>1. Len(raws) \in Nat /\ DOMAIN raws = 1..Len(raws) /\ DOMAIN s = DOMAIN raws
  BY LinesAreSeq
<1>2. LinesOK(s) /\ (\A i \in DOMAIN s : LinesOK(s[i]))
  <2>1. s = [i \in 1..Len(raws) |-> s[i]] /\ \A i \in DOMAIN s : s[i] = Emitted(raws[i])
    BY <1>1
  <2> HIDE DEF s
  <2> QED
    BY <1>1, <2>1, LinesOfLength, EmittedLines
<1>3. LinesOK(end) /\ LinesOK(lines) /\ lines = flat \o end
  BY FinalLines, ConvertedLines DEF Convert
<1>4. \A r \in U : r \in A <=> Fits(RouteRule(r, map), flow)
  OBVIOUS
<1>5. /\ \A i \in DOMAIN lines : lines[i] \in U
      /\ \A i \in DOMAIN end : end[i] \in U
      /\ \A i \in DOMAIN s : \A k \in DOMAIN s[i] : s[i][k] \in U
  OBVIOUS
<1>6. \A i \in DOMAIN s :
        /\ \A k \in DOMAIN s[i] : RouteRule(s[i][k], map).target = Resolve(CategoryOf(raws[i].pol), map)
        /\ NoneIn(s[i], A) <=> i \notin fitting
  <2> SUFFICES ASSUME NEW i \in DOMAIN s
               PROVE  /\ \A k \in DOMAIN s[i] :
                           RouteRule(s[i][k], map).target = Resolve(CategoryOf(raws[i].pol), map)
                      /\ NoneIn(s[i], A) <=> i \notin fitting
    OBVIOUS
  <2>1. i \in DOMAIN raws /\ s[i] = Emitted(raws[i])
    BY <1>1
  <2>2. \A k \in DOMAIN s[i] : s[i][k] \in A <=> Fits(RouteRule(s[i][k], map), flow)
    BY <1>4, <1>5
  <2> HIDE DEF A, s
  <2> QED
    BY <2>1, <2>2, EmittedDecides DEF NoneIn
<1>7. \A i \in DOMAIN lines : lines[i] \in A <=> Fits(RouteRule(lines[i], map), flow)
  BY <1>4, <1>5
<1>8. \A i \in DOMAIN end : end[i] \in A <=> Fits(RouteRule(end[i], map), flow)
  BY <1>4, <1>5
<1>9. RawPolicy(raws, flow) = IF fitting # {} THEN CategoryOf(raws[Min(fitting)].pol)
                             ELSE IF Finals(raws) # {} /\ last # Nothing THEN CategoryOf(last)
                             ELSE "direct"
  BY DEF RawPolicy, Finals
<1>10. end = IF Finals(raws) = {} \/ last = Nothing THEN <<>> ELSE <<z>>
  BY DEF Final
<1> HIDE DEF A, U, s, flat, end, lines, last
<1>11. CASE fitting # {}
  <2> DEFINE m == Min(fitting)
  <2>1. m \in fitting /\ \A i \in fitting : m <= i
    <3>1. fitting \in SUBSET Nat
      BY <1>1
    <3> HIDE DEF fitting
    <3>2. \E x \in fitting : \A y \in fitting : x <= y
      BY <1>11, <3>1, LeastNumber
    <3> QED
      BY <3>2 DEF Min
  <2>2. m \in DOMAIN raws
    BY <2>1
  <2> HIDE DEF m, fitting
  <2>3. ASSUME NEW i \in 1..m - 1 PROVE NoneIn(s[i], A)
    <3>1. i \in DOMAIN s /\ ~ (m <= i)
      BY <1>1, <2>2
    <3> QED
      BY <1>6, <2>1, <3>1
  <2>4. PICK x : Leads(s[m], A, x)
    BY <1>1, <1>2, <1>6, <2>1, <2>2, SomeLeads
  <2>5. RouteRule(x, map).target = Resolve(CategoryOf(raws[m].pol), map)
    BY <1>1, <1>6, <2>2, <2>4 DEF Leads
  <2>6. LinesOK(flat) /\ Leads(flat, A, x)
    BY <1>1, <1>2, <2>2, <2>3, <2>4, FlattenLeads DEF flat
  <2>7. Leads(lines, A, x)
    BY <1>3, <2>6, LeadsJoined
  <2>8. Route(Generate(lines, map), flow) = RouteRule(x, map).target
    BY <1>3, <1>7, <2>7, RouteByFirst
  <2> QED
    BY <1>9, <1>11, <2>5, <2>8 DEF lines, m
<1>12. CASE fitting = {}
  <2>1. \A i \in DOMAIN s : NoneIn(s[i], A)
    BY <1>6, <1>12
  <2> HIDE DEF fitting
  <2>2. LinesOK(flat) /\ NoneIn(flat, A)
    BY <1>2, <2>1, FlattenLeads DEF flat
  <2>3. CASE Finals(raws) = {} \/ last = Nothing
    <3>1. NoneIn(end, A)
      BY <1>10, <2>3 DEF NoneIn
    <3>2. NoneIn(lines, A)
      BY <1>3, <2>2, <3>1, LeadsJoined
    <3>3. Route(Generate(lines, map), flow) = "DIRECT"
      BY <1>3, <1>7, <3>2, RouteByFirst
    <3>4. Resolve("direct", map) = "DIRECT"
      <4>1. "direct" \in DirectWords /\ "direct" \notin RejectWords /\ "direct" \in Words
        BY DEF DirectWords, RejectWords, Words
      <4>2. "direct" \notin Names
        BY <4>1, RouterAssumption DEF RouterAssumption
      <4> QED
        BY <4>1, <4>2 DEF Resolve, Target
    <3> QED
      BY <1>9, <1>12, <2>3, <3>3, <3>4 DEF lines
  <2>4. CASE Finals(raws) # {} /\ last # Nothing
    <3>1. end = <<z>>
      BY <1>10, <2>4
    <3>2. z.typ = "FINAL" /\ z.pol = CategoryOf(last)
      OBVIOUS
    <3> HIDE DEF z
    <3>3. CategoryOf(last) # None
      BY CategoryThere, SmartRulesAssumption DEF SmartRulesAssumption
    <3>4. Fits(RouteRule(z, map), flow) /\ RouteRule(z, map).target = Resolve(CategoryOf(last), map)
      <4>1. PolicyOf(z) = CategoryOf(last)
        BY <3>2, <3>3 DEF PolicyOf
      <4>2. RouteRule(z, map).typ = "MATCH" /\ RouteRule(z, map).target = Resolve(PolicyOf(z), map)
        BY <3>2 DEF RouteRule, SetTypes
      <4> QED
        BY <4>1, <4>2 DEF Fits
    <3>5. DOMAIN <<z>> = {1} /\ <<z>>[1] = z /\ \A j \in 1..1 - 1 : FALSE
      OBVIOUS
    <3>6. Leads(end, A, z)
      BY <1>8, <3>1, <3>4, <3>5 DEF Leads
    <3>7. Leads(lines, A, z)
      BY <1>3, <2>2, <3>6, LeadsJoined
    <3>8. Route(Generate(lines, map), flow) = RouteRule(z, map).target
      BY <1>3, <1>7, <3>7, RouteByFirst
    <3> QED
      BY <1>9, <1>12, <2>4, <3>4, <3>8 DEF lines
  <2> QED
    BY <2>3, <2>4
<1> QED
  BY <1>11, <1>12

\* What import_rules makes of a list sends every flow where the list itself
\* would, whatever types, logical rules and FINALs it has and wherever they
\* stand in it, and whatever other jobs do to the policies meanwhile.
THEOREM ImportsDecideAlike == SmartSpec => []ImportDecidesAlike
<1>1. EditInv => ImportDecidesAlike
  <2> SUFFICES ASSUME EditInv, NEW p \in Procs, job[p].pc # "idle", job[p].op.kind = "import",
                      NEW flow, flow # Nothing
               PROVE  Route(Generate(Convert(job[p].op.raws), policy), flow) =
                        Resolve(RawPolicy(job[p].op.raws, flow), policy)
    BY DEF ImportDecidesAlike
  <2>1. job[p].op \in Ops
    BY DEF EditInv, JobTyped
  <2>2. LinesOK(job[p].op.raws) /\ \A i \in DOMAIN job[p].op.raws : LinesOK(job[p].op.raws[i].members)
    BY <2>1, OpsAssumption DEF OpsAssumption
  <2> QED
    BY <2>2, ConvertDecides
<1> QED
  BY <1>1, EditInvHolds, PTL

-----------------------------------------------------------------------------
(* The parts together.                                                     *)

\* A behaviour of the five parts, of which one has steps, is a behaviour of
\* each part.
LEMMA PartsOfIt ==
  Spec => DialogSpec /\ SmartSpec /\ FirewallSpec /\ GfwSpec /\ ExitIpSpec
<1>1. Init => DialogInit /\ SmartInit /\ FirewallInit /\ GfwInit /\ ExitIpInit
  BY DEF Init
<1>2. [Next]_vars => /\ [DialogNext]_dialogVars /\ [SmartNext]_smartVars
                     /\ [FirewallNext]_firewallVars /\ [GfwNext]_gfwVars /\ [ExitIpNext]_exitIpVars
  BY DEF Next, vars
<1> QED
  BY <1>1, <1>2, PTL DEF Spec, DialogSpec, SmartSpec, FirewallSpec, GfwSpec, ExitIpSpec

\* The dialogs, the files of the rules, the chain of nftables, the additional
\* domains and the address of the exit keep their types side by side.
THEOREM StoresTypeCorrect == Spec => []TypesOK
BY PartsOfIt, DialogTypeCorrect, SmartTypeCorrect, FirewallTypeCorrect, GfwTypeCorrect,
   ExitIpTypeCorrect, PTL DEF TypesOK

\* Whatever the parts do side by side, each keeps what it promises: the files
\* fit each other at rest, an import decides as its list did, a dialog asks
\* once and for what was said in it, a port has one rule of the bot, dnsdist
\* gets the domains of the file, and a fresh address is that of the exit.
THEOREM StoresKeepPromises ==
  Spec => [](/\ AtRestConsistent /\ ImportDecidesAlike
             /\ RuleFromOneDialog /\ OneOperationPerDialog
             /\ AddedOnce /\ ExtrasReachDns /\ ShowsExitInUse)
BY PartsOfIt, AtRestAllFits, ImportsDecideAlike, RulesFromOneDialog, OneOperationEach,
   RuleAddedOnce, ExtrasDoReachDns, ShowsTheExitInUse, PTL

\* And each keeps what it promises of its steps: targets of categories and
\* rules that were not edited stay, and what goes is the rule that was listed
\* or a rule for the port that was pressed.
THEOREM StoresKeepSteps ==
  Spec => PolicyChoiceKept /\ EditKeepsOthers /\ DeletesListedRule /\ ClosesRuleOfPort
BY PartsOfIt, ChoicesKept, EditsKeepOthers, DeletesWhatWasListed, ClosesPressedRule
=============================================================================
