---------------------------- MODULE ExitIpCache -----------------------------
(***************************************************************************)
(* The address under which the proxied traffic leaves, as tgbot.py shows   *)
(* it: a lookup is kept for five minutes, and a switch of the exit by the  *)
(* bot forgets it. Lookups and switches are jobs of the pool, and both     *)
(* take long; the cache is locked only while it is read or written. An     *)
(* address is named after the exit it is seen through.                     *)
(***************************************************************************)
EXTENDS Naturals

CONSTANTS
  Ways,     \* exits, local among them
  Local,
  Lookers,  \* jobs of the pool
  NoIp      \* nothing known, or no lookup service answered

ASSUME ExitIpAssumption == Local \in Ways /\ NoIp \notin Ways

VARIABLES
  inUse,    \* the exit that traffic takes
  cachedIp, \* _EXIT_IP_CACHE
  fresh,    \* _EXIT_IP_TS is less than five minutes ago
  looker,   \* looker[w]: where job w is, and the exit it switches to or has looked up
  crossed,  \* jobs whose lookup is from before a change of the exit
  excused   \* the cache was written by such a job, or the exit changed without the bot

exitIpVars == <<inUse, cachedIp, fresh, looker, crossed, excused>>

Asleep == [pc |-> "idle", exit |-> NoIp]
LookerGoes(w, pc, exit) == looker' = [looker EXCEPT ![w] = [pc |-> pc, exit |-> exit]]

ExitIpTypeOK ==
  /\ inUse \in Ways
  /\ cachedIp \in Ways \cup {NoIp}
  /\ fresh \in BOOLEAN
  /\ looker \in [Lookers -> [pc : {"idle", "ask", "fetch", "store", "switch", "forget"},
                             exit : Ways \cup {NoIp}]]
  /\ \A w \in Lookers : looker[w].pc = "switch" => looker[w].exit \in Ways
  /\ crossed \subseteq {w \in Lookers : looker[w].pc = "store"}
  /\ excused \in BOOLEAN

ExitIpInit ==
  /\ inUse = Local
  /\ cachedIp = NoIp
  /\ fresh = FALSE
  /\ looker = [w \in Lookers |-> Asleep]
  /\ crossed = {}
  /\ excused = FALSE

\* exits_overview_text, for a panel or the command /exits.
BeginShow(w) ==
  /\ looker[w].pc = "idle"
  /\ LookerGoes(w, "ask", NoIp)
  /\ UNCHANGED <<inUse, cachedIp, fresh, crossed, excused>>

\* get_cached_exit_ip: what was found less than five minutes ago will do.
AskCache(w) ==
  /\ looker[w].pc = "ask"
  /\ IF fresh THEN looker' = [looker EXCEPT ![w] = Asleep] ELSE LookerGoes(w, "fetch", NoIp)
  /\ UNCHANGED <<inUse, cachedIp, fresh, crossed, excused>>

\* One of three services answers, or none.
Fetch(w) ==
  /\ looker[w].pc = "fetch"
  /\ \E ip \in {inUse, NoIp} : LookerGoes(w, "store", ip)
  /\ UNCHANGED <<inUse, cachedIp, fresh, crossed, excused>>

\* Whatever was found is kept, that nothing was found too.
StoreIp(w) ==
  /\ looker[w].pc = "store"
  /\ cachedIp' = looker[w].exit
  /\ fresh' = TRUE
  /\ excused' = (w \in crossed)
  /\ crossed' = crossed \ {w}
  /\ looker' = [looker EXCEPT ![w] = Asleep]
  /\ UNCHANGED inUse

FiveMinutes ==
  /\ fresh
  /\ fresh' = FALSE
  /\ UNCHANGED <<inUse, cachedIp, looker, crossed, excused>>

BeginSwitch(w, way) ==
  /\ looker[w].pc = "idle"
  /\ LookerGoes(w, "switch", way)
  /\ UNCHANGED <<inUse, cachedIp, fresh, crossed, excused>>

\* The lookups that have been answered are of the exit before.
Changes(way) ==
  /\ inUse' = way
  /\ crossed' = IF way = inUse THEN crossed ELSE {w \in Lookers : looker[w].pc = "store"}

\* What a bug would do: return for local before the cache is invalidated.
SwitchedUnlessLocal(w) ==
  /\ looker[w].pc = "switch"
  /\ Changes(looker[w].exit)
  /\ looker' = [looker EXCEPT ![w] = IF @.exit = Local THEN Asleep ELSE [@ EXCEPT !.pc = "forget"]]
  /\ UNCHANGED <<cachedIp, fresh, excused>>

\* --set-exit has succeeded.
Switched(w) ==
  /\ looker[w].pc = "switch"
  /\ Changes(looker[w].exit)
  /\ LookerGoes(w, "forget", looker[w].exit)
  /\ UNCHANGED <<cachedIp, fresh, excused>>

\* --set-exit fails or is killed after a minute, before or after the change:
\* the cache is left as it is.
SwitchFails(w) ==
  /\ looker[w].pc = "switch"
  /\ \/ Changes(looker[w].exit) /\ excused' = (excused \/ inUse' # inUse)
     \/ UNCHANGED <<inUse, crossed, excused>>
  /\ looker' = [looker EXCEPT ![w] = Asleep]
  /\ UNCHANGED <<cachedIp, fresh>>

\* invalidate_exit_ip_cache; for any exit but local its address follows.
Invalidate(w) ==
  /\ looker[w].pc = "forget"
  /\ cachedIp' = NoIp
  /\ fresh' = FALSE
  /\ excused' = FALSE
  /\ looker' = [looker EXCEPT ![w] = IF @.exit = Local THEN Asleep ELSE [pc |-> "ask", exit |-> NoIp]]
  /\ UNCHANGED <<inUse, crossed>>

\* A switch from the command line or at boot.
ExitElsewhere(way) ==
  /\ way # inUse /\ Changes(way)
  /\ excused' = TRUE
  /\ UNCHANGED <<cachedIp, fresh, looker>>

\* The bot dies and is started again.
BotRestarts ==
  /\ cachedIp' = NoIp
  /\ fresh' = FALSE
  /\ looker' = [w \in Lookers |-> Asleep]
  /\ crossed' = {}
  /\ excused' = FALSE
  /\ UNCHANGED inUse

ExitIpNext ==
  \/ \E w \in Lookers :
       \/ BeginShow(w) \/ AskCache(w) \/ Fetch(w) \/ StoreIp(w)
       \/ \E way \in Ways : BeginSwitch(w, way)
       \/ Switched(w) \/ SwitchFails(w) \/ Invalidate(w)
  \/ \E way \in Ways : ExitElsewhere(way)
  \/ FiveMinutes \/ BotRestarts

ExitIpSpec == ExitIpInit /\ [][ExitIpNext]_exitIpVars

-----------------------------------------------------------------------------
\* The bot shows the address of another exit than the one in use only until a
\* switch of its own has got to invalidate_exit_ip_cache, or where a lookup
\* answered before a change was stored after it, or where the exit was changed
\* without the bot; however many lookups and switches overlap.
ShowsExitInUse ==
  fresh /\ cachedIp \notin {NoIp, inUse} =>
    excused \/ \E w \in Lookers : looker[w].pc = "forget"
=============================================================================
