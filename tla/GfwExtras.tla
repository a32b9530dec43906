------------------------------ MODULE GfwExtras ------------------------------
(***************************************************************************)
(* The additional domains of the bot: gfwlist-extra-local.txt, which jobs  *)
(* of the pool read, edit and write back, and the configuration of         *)
(* dnsdist, which a rule update makes from it. A job has its own update    *)
(* run when it has written; the nightly timer has others. An update that   *)
(* finds another one under way fails.                                      *)
(***************************************************************************)
EXTENDS Naturals, FiniteSets

CONSTANTS
  Domains,    \* domains to add and to delete
  Writers,    \* jobs of the pool
  Timer,      \* the nightly update
  Nobody,     \* no update has the lock
  MaxJobs     \* bound: jobs and nightly updates

ASSUME GfwAssumption ==
  /\ Timer \notin Writers /\ Nobody \notin Writers \cup {Timer}
  /\ MaxJobs \in Nat

VARIABLES
  extra,    \* the file: a set of domains
  dns,      \* the additional domains dnsdist has
  writer,   \* writer[w]: where w is and the domains it will write or install
  updater,  \* who has LOCK_FILE of update-rules.sh
  behind,   \* an update failed, was refused or never ran, and none has loaded the file since
  begun     \* jobs and nightly updates begun

gfwVars == <<extra, dns, writer, updater, behind, begun>>
Updaters == Writers \cup {Timer}
AtRest == [pc |-> "idle", ask |-> "add", with |-> {}, list |-> {}]

Places == [pc : {"idle", "read", "open", "write", "update", "load", "install"},
           ask : {"add", "del", "import"}, with : SUBSET Domains, list : SUBSET Domains]

GfwTypeOK ==
  /\ extra \subseteq Domains /\ dns \subseteq Domains
  /\ writer \in [Updaters -> Places]
  /\ updater \in Updaters \cup {Nobody}
  /\ \A w \in Updaters : writer[w].pc \in {"load", "install"} <=> updater = w
  /\ behind \in BOOLEAN /\ begun \in 0..MaxJobs

GfwInit ==
  /\ extra \in SUBSET Domains /\ dns = extra
  /\ writer = [w \in Updaters |-> AtRest]
  /\ updater = Nobody
  /\ behind = FALSE
  /\ begun = 0

Goes(w, pc, list) == writer' = [writer EXCEPT ![w].pc = pc, ![w].list = list]
Ends(w) == writer' = [writer EXCEPT ![w] = AtRest]

\* op_gfwlist_add, op_gfwlist_del and op_gfwl_import_set, in a worker; what a
\* download gives is any set of domains.
BeginJob(w, ask, with) ==
  /\ writer[w].pc = "idle" /\ begun < MaxJobs
  /\ begun' = begun + 1
  /\ writer' = [writer EXCEPT ![w] = [pc |-> "read", ask |-> ask, with |-> with, list |-> {}]]
  /\ UNCHANGED <<extra, dns, updater, behind>>

BeginNightly ==
  /\ writer[Timer].pc = "idle" /\ begun < MaxJobs
  /\ begun' = begun + 1
  /\ Goes(Timer, "update", {})
  /\ UNCHANGED <<extra, dns, updater, behind>>

\* A domain that is there already, or that is not there to delete, ends it.
ReadExtra(w) ==
  /\ writer[w].pc = "read"
  /\ LET job == writer[w]
         new == IF job.ask = "del" THEN extra \ job.with ELSE extra \cup job.with
     IN  IF new = extra THEN Ends(w) ELSE Goes(w, "open", new)
  /\ UNCHANGED <<extra, dns, updater, behind, begun>>

\* open(..., "w") empties the file before anything is written.
OpenExtra(w) ==
  /\ writer[w].pc = "open"
  /\ extra' = {}
  /\ Goes(w, "write", writer[w].list)
  /\ UNCHANGED <<dns, updater, behind, begun>>

\* The file cannot be opened, or, once it is empty, not be written: nobody
\* is told, and the update follows.
WriteFails(w) ==
  /\ writer[w].pc \in {"open", "write"}
  /\ Goes(w, "update", {})
  /\ UNCHANGED <<extra, dns, updater, behind, begun>>

\* What a bug would do: count on the update of the night.
WriteExtraOnly(w) ==
  /\ writer[w].pc = "write"
  /\ extra' = writer[w].list
  /\ Ends(w)
  /\ UNCHANGED <<dns, updater, behind, begun>>

WriteExtra(w) ==
  /\ writer[w].pc = "write"
  /\ extra' = writer[w].list
  /\ Goes(w, "update", {})
  /\ UNCHANGED <<dns, updater, behind, begun>>

\* flock -n
BeginUpdate(w) ==
  /\ writer[w].pc = "update" /\ updater = Nobody
  /\ updater' = w
  /\ Goes(w, "load", {})
  /\ UNCHANGED <<extra, dns, behind, begun>>

UpdateRefused(w) ==
  /\ writer[w].pc = "update" /\ updater # Nobody
  /\ behind' = TRUE
  /\ Ends(w)
  /\ UNCHANGED <<extra, dns, updater, begun>>

\* append_local_gfwlist_extras, after the downloads.
LoadExtra(w) ==
  /\ writer[w].pc = "load"
  /\ behind' = FALSE
  /\ Goes(w, "install", extra)
  /\ UNCHANGED <<extra, dns, updater, begun>>

InstallDns(w) ==
  /\ writer[w].pc = "install"
  /\ dns' = writer[w].list
  /\ updater' = Nobody
  /\ Ends(w)
  /\ UNCHANGED <<extra, behind, begun>>

UpdateFails(w) ==
  /\ writer[w].pc \in {"load", "install"}
  /\ updater' = Nobody
  /\ behind' = TRUE
  /\ Ends(w)
  /\ UNCHANGED <<extra, dns, begun>>

\* The bot dies: its jobs are gone, wherever they were.
BotDies ==
  /\ \E w \in Writers : writer[w].pc # "idle"
  /\ behind' = TRUE
  /\ updater' = IF updater \in Writers THEN Nobody ELSE updater
  /\ writer' = [w \in Updaters |-> IF w = Timer THEN writer[w] ELSE AtRest]
  /\ UNCHANGED <<extra, dns, begun>>

GfwNext ==
  \/ \E w \in Writers :
       \/ \E d \in Domains : BeginJob(w, "add", {d}) \/ BeginJob(w, "del", {d})
       \/ \E with \in SUBSET Domains : BeginJob(w, "import", with)
       \/ ReadExtra(w) \/ OpenExtra(w) \/ WriteExtra(w) \/ WriteFails(w)
  \/ BeginNightly
  \/ \E w \in Updaters :
       BeginUpdate(w) \/ UpdateRefused(w) \/ LoadExtra(w) \/ InstallDns(w) \/ UpdateFails(w)
  \/ BotDies

GfwSpec == GfwInit /\ [][GfwNext]_gfwVars

-----------------------------------------------------------------------------
\* Once all jobs have ended, dnsdist has the domains of the file, whatever
\* the order in which op_gfwlist_add, op_gfwlist_del, op_gfwl_import_set and
\* the nightly update wrote it and loaded it, unless an update was refused,
\* failed or died after the file was last loaded.
ExtrasReachDns ==
  (\A w \in Updaters : writer[w].pc = "idle") /\ ~ behind => dns = extra
=============================================================================
