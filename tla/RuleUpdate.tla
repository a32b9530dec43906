----------------------------- MODULE RuleUpdate -----------------------------
(***************************************************************************)
(* The transactional rule update, update-rules.sh: several runs of it (the *)
(* weekly timer, the CLI, the bot) and dnsdist, which they restart and     *)
(* which systemd restarts when it dies.                                    *)
(*                                                                         *)
(* dnsdist.conf holds the GFWList rules and the ChinaList loader as text.  *)
(* The loader asserts that it can read each chunk file it lists, so of the *)
(* ChinaList only the number of chunk files matters: a configuration loads *)
(* if its GFWList rules are Lua and it lists no more chunks than           *)
(* chinalist.d holds.                                                      *)
(***************************************************************************)
EXTENDS Naturals

CONSTANTS
  Updaters,     \* concurrent runs of the script
  GfwLists,     \* contents gfwlist.lua can get
  BadLists,     \* those that are not Lua: a list line may hold a quote
  MaxChunks,    \* largest number of chunk files of a ChinaList
  None

ChunkCounts == 0..MaxChunks
Confs == [gfw : GfwLists, china : ChunkCounts]
Snapshots == [gfw : GfwLists, loader : ChunkCounts, chunks : ChunkCounts \cup {None}, conf : Confs \cup {None}]

ASSUME UpdateAssumption ==
  /\ None \notin Nat
  /\ None \notin Updaters
  /\ None \notin GfwLists \cup Confs \cup Snapshots
  /\ BadLists \subseteq GfwLists
  /\ BadLists # GfwLists
  /\ MaxChunks \in Nat

VARIABLES
  gfw,          \* gfwlist.lua
  loader,       \* chinalist.lua: the number of chunks it lists
  chunks,       \* chinalist.d: the number of chunks in it, None if it does not exist
  conf,         \* dnsdist.conf: the lists it was rendered from, None if it is gone
  holder,       \* the run that holds the lock file
  pc,           \* pc[u]: where run u is
  backup,       \* backup[u]: the copy u made of the files
  fetched,      \* fetched[u]: the ChinaList u has split into a temporary directory
  candidate,    \* candidate[u]: the configuration u has rendered
  faulty,       \* faulty[u]: something has failed in run u
  cut,          \* a run was killed half way, or a copy of its backup failed
  live          \* dnsdist is running

files == <<gfw, loader, chunks, conf>>
vars == <<gfw, loader, chunks, conf, holder, pc, backup, fetched, candidate, faulty, cut, live>>

Points == {"off", "backup", "gfw", "china", "swapOut", "swapIn", "swapLoader", "render",
           "check", "replace", "restart", "confirm", "committed", "trap", "removeChunks",
           "restoreChunks", "trapRestart", "exit"}

\* Where run u is between taking the lock and its end.
Transaction == Points \ {"off", "trap", "trapRestart", "exit"}

TypeOK ==
  /\ gfw \in GfwLists
  /\ loader \in ChunkCounts
  /\ chunks \in ChunkCounts \cup {None}
  /\ conf \in Confs \cup {None}
  /\ holder \in Updaters \cup {None}
  /\ pc \in [Updaters -> Points]
  /\ backup \in [Updaters -> Snapshots \cup {None}]
  /\ fetched \in [Updaters -> ChunkCounts]
  /\ candidate \in [Updaters -> Confs \cup {None}]
  /\ faulty \in [Updaters -> BOOLEAN]
  /\ cut \in BOOLEAN
  /\ live \in BOOLEAN
  /\ \A u \in Updaters : pc[u] \in Transaction => holder = u

\* After a successful update everything is there; install_dnsdist, the first
\* time or again, writes a configuration without rules and no chunks.
Init ==
  /\ gfw \in GfwLists \ BadLists
  /\ loader \in ChunkCounts
  /\ chunks \in {None, loader}
  /\ chunks = None => loader = 0
  /\ \/ conf = [gfw |-> gfw, china |-> loader]
     \/ \E g \in GfwLists \ BadLists : conf = [gfw |-> g, china |-> 0]
  /\ holder = None
  /\ pc = [u \in Updaters |-> "off"]
  /\ backup = [u \in Updaters |-> None]
  /\ fetched = [u \in Updaters |-> 0]
  /\ candidate = [u \in Updaters |-> None]
  /\ faulty = [u \in Updaters |-> FALSE]
  /\ cut = FALSE
  /\ live = TRUE

Snapshot == [gfw |-> gfw, loader |-> loader, chunks |-> chunks, conf |-> conf]

\* The configuration is there and is Lua, and assert(loadfile(chunk)) holds
\* for each chunk it lists.
Loads(c) ==
  /\ c # None
  /\ c.gfw \notin BadLists
  /\ c.china = 0 \/ (chunks # None /\ c.china <= chunks)

Goto(u, from, to) ==
  /\ pc[u] = from
  /\ pc' = [pc EXCEPT ![u] = to]

\* The script's own exit 1, or a command that fails under set -e.
Fails(u, from) ==
  /\ Goto(u, from, "trap")
  /\ faulty' = [faulty EXCEPT ![u] = TRUE]
  /\ UNCHANGED <<gfw, loader, chunks, conf, holder, backup, fetched, candidate, cut, live>>

-----------------------------------------------------------------------------
(* begin_transaction.                                                      *)

\* What a bug would do: go on without the lock.
BeginUnlocked(u) ==
  /\ Goto(u, "off", "backup")
  /\ holder' = u
  /\ UNCHANGED <<files, backup, fetched, candidate, faulty, cut, live>>

Begin(u) ==
  /\ holder = None
  /\ Goto(u, "off", "backup")
  /\ holder' = u
  /\ UNCHANGED <<files, backup, fetched, candidate, faulty, cut, live>>

\* flock -n fails: the exit runs the trap like any other.
BeginRefused(u) ==
  /\ holder # None
  /\ Fails(u, "off")

\* The copy of chinalist.d is the function's last command: without that
\* directory the function returns 1 and set -e ends the script.
Backup(u) ==
  /\ Goto(u, "backup", IF chunks = None THEN "trap" ELSE "gfw")
  /\ backup' = [backup EXCEPT ![u] = Snapshot]
  /\ UNCHANGED <<files, holder, fetched, candidate, faulty, cut, live>>

\* A copy fails, on a full disk say: the trap finds a backup without
\* dnsdist.conf, the last file copied, and without chinalist.d. The two lists,
\* which every run rewrites, are taken to be in it.
BackupFails(u) ==
  /\ Goto(u, "backup", "trap")
  /\ backup' = [backup EXCEPT ![u] = [Snapshot EXCEPT !.conf = None, !.chunks = None]]
  /\ faulty' = [faulty EXCEPT ![u] = TRUE]
  /\ cut' = TRUE
  /\ UNCHANGED <<files, holder, fetched, candidate, live>>

-----------------------------------------------------------------------------
(* The lists and the configuration.                                        *)

\* Downloaded and parsed, or kept when the download fails; the local extras
\* and the domains of the default rules are appended in either case.
WriteGfw(u) ==
  /\ Goto(u, "gfw", "china")
  /\ gfw' \in GfwLists
  /\ UNCHANGED <<loader, chunks, conf, holder, backup, fetched, candidate, faulty, cut, live>>

KeepChina(u) ==
  /\ Goto(u, "china", "render")
  /\ UNCHANGED <<files, holder, backup, fetched, candidate, faulty, cut, live>>

FetchChina(u) ==
  /\ Goto(u, "china", "swapOut")
  /\ \E n \in ChunkCounts : fetched' = [fetched EXCEPT ![u] = n]
  /\ UNCHANGED <<files, holder, backup, candidate, faulty, cut, live>>

\* install_chinalist_chunks: the live directory goes, the new one comes, then
\* the loader that fits it.
SwapOut(u) ==
  /\ Goto(u, "swapOut", "swapIn")
  /\ chunks' = None
  /\ UNCHANGED <<gfw, loader, conf, holder, backup, fetched, candidate, faulty, cut, live>>

SwapIn(u) ==
  /\ Goto(u, "swapIn", "swapLoader")
  /\ chunks' = fetched[u]
  /\ UNCHANGED <<gfw, loader, conf, holder, backup, fetched, candidate, faulty, cut, live>>

SwapLoader(u) ==
  /\ Goto(u, "swapLoader", "render")
  /\ loader' = fetched[u]
  /\ UNCHANGED <<gfw, chunks, conf, holder, backup, fetched, candidate, faulty, cut, live>>

Render(u) ==
  /\ Goto(u, "render", "check")
  /\ candidate' = [candidate EXCEPT ![u] = [gfw |-> gfw, china |-> loader]]
  /\ UNCHANGED <<files, holder, backup, fetched, faulty, cut, live>>

\* What a bug would do: commit without dnsdist --check-config.
CheckNothing(u) ==
  /\ Goto(u, "check", "replace")
  /\ UNCHANGED <<files, holder, backup, fetched, candidate, faulty, cut, live>>

\* dnsdist --check-config reads the chunks as a start would.
Check(u) ==
  /\ Loads(candidate[u])
  /\ Goto(u, "check", "replace")
  /\ UNCHANGED <<files, holder, backup, fetched, candidate, faulty, cut, live>>

Replace(u) ==
  /\ Goto(u, "replace", "restart")
  /\ conf' = candidate[u]
  /\ UNCHANGED <<gfw, loader, chunks, holder, backup, fetched, candidate, faulty, cut, live>>

\* systemctl restart or start, and once more if dnsdist is not active.
Restart(u) ==
  /\ Goto(u, "restart", "confirm")
  /\ live' = Loads(conf)
  /\ UNCHANGED <<files, holder, backup, fetched, candidate, faulty, cut>>

Confirm(u) ==
  /\ live
  /\ Goto(u, "confirm", "committed")
  /\ UNCHANGED <<files, holder, backup, fetched, candidate, faulty, cut, live>>

\* A command fails under set -e (no template, no dnsdist, no room), or a check
\* of the script's own.
Abort(u) == \E at \in Transaction \ {"backup", "committed", "removeChunks", "restoreChunks"} : Fails(u, at)

CheckFails(u) ==
  /\ ~ Loads(candidate[u])
  /\ Fails(u, "check")

ConfirmFails(u) ==
  /\ ~ live
  /\ Fails(u, "confirm")

-----------------------------------------------------------------------------
(* finish_transaction, the EXIT trap, for a run that did not commit.       *)

\* What a bug would do: restore the lists but not dnsdist.conf.
RollFilesNoConf(u) ==
  /\ Goto(u, "trap", IF backup[u] = None THEN "trapRestart" ELSE "removeChunks")
  /\ IF backup[u] = None
     THEN UNCHANGED <<gfw, loader>>
     ELSE gfw' = backup[u].gfw /\ loader' = backup[u].loader
  /\ UNCHANGED <<chunks, conf, holder, backup, fetched, candidate, faulty, cut, live>>

\* Without a backup, as for a run that was refused the lock, there is nothing
\* to restore.
RollFiles(u) ==
  /\ Goto(u, "trap", IF backup[u] = None THEN "trapRestart" ELSE "removeChunks")
  /\ IF backup[u] = None
     THEN UNCHANGED <<gfw, loader, conf>>
     ELSE gfw' = backup[u].gfw /\ loader' = backup[u].loader /\ conf' = backup[u].conf
  /\ UNCHANGED <<chunks, holder, backup, fetched, candidate, faulty, cut, live>>

RemoveChunks(u) ==
  /\ Goto(u, "removeChunks", "restoreChunks")
  /\ chunks' = None
  /\ UNCHANGED <<gfw, loader, conf, holder, backup, fetched, candidate, faulty, cut, live>>

\* Without a chinalist.d in the backup the function returns 1 and set -e ends
\* the trap too, before the restart.
RestoreChunks(u) ==
  /\ Goto(u, "restoreChunks", IF backup[u].chunks = None THEN "exit" ELSE "trapRestart")
  /\ chunks' = backup[u].chunks
  /\ UNCHANGED <<gfw, loader, conf, holder, backup, fetched, candidate, faulty, cut, live>>

\* systemctl restart dnsdist || true.
TrapRestart(u) ==
  /\ Goto(u, "trapRestart", "exit")
  /\ live' = Loads(conf)
  /\ UNCHANGED <<files, holder, backup, fetched, candidate, faulty, cut>>

\* The end of a process closes its lock file.
Ended(u) ==
  /\ pc' = [pc EXCEPT ![u] = "off"]
  /\ holder' = IF holder = u THEN None ELSE holder
  /\ backup' = [backup EXCEPT ![u] = None]
  /\ fetched' = [fetched EXCEPT ![u] = 0]
  /\ candidate' = [candidate EXCEPT ![u] = None]
  /\ faulty' = [faulty EXCEPT ![u] = FALSE]
  /\ UNCHANGED <<files, live>>

Exit(u) ==
  /\ pc[u] \in {"committed", "exit"}
  /\ Ended(u)
  /\ UNCHANGED cut

\* SIGKILL, or the power goes: no trap.
Kill(u) ==
  /\ pc[u] # "off"
  /\ Ended(u)
  /\ cut' = TRUE

-----------------------------------------------------------------------------
(* dnsdist under systemd.                                                  *)

Crash ==
  /\ live
  /\ live' = FALSE
  /\ UNCHANGED <<files, holder, pc, backup, fetched, candidate, faulty, cut>>

\* Restart=always.
AutoStart ==
  /\ ~ live
  /\ Loads(conf)
  /\ live' = TRUE
  /\ UNCHANGED <<files, holder, pc, backup, fetched, candidate, faulty, cut>>

-----------------------------------------------------------------------------
Progress(u) ==
  \/ Backup(u)
  \/ WriteGfw(u) \/ KeepChina(u) \/ FetchChina(u)
  \/ SwapOut(u) \/ SwapIn(u) \/ SwapLoader(u)
  \/ Render(u) \/ Check(u) \/ CheckFails(u)
  \/ Replace(u) \/ Restart(u) \/ Confirm(u) \/ ConfirmFails(u)
  \/ RollFiles(u) \/ RemoveChunks(u) \/ RestoreChunks(u) \/ TrapRestart(u)
  \/ Exit(u)

Update(u) ==
  \/ Begin(u) \/ BeginRefused(u)
  \/ Progress(u)
  \/ BackupFails(u) \/ Abort(u) \/ Kill(u)

Next == (\E u \in Updaters : Update(u)) \/ Crash \/ AutoStart

\* The kernel schedules a script that has started, its downloads time out,
\* and systemd retries every three seconds for ever; nothing starts a run.
Fairness ==
  /\ \A u \in Updaters : WF_vars(Progress(u))
  /\ WF_vars(AutoStart)

Spec == Init /\ [][Next]_vars /\ Fairness

-----------------------------------------------------------------------------
(* Properties.                                                             *)

\* Outside a transaction the files dnsdist starts from fit each other: it can
\* be restarted, and the next run can render from the lists there are.
Servable ==
  holder = None /\ ~ cut =>
    /\ Loads(conf)
    /\ Loads([gfw |-> gfw, china |-> loader])

\* "refusing to commit an unvalidated configuration": from the replacement to
\* the commit dnsdist.conf is one that loads, whoever else runs.
OnlyValidated ==
  \A u \in Updaters : pc[u] \in {"restart", "confirm", "committed"} => Loads(conf)

\* What a reader of the files is promised: the state before the transaction
\* until it commits, the new state from then on.
Promised ==
  IF holder = None THEN Snapshot
  ELSE IF backup[holder] = None \/ pc[holder] = "committed" THEN Snapshot
  ELSE backup[holder]

\* All or nothing: the four files change together, by a commit and by nothing
\* else. A run that fails anywhere puts back what it found, and no second run
\* or refused run disturbs that.
AllOrNothing ==
  [][cut' \/ Promised' = Promised
     \/ \E u \in Updaters : pc[u] = "confirm" /\ pc'[u] = "committed"]_vars

\* However often dnsdist dies, updates fail and refused runs restart it between
\* two steps of another's swap, it is up again and again.
DnsComesBack == [](~ cut) => []<>live

\* "Rule update failed, will retry later" (install.sh, init_rules): a run gives
\* up because something failed in it. It also gives up, always, where there is
\* no chinalist.d yet.
FailsOnlyForCause == \A u \in Updaters : pc[u] = "trap" => faulty[u]
=============================================================================
