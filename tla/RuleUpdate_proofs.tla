------------------------- MODULE RuleUpdate_proofs -------------------------
(***************************************************************************)
(* RuleUpdate keeps TypeOK, OnlyValidated and Servable, and its steps are  *)
(* AllOrNothing, for any number of runs, lists and chunk files.            *)
(*                                                                         *)
(* IInv says what the lock and the trap are for: only the holder of the    *)
(* lock has a backup and changes files (Holding), the backup is of files   *)
(* that fit each other (Fitting), and the trap has put back as much of it  *)
(* as its place says (Restored).                                           *)
(***************************************************************************)
EXTENDS RuleUpdate, TLAPS

\* A backup belongs to the holder of the lock, who has one as soon as it is
\* past begin_transaction.
Holding ==
  \A u \in Updaters :
    /\ backup[u] # None => holder = u
    /\ holder = u => pc[u] # "off" /\ (pc[u] = "backup" \/ backup[u] # None)
    /\ pc[u] = "backup" => backup[u] = None

\* The candidate passed dnsdist --check-config and still would.
Validated ==
  \A u \in Updaters : pc[u] = "replace" => Loads(candidate[u])

\* rollback_transaction, from its first copy to its last.
Restored ==
  ~ cut => \A u \in Updaters :
    /\ pc[u] \in {"removeChunks", "restoreChunks"} =>
         gfw = backup[u].gfw /\ loader = backup[u].loader /\ conf = backup[u].conf
    /\ pc[u] \in {"trapRestart", "exit"} /\ holder = u => Snapshot = backup[u]

\* The configuration c would load if the files were those of s.
LoadsFrom(c, s) ==
  /\ c # None
  /\ c.gfw \notin BadLists
  /\ c.china = 0 \/ (s.chunks # None /\ c.china <= s.chunks)

\* The files a run found, those it saved and those it is about to commit.
Fitting ==
  /\ Servable
  /\ ~ cut => \A u \in Updaters :
       /\ pc[u] = "backup" => Loads(conf) /\ Loads([gfw |-> gfw, china |-> loader])
       /\ backup[u] # None =>
            /\ LoadsFrom(backup[u].conf, backup[u])
            /\ LoadsFrom([gfw |-> backup[u].gfw, china |-> backup[u].loader], backup[u])
       /\ pc[u] \in {"check", "replace"} => candidate[u] = [gfw |-> gfw, china |-> loader]
       /\ pc[u] \in {"restart", "confirm", "committed"} => conf = [gfw |-> gfw, china |-> loader]

IInv == TypeOK /\ Holding /\ Validated /\ OnlyValidated /\ Restored /\ Fitting

\* What begin_transaction saves, in part or whole, is a backup and not None.
LEMMA SavedTypes ==
  ASSUME TypeOK
  PROVE  /\ Snapshot \in Snapshots /\ Snapshot # None
         /\ [Snapshot EXCEPT !.conf = None, !.chunks = None] \in Snapshots
         /\ [Snapshot EXCEPT !.conf = None, !.chunks = None] # None
<1>1. Snapshot \in Snapshots
  BY DEF TypeOK, Snapshot, Snapshots
<1>2. [Snapshot EXCEPT !.conf = None, !.chunks = None] \in Snapshots
  BY <1>1 DEF Snapshots
<1> QED  BY <1>1, <1>2, UpdateAssumption

\* A step of a run keeps the types and the lock: whoever is in the middle of
\* a transaction holds it. RestoreChunks needs Holding: there is a backup.
LEMMA TypeStep ==
  ASSUME IInv, NEW u \in Updaters, Update(u)
  PROVE  TypeOK'
<1>1. CASE KeepChina(u) \/ Check(u) \/ CheckFails(u) \/ Confirm(u) \/ ConfirmFails(u)
  <2>1. CASE KeepChina(u)
    BY <2>1, UpdateAssumption DEF KeepChina, Goto, IInv, TypeOK, files, Transaction, Points
  <2>2. CASE Check(u)
    BY <2>2, UpdateAssumption DEF Check, Goto, IInv, TypeOK, files, Transaction, Points
  <2>3. CASE CheckFails(u) \/ ConfirmFails(u)
    BY <2>3, UpdateAssumption DEF CheckFails, ConfirmFails, Fails, Goto, IInv, TypeOK,
        Transaction, Points
  <2>4. CASE Confirm(u)
    BY <2>4, UpdateAssumption DEF Confirm, Goto, IInv, TypeOK, files, Transaction, Points
  <2> QED
    BY <1>1, <2>1, <2>2, <2>3, <2>4
<1>2. CASE BeginRefused(u)
  BY <1>2, UpdateAssumption DEF BeginRefused, Fails, Goto, IInv, TypeOK, Holding, files,
      Transaction, Points
<1>3. CASE FetchChina(u)
  BY <1>3, UpdateAssumption DEF FetchChina, Goto, IInv, TypeOK, Holding, files, Transaction,
      Points
<1>4. CASE Render(u)
  BY <1>4, UpdateAssumption DEF Render, Goto, IInv, TypeOK, Holding, files, Transaction,
      Points, ChunkCounts, Confs, Snapshots, Snapshot
<1>5. CASE Restart(u)
  BY <1>5, UpdateAssumption DEF Restart, Goto, IInv, TypeOK, Holding, files, Transaction,
      Points, Loads
<1>6. CASE Abort(u)
  BY <1>6, UpdateAssumption DEF Abort, Fails, Goto, IInv, TypeOK, Holding, files,
      Transaction, Points
<1>7. CASE TrapRestart(u)
  BY <1>7, UpdateAssumption DEF TrapRestart, Goto, IInv, TypeOK, Holding, files,
      Transaction, Points, Loads
<1>8. CASE WriteGfw(u) \/ SwapOut(u) \/ SwapIn(u) \/ SwapLoader(u) \/ Replace(u)
  BY <1>8, UpdateAssumption DEF WriteGfw, SwapOut, SwapIn, SwapLoader, Replace, Goto, IInv,
      TypeOK, Holding, files, Transaction, Points
<1>9. CASE RollFiles(u) \/ RemoveChunks(u) \/ RestoreChunks(u)
  BY <1>9, UpdateAssumption DEF RollFiles, RemoveChunks, RestoreChunks, Goto, IInv, TypeOK,
      Holding, files, Transaction, Points, ChunkCounts, Confs, Snapshots, Snapshot
<1>10. CASE Begin(u)
  BY <1>10, UpdateAssumption DEF Begin, Goto, IInv, TypeOK, Holding, files, Transaction,
      Points
<1>11. CASE Backup(u)
  BY <1>11, UpdateAssumption DEF Backup, Goto, IInv, TypeOK, Holding, files, Transaction,
      Points, ChunkCounts, Confs, Snapshots, Snapshot
<1>12. CASE BackupFails(u)
  BY <1>12, UpdateAssumption DEF BackupFails, Goto, IInv, TypeOK, Holding, files,
      Transaction, Points, ChunkCounts, Confs, Snapshots, Snapshot
<1>13. CASE Exit(u)
  BY <1>13, UpdateAssumption DEF Exit, Ended, IInv, TypeOK, Holding, files, Transaction,
      Points, ChunkCounts, Confs, Snapshots, Snapshot
<1>14. CASE Kill(u)
  BY <1>14, UpdateAssumption DEF Kill, Ended, IInv, TypeOK, Holding, files, Transaction,
      Points, ChunkCounts, Confs, Snapshots, Snapshot
<1> QED  BY <1>1, <1>2, <1>3, <1>4, <1>5, <1>6, <1>7, <1>8, <1>9, <1>10, <1>11, <1>12,
      <1>13, <1>14 DEF Update, Progress

\* A step of a run keeps Holding.
LEMMA HoldingStep ==
  ASSUME IInv, TypeOK', NEW u \in Updaters, Update(u)
  PROVE  Holding'
<1>1. CASE BeginRefused(u) \/ KeepChina(u) \/ FetchChina(u) \/ Render(u) \/ Check(u) \/
          CheckFails(u) \/ Restart(u) \/ Confirm(u) \/ ConfirmFails(u) \/ Abort(u) \/
          TrapRestart(u)
  BY <1>1, UpdateAssumption DEF BeginRefused, KeepChina, FetchChina, Render, Check,
      CheckFails, Restart, Confirm, ConfirmFails, Abort, TrapRestart, Fails, Goto, IInv,
      TypeOK, Holding, files, Transaction, Points
<1>2. CASE WriteGfw(u) \/ SwapOut(u) \/ SwapIn(u) \/ SwapLoader(u) \/ Replace(u)
  BY <1>2, UpdateAssumption DEF WriteGfw, SwapOut, SwapIn, SwapLoader, Replace, Goto, IInv,
      TypeOK, Holding, files, Transaction, Points
<1>3. CASE RollFiles(u) \/ RemoveChunks(u) \/ RestoreChunks(u)
  BY <1>3, UpdateAssumption DEF RollFiles, RemoveChunks, RestoreChunks, Goto, IInv, TypeOK,
      Holding, files, Transaction, Points
<1>4. CASE Begin(u)
  BY <1>4, UpdateAssumption DEF Begin, Goto, IInv, TypeOK, Holding, files, Transaction,
      Points
<1>5. CASE Backup(u)
  BY <1>5, UpdateAssumption, SavedTypes DEF Backup, Goto, IInv, TypeOK, Holding, files,
      Transaction, Points
<1>6. CASE BackupFails(u)
  BY <1>6, UpdateAssumption, SavedTypes DEF BackupFails, Goto, IInv, TypeOK, Holding, files,
      Transaction, Points
<1>7. CASE Exit(u)
  BY <1>7, UpdateAssumption DEF Exit, Ended, IInv, TypeOK, Holding, files, Transaction,
      Points
<1>8. CASE Kill(u)
  BY <1>8, UpdateAssumption DEF Kill, Ended, IInv, TypeOK, Holding, files, Transaction,
      Points
<1> QED  BY <1>1, <1>2, <1>3, <1>4, <1>5, <1>6, <1>7, <1>8 DEF Update, Progress

\* What dnsdist --check-config accepted stays acceptable until the commit:
\* only the holder of the lock touches the chunk files.
LEMMA ValidatedStep ==
  ASSUME IInv, TypeOK', Holding', NEW u \in Updaters, Update(u)
  PROVE  Validated' /\ OnlyValidated'
<1>1. CASE BeginRefused(u) \/ KeepChina(u) \/ FetchChina(u) \/ CheckFails(u) \/ Confirm(u)
          \/ ConfirmFails(u)
  BY <1>1, UpdateAssumption DEF BeginRefused, KeepChina, FetchChina, CheckFails, Confirm,
      ConfirmFails, Fails, Goto, IInv, TypeOK, Holding, Validated, OnlyValidated, Loads,
      files, Transaction, Points
<1>2. CASE Render(u)
  BY <1>2, UpdateAssumption DEF Render, Goto, IInv, TypeOK, Holding, Validated,
      OnlyValidated, Loads, files, Transaction, Points
<1>3. CASE Check(u)
  BY <1>3, UpdateAssumption DEF Check, Goto, IInv, TypeOK, Holding, Validated,
      OnlyValidated, Loads, files, Transaction, Points
<1>4. CASE Restart(u)
  BY <1>4, UpdateAssumption DEF Restart, Goto, IInv, TypeOK, Holding, Validated,
      OnlyValidated, Loads, files, Transaction, Points
<1>5. CASE Abort(u)
  BY <1>5, UpdateAssumption DEF Abort, Fails, Goto, IInv, TypeOK, Holding, Validated,
      OnlyValidated, Loads, files, Transaction, Points
<1>6. CASE TrapRestart(u)
  BY <1>6, UpdateAssumption DEF TrapRestart, Goto, IInv, TypeOK, Holding, Validated,
      OnlyValidated, Loads, files, Transaction, Points
<1>7. CASE WriteGfw(u) \/ SwapOut(u) \/ SwapIn(u) \/ SwapLoader(u) \/ Replace(u)
  BY <1>7, UpdateAssumption DEF WriteGfw, SwapOut, SwapIn, SwapLoader, Replace, Goto, IInv,
      TypeOK, Holding, Validated, OnlyValidated, Loads, files, Transaction, Points
<1>8. CASE RollFiles(u) \/ RemoveChunks(u) \/ RestoreChunks(u)
  BY <1>8, UpdateAssumption DEF RollFiles, RemoveChunks, RestoreChunks, Goto, IInv, TypeOK,
      Holding, Validated, OnlyValidated, Loads, files, Transaction, Points
<1>9. CASE Begin(u)
  BY <1>9, UpdateAssumption DEF Begin, Goto, IInv, TypeOK, Holding, Validated,
      OnlyValidated, Loads, files, Transaction, Points
<1>10. CASE Backup(u)
  BY <1>10, UpdateAssumption DEF Backup, Goto, IInv, TypeOK, Holding, Validated,
      OnlyValidated, Loads, files, Transaction, Points
<1>11. CASE BackupFails(u)
  BY <1>11, UpdateAssumption DEF BackupFails, Goto, IInv, TypeOK, Holding, Validated,
      OnlyValidated, Loads, files, Transaction, Points
<1>12. CASE Exit(u)
  BY <1>12, UpdateAssumption DEF Exit, Ended, IInv, TypeOK, Holding, Validated,
      OnlyValidated, Loads, files, Transaction, Points
<1>13. CASE Kill(u)
  BY <1>13, UpdateAssumption DEF Kill, Ended, IInv, TypeOK, Holding, Validated,
      OnlyValidated, Loads, files, Transaction, Points
<1> QED  BY <1>1, <1>2, <1>3, <1>4, <1>5, <1>6, <1>7, <1>8, <1>9, <1>10, <1>11, <1>12, <1>13
      DEF Update, Progress

\* The trap puts back, file by file, what the backup holds.
LEMMA RestoredStep ==
  ASSUME IInv, TypeOK', Holding', NEW u \in Updaters, Update(u)
  PROVE  Restored'
<1>1. CASE BeginRefused(u) \/ KeepChina(u) \/ FetchChina(u) \/ Render(u) \/ Check(u) \/
          CheckFails(u) \/ Restart(u) \/ Confirm(u) \/ ConfirmFails(u) \/ Abort(u) \/
          TrapRestart(u)
  BY <1>1, UpdateAssumption DEF BeginRefused, KeepChina, FetchChina, Render, Check,
      CheckFails, Restart, Confirm, ConfirmFails, Abort, TrapRestart, Fails, Goto, IInv,
      TypeOK, Holding, Restored, Snapshot, files, Transaction, Points
<1>2. CASE WriteGfw(u) \/ SwapOut(u) \/ SwapIn(u) \/ SwapLoader(u) \/ Replace(u)
  BY <1>2, UpdateAssumption DEF WriteGfw, SwapOut, SwapIn, SwapLoader, Replace, Goto, IInv,
      TypeOK, Holding, Restored, Snapshot, files, Transaction, Points
<1>3. CASE RollFiles(u) \/ RemoveChunks(u) \/ RestoreChunks(u)
  BY <1>3, UpdateAssumption DEF RollFiles, RemoveChunks, RestoreChunks, Goto, IInv, TypeOK,
      Holding, Restored, Snapshot, files, Transaction, Points, Snapshots
<1>4. CASE Begin(u)
  BY <1>4, UpdateAssumption DEF Begin, Goto, IInv, TypeOK, Holding, Restored, Snapshot,
      files, Transaction, Points
<1>5. CASE Backup(u)
  BY <1>5, UpdateAssumption DEF Backup, Goto, IInv, TypeOK, Holding, Restored, Snapshot,
      files, Transaction, Points
<1>6. CASE BackupFails(u)
  BY <1>6, UpdateAssumption DEF BackupFails, Goto, IInv, TypeOK, Holding, Restored,
      Snapshot, files, Transaction, Points
<1>7. CASE Exit(u)
  BY <1>7, UpdateAssumption DEF Exit, Ended, IInv, TypeOK, Holding, Restored, Snapshot,
      files, Transaction, Points
<1>8. CASE Kill(u)
  BY <1>8, UpdateAssumption DEF Kill, Ended, IInv, TypeOK, Holding, Restored, Snapshot,
      files, Transaction, Points
<1> QED  BY <1>1, <1>2, <1>3, <1>4, <1>5, <1>6, <1>7, <1>8 DEF Update, Progress

\* What is backed up or committed fits together, so what is restored does.
LEMMA FittingStep ==
  ASSUME IInv, TypeOK', Holding', NEW u \in Updaters, Update(u)
  PROVE  Fitting'
<1>1. CASE KeepChina(u) \/ CheckFails(u) \/ Confirm(u) \/ ConfirmFails(u)
  BY <1>1, UpdateAssumption DEF KeepChina, CheckFails, Confirm, ConfirmFails, Fails, Goto,
      IInv, TypeOK, Holding, Restored, Fitting, Servable, Loads, LoadsFrom, Snapshot, files,
      Transaction, Points
<1>2. CASE BeginRefused(u)
  BY <1>2, UpdateAssumption DEF BeginRefused, Fails, Goto, IInv, TypeOK, Holding, Restored,
      Fitting, Servable, Loads, LoadsFrom, Snapshot, files, Transaction, Points
<1>3. CASE FetchChina(u)
  BY <1>3, UpdateAssumption DEF FetchChina, Goto, IInv, TypeOK, Holding, Restored, Fitting,
      Servable, Loads, LoadsFrom, Snapshot, files, Transaction, Points
<1>4. CASE Render(u)
  BY <1>4, UpdateAssumption DEF Render, Goto, IInv, TypeOK, Holding, Restored, Fitting,
      Servable, Loads, LoadsFrom, Snapshot, files, Transaction, Points
<1>5. CASE Check(u)
  BY <1>5, UpdateAssumption DEF Check, Goto, IInv, TypeOK, Holding, Restored, Fitting,
      Servable, Loads, LoadsFrom, Snapshot, files, Transaction, Points
<1>6. CASE Restart(u)
  BY <1>6, UpdateAssumption DEF Restart, Goto, IInv, TypeOK, Holding, Restored, Fitting,
      Servable, Loads, LoadsFrom, Snapshot, files, Transaction, Points
<1>7. CASE Abort(u)
  BY <1>7, UpdateAssumption DEF Abort, Fails, Goto, IInv, TypeOK, Holding, Restored,
      Fitting, Servable, Loads, LoadsFrom, Snapshot, files, Transaction, Points
<1>8. CASE TrapRestart(u)
  BY <1>8, UpdateAssumption DEF TrapRestart, Goto, IInv, TypeOK, Holding, Restored, Fitting,
      Servable, Loads, LoadsFrom, Snapshot, files, Transaction, Points
<1>9. CASE WriteGfw(u) \/ SwapOut(u) \/ SwapIn(u) \/ SwapLoader(u) \/ Replace(u)
  BY <1>9, UpdateAssumption DEF WriteGfw, SwapOut, SwapIn, SwapLoader, Replace, Goto, IInv,
      TypeOK, Holding, Restored, Fitting, Servable, Loads, LoadsFrom, Snapshot, files,
      Transaction, Points
<1>10. CASE RollFiles(u) \/ RemoveChunks(u) \/ RestoreChunks(u)
  BY <1>10, UpdateAssumption DEF RollFiles, RemoveChunks, RestoreChunks, Goto, IInv, TypeOK,
      Holding, Restored, Fitting, Servable, Loads, LoadsFrom, Snapshot, files, Transaction,
      Points
<1>11. CASE Begin(u)
  BY <1>11, UpdateAssumption DEF Begin, Goto, IInv, TypeOK, Holding, Restored, Fitting,
      Servable, Loads, LoadsFrom, Snapshot, files, Transaction, Points
<1>12. CASE Backup(u)
  BY <1>12, UpdateAssumption DEF Backup, Goto, IInv, TypeOK, Holding, Restored, Fitting,
      Servable, Loads, LoadsFrom, Snapshot, files, Transaction, Points
<1>13. CASE BackupFails(u)
  BY <1>13, UpdateAssumption DEF BackupFails, Goto, IInv, TypeOK, Holding, Restored,
      Fitting, Servable, Loads, LoadsFrom, Snapshot, files, Transaction, Points
<1>14. CASE Exit(u)
  BY <1>14, UpdateAssumption DEF Exit, Ended, IInv, TypeOK, Holding, Restored, Fitting,
      Servable, Loads, LoadsFrom, Snapshot, files, Transaction, Points, OnlyValidated
<1>15. CASE Kill(u)
  BY <1>15, UpdateAssumption DEF Kill, Ended, IInv, TypeOK, Holding, Restored, Fitting,
      Servable, Loads, LoadsFrom, Snapshot, files, Transaction, Points
<1> QED  BY <1>1, <1>2, <1>3, <1>4, <1>5, <1>6, <1>7, <1>8, <1>9, <1>10, <1>11, <1>12,
      <1>13, <1>14, <1>15 DEF Update, Progress

\* Only a commit changes what the files promise.
LEMMA PromisedStep ==
  ASSUME IInv, IInv', NEW u \in Updaters, Update(u)
  PROVE  \/ cut' \/ Promised' = Promised
         \/ pc[u] = "confirm" /\ pc'[u] = "committed"
<1>1. CASE BeginRefused(u) \/ KeepChina(u) \/ FetchChina(u) \/ Render(u) \/ Check(u) \/
          CheckFails(u) \/ Restart(u) \/ Confirm(u) \/ ConfirmFails(u) \/ Abort(u) \/
          TrapRestart(u)
  BY <1>1, UpdateAssumption DEF BeginRefused, KeepChina, FetchChina, Render, Check,
      CheckFails, Restart, Confirm, ConfirmFails, Abort, TrapRestart, Fails, Goto, IInv,
      TypeOK, Holding, Restored, Snapshot, Promised, files, Transaction, Points
<1>2. CASE WriteGfw(u) \/ SwapOut(u) \/ SwapIn(u) \/ SwapLoader(u) \/ Replace(u)
  BY <1>2, UpdateAssumption DEF WriteGfw, SwapOut, SwapIn, SwapLoader, Replace, Goto, IInv,
      TypeOK, Holding, Restored, Snapshot, Promised, files, Transaction, Points
<1>3. CASE RollFiles(u) \/ RemoveChunks(u) \/ RestoreChunks(u)
  BY <1>3, UpdateAssumption DEF RollFiles, RemoveChunks, RestoreChunks, Goto, IInv, TypeOK,
      Holding, Restored, Snapshot, Promised, files, Transaction, Points
<1>4. CASE Begin(u)
  BY <1>4, UpdateAssumption DEF Begin, Goto, IInv, TypeOK, Holding, Restored, Snapshot,
      Promised, files, Transaction, Points
<1>5. CASE Backup(u)
  BY <1>5, UpdateAssumption DEF Backup, Goto, IInv, TypeOK, Holding, Restored, Snapshot,
      Promised, files, Transaction, Points
<1>6. CASE BackupFails(u)
  BY <1>6, UpdateAssumption DEF BackupFails, Goto, IInv, TypeOK, Holding, Restored,
      Snapshot, Promised, files, Transaction, Points
<1>7. CASE Exit(u)
  BY <1>7, UpdateAssumption DEF Exit, Ended, IInv, TypeOK, Holding, Restored, Snapshot,
      Promised, files, Transaction, Points
<1>8. CASE Kill(u)
  BY <1>8, UpdateAssumption DEF Kill, Ended, IInv, TypeOK, Holding, Restored, Snapshot,
      Promised, files, Transaction, Points
<1> QED  BY <1>1, <1>2, <1>3, <1>4, <1>5, <1>6, <1>7, <1>8 DEF Update, Progress

\* dnsdist dying and coming back leaves everything but live alone.
LEMMA SystemdStep ==
  ASSUME IInv, \/ Crash \/ AutoStart \/ UNCHANGED vars
  PROVE  IInv' /\ Promised' = Promised
<1>1. UNCHANGED <<files, holder, pc, backup, fetched, candidate, faulty, cut>> /\ live' \in BOOLEAN
  BY DEF Crash, AutoStart, vars, files, IInv, TypeOK
<1>2. TypeOK' /\ Holding'
  BY <1>1 DEF files, IInv, TypeOK, Holding
<1>3. Validated' /\ OnlyValidated' /\ Restored'
  BY <1>1 DEF files, IInv, Validated, OnlyValidated, Restored, Loads, Snapshot
<1>4. Fitting'
  BY <1>1 DEF files, IInv, Fitting, Servable, Loads
<1>5. Promised' = Promised
  BY <1>1 DEF files, Promised, Snapshot
<1> QED  BY <1>2, <1>3, <1>4, <1>5 DEF IInv

\* install_dnsdist and a successful update both leave files that fit.
LEMMA Initially == Init => IInv
<1> SUFFICES ASSUME Init PROVE IInv
  OBVIOUS
<1>1. TypeOK
  <2>1. conf \in Confs /\ loader \in ChunkCounts /\ chunks \in ChunkCounts \cup {None}
    BY UpdateAssumption DEF Init, ChunkCounts, Confs
  <2>2. "off" \in Points /\ "off" \notin Transaction /\ 0 \in ChunkCounts
    BY UpdateAssumption DEF Points, Transaction, ChunkCounts
  <2> QED  BY <2>1, <2>2 DEF Init, TypeOK
<1>2. Holding /\ Validated /\ OnlyValidated /\ Restored
  BY UpdateAssumption DEF Init, Holding, Validated, OnlyValidated, Restored
<1>3. conf # None /\ [gfw |-> gfw, china |-> loader] # None
  BY UpdateAssumption DEF Init, Confs, ChunkCounts
<1>4. Loads(conf) /\ Loads([gfw |-> gfw, china |-> loader])
  BY <1>3, UpdateAssumption DEF Init, Loads, ChunkCounts
<1>5. Fitting
  BY <1>4 DEF Init, Fitting, Servable
<1> QED  BY <1>1, <1>2, <1>5 DEF IInv

LEMMA Inductive == IInv /\ [Next]_vars => IInv'
<1> SUFFICES ASSUME IInv, [Next]_vars PROVE IInv'
  OBVIOUS
<1>1. ASSUME NEW u \in Updaters, Update(u) PROVE IInv'
  <2>1. TypeOK'
    BY <1>1, TypeStep
  <2>2. Holding'
    BY <1>1, <2>1, HoldingStep
  <2>3. Validated' /\ OnlyValidated'
    BY <1>1, <2>1, <2>2, ValidatedStep
  <2>4. Restored'
    BY <1>1, <2>1, <2>2, RestoredStep
  <2>5. Fitting'
    BY <1>1, <2>1, <2>2, FittingStep
  <2> QED  BY <2>1, <2>2, <2>3, <2>4, <2>5 DEF IInv
<1> QED  BY <1>1, SystemdStep DEF Next

LEMMA AlwaysIInv == Spec => []IInv
<1> QED  BY Initially, Inductive, PTL DEF Spec

\* Every variable keeps its type and the steps of a transaction are taken by
\* the holder of the lock alone.
THEOREM TypeCorrect == Spec => []TypeOK
<1>1. IInv => TypeOK
  BY DEF IInv
<1> QED  BY <1>1, AlwaysIInv, PTL

\* Between transactions, and until a process is killed, dnsdist can be
\* restarted from the files there are.
THEOREM ServableBetween == Spec => []Servable
<1>1. IInv => Servable
  BY DEF IInv, Fitting
<1> QED  BY <1>1, AlwaysIInv, PTL

\* No run puts in place, or commits, a configuration dnsdist would refuse.
THEOREM CommitsOnlyValidated == Spec => []OnlyValidated
<1>1. IInv => OnlyValidated
  BY DEF IInv
<1> QED  BY <1>1, AlwaysIInv, PTL

\* The four files change together, by a commit and by nothing else.
THEOREM UpdatesAtomically == Spec => AllOrNothing
<1> DEFINE Atomic ==
      \/ cut' \/ Promised' = Promised
      \/ \E u \in Updaters : pc[u] = "confirm" /\ pc'[u] = "committed"
<1>1. IInv /\ IInv' /\ [Next]_vars => [Atomic]_vars
  <2> SUFFICES ASSUME IInv, IInv', Next PROVE Atomic
    OBVIOUS
  <2>1. ASSUME NEW u \in Updaters, Update(u) PROVE Atomic
    BY <2>1, PromisedStep
  <2> QED  BY <2>1, SystemdStep DEF Next
<1> HIDE DEF Atomic
<1>2. Spec => [][Atomic]_vars
  BY <1>1, AlwaysIInv, PTL DEF Spec
<1> QED  BY <1>2, PTL DEF AllOrNothing, Atomic
=============================================================================
