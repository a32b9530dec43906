----------------------------- MODULE BotService -----------------------------
(***************************************************************************)
(* The process of tgbot.py: the thread that fetches and handles updates,   *)
(* the pool of workers it hands operations to, and the server of the       *)
(* messenger, which repeats an update until a later request confirms it.   *)
(*                                                                         *)
(* An operation that runs in the pool may itself submit to the pool and    *)
(* wait (op_restart_services), and so may the main thread (op_status). One *)
(* worker never returns: it refreshes the metrics.                         *)
(***************************************************************************)
EXTENDS Naturals, Sequences, FiniteSets

CONSTANTS
  MaxUpdates,   \* bound: updates the admin makes
  MaxCrashes,   \* bound: times the process dies and systemd restarts it
  Messages,     \* messages with buttons
  Workers,      \* max_workers of _POOL
  Services,     \* RESTART_SERVICES, as a number
  Probes        \* STATUS_ITEMS, as a number

ASSUME BotServiceAssumption ==
  /\ MaxUpdates \in Nat /\ MaxCrashes \in Nat
  /\ Workers \in Nat \ {0, 1}
  /\ Services \in Nat \ {0} /\ Probes \in Nat \ {0}

VARIABLES
  sent,         \* the updates the admin makes, in order: it never changes
  confirmed,    \* the server has forgotten updates 1..confirmed
  offset,       \* offset of the main loop, 0 for None
  batch,        \* the updates of the last response still to be handled
  main,         \* where the main thread is, and the update it handles
  pending,      \* PENDING of the chat: the update that began the dialog, or 0
  queue,        \* tasks submitted and not begun
  running,      \* tasks begun and not ended
  BUSY,         \* messages with an operation under way
  shown,        \* what each message shows: something current, that an operation
                \* is under way, or that one is whose result will never be shown
  handled,      \* the updates handled at least once
  ran,          \* how often the operation each update asks for was run
  crashes       \* how often the process died

vars == <<sent, confirmed, offset, batch, main, pending, queue, running,
                 BUSY, shown, handled, ran, crashes>>

Ids == 1..MaxUpdates
Buttons == {"ask", "operate", "restart", "status"}
UpdateOf == [kind : Buttons, msg : Messages] \cup [kind : {"text"}]
IsButton(u) == sent[u].kind \in Buttons

\* A task is named by its kind, the update it is for and its number.
Task(kind, u, n) == [kind |-> kind, upd |-> u, n |-> n]
Tasks == [kind : {"operate", "reply", "restart", "child", "probe"},
          upd : Ids, n : 0..MaxUpdates + Services + Probes]
Points == {"begin", "wait", "show"}

TypeOK ==
  /\ sent \in [Ids -> UpdateOf]
  /\ confirmed \in 0..MaxUpdates
  /\ offset \in 0..MaxUpdates + 1
  /\ batch \in Seq(Ids)
  /\ main \in [pc : {"poll", "handle", "status"}, upd : 0..MaxUpdates, got : 0..Probes]
  /\ pending \in 0..MaxUpdates
  /\ queue \in Seq(Tasks)
  /\ running \subseteq [task : Tasks, pc : Points, got : 0..Services]
  /\ BUSY \subseteq Messages
  /\ shown \in [Messages -> {"current", "progress", "abandoned"}]
  /\ handled \subseteq Ids
  /\ ran \in [Ids -> Nat]
  /\ crashes \in 0..MaxCrashes

AtPoll == [pc |-> "poll", upd |-> 0, got |-> 0]

Init ==
  /\ sent \in [Ids -> UpdateOf]
  /\ confirmed = 0
  /\ offset = 0
  /\ batch = <<>>
  /\ main = AtPoll
  /\ pending = 0
  /\ queue = <<>>
  /\ running = {}
  /\ BUSY = {}
  /\ shown = [m \in Messages |-> "current"]
  /\ handled = {}
  /\ ran = [u \in Ids |-> 0]
  /\ crashes = 0

-----------------------------------------------------------------------------
(* The main loop: getUpdates, and one update after another.                *)

ConfirmedBy(off) == IF off = 0 THEN confirmed ELSE off - 1

\* The response has what was made until then and is not confirmed: since it
\* does not matter when an update is made before it is first fetched, any
\* number of those to come may have been.
PollOk(n) ==
  /\ main.pc = "poll"
  /\ confirmed' = ConfirmedBy(offset)
  /\ n <= MaxUpdates - confirmed'
  /\ batch' = [i \in 1..n |-> confirmed' + i]
  /\ main' = [main EXCEPT !.pc = IF batch' = <<>> THEN "poll" ELSE "handle"]
  /\ UNCHANGED <<sent, offset, pending, queue, running,
                 BUSY, shown, handled, ran, crashes>>

\* Both attempts of tg() fail, and after three seconds the loop tries again;
\* the server may have taken the confirmation.
PollFails ==
  /\ main.pc = "poll"
  /\ confirmed' = ConfirmedBy(offset)
  /\ UNCHANGED <<sent, offset, batch, main, pending, queue, running,
                 BUSY, shown, handled, ran, crashes>>

\* What a bug would do: give the rest of the response up after an exception.
NextUpdateOrGiveUp(u, ok) ==
  /\ main.pc = "handle" /\ u = Head(batch)
  /\ offset' = IF ok THEN u + 1 ELSE batch[Len(batch)] + 1
  /\ batch' = IF ok THEN Tail(batch) ELSE <<>>
  /\ handled' = handled \cup {u}

\* What a bug would do: confirm one update more than was handled.
NextUpdateTwoOn(u, ok) ==
  /\ main.pc = "handle" /\ u = Head(batch)
  /\ offset' = u + 2
  /\ batch' = Tail(batch)
  /\ handled' = handled \cup {u}

\* The main loop takes update u; an exception of its handler is caught, and
\* the loop goes on with the next update either way.
NextUpdate(u, ok) ==
  /\ main.pc = "handle" /\ u = Head(batch)
  /\ offset' = u + 1
  /\ batch' = Tail(batch)
  /\ handled' = handled \cup {u}

MainGoesOn == main' = [main EXCEPT !.pc = IF batch' = <<>> THEN "poll" ELSE "handle"]

\* A press on a message with an operation under way is refused.
PressRefused(u) ==
  /\ NextUpdate(u, TRUE)
  /\ IsButton(u) /\ sent[u].msg \in BUSY
  /\ MainGoesOn
  /\ UNCHANGED <<sent, confirmed, pending, queue, running, BUSY, shown, ran, crashes>>

\* The other presses. What acknowledges them to the messenger, a task of its
\* own with a time limit and no effect here, is left out.
Press(u, kind) ==
  /\ NextUpdate(u, TRUE)
  /\ sent[u].kind = kind /\ sent[u].msg \notin BUSY

\* The button begins a dialog: the next text is for it.
PressAsk(u) ==
  /\ Press(u, "ask")
  /\ pending' = u
  /\ shown' = [shown EXCEPT ![sent[u].msg] = "current"]
  /\ MainGoesOn
  /\ UNCHANGED <<sent, confirmed, queue, running, BUSY, ran, crashes>>

\* What a bug would do: not look whether the message is busy.
PressOperateAnyway(u, kind) ==
  /\ NextUpdate(u, TRUE)
  /\ sent[u].kind = kind
  /\ queue' = Append(queue, Task(kind, u, 0))
  /\ shown' = [shown EXCEPT ![sent[u].msg] = "progress"]
  /\ BUSY' = BUSY \cup {sent[u].msg}
  /\ MainGoesOn
  /\ UNCHANGED <<sent, confirmed, pending, running, ran, crashes>>

\* The button runs an operation: the message shows that it is under way, is
\* busy, and then the operation is submitted.
PressOperate(u, kind) ==
  /\ Press(u, kind)
  /\ queue' = Append(queue, Task(kind, u, 0))
  /\ shown' = [shown EXCEPT ![sent[u].msg] = "progress"]
  /\ BUSY' = BUSY \cup {sent[u].msg}
  /\ MainGoesOn
  /\ UNCHANGED <<sent, confirmed, pending, running, ran, crashes>>

ProbeTasks(u) == [i \in 1..Probes |-> Task("probe", u, i)]
ChildTasks(u) == [i \in 1..Services |-> Task("child", u, i)]

\* The status is gathered by the main thread itself, from probes in the pool.
PressStatus(u) ==
  /\ Press(u, "status")
  /\ queue' = queue \o ProbeTasks(u)
  /\ main' = [pc |-> "status", upd |-> u, got |-> 0]
  /\ UNCHANGED <<sent, confirmed, pending, running, BUSY, shown, ran, crashes>>

\* A probe has answered, or has not for twelve seconds.
StatusCollect ==
  /\ main.pc = "status"
  /\ main.got < Probes
  /\ main' = [main EXCEPT !.got = @ + 1]
  /\ UNCHANGED <<sent, confirmed, offset, batch, pending, queue, running,
                 BUSY, shown, handled, ran, crashes>>

StatusShow ==
  /\ main.pc = "status" /\ main.got = Probes
  /\ shown' = [shown EXCEPT ![sent[main.upd].msg] = "current"]
  /\ main' = IF batch = <<>> THEN AtPoll ELSE [AtPoll EXCEPT !.pc = "handle"]
  /\ UNCHANGED <<sent, confirmed, offset, batch, pending, queue, running,
                 BUSY, handled, ran, crashes>>

\* What a bug would do: leave the dialog open after its answer.
TextAnswerAgain(u) ==
  /\ NextUpdate(u, TRUE)
  /\ sent[u].kind = "text" /\ pending # 0
  /\ queue' = Append(queue, Task("reply", pending, u))
  /\ MainGoesOn
  /\ UNCHANGED <<sent, confirmed, pending, running, BUSY, shown, ran, crashes>>

\* The text that answers a dialog ends it and submits its operation to the pool.
TextAnswer(u) ==
  /\ NextUpdate(u, TRUE)
  /\ sent[u].kind = "text" /\ pending # 0
  /\ queue' = Append(queue, Task("reply", pending, u))
  /\ pending' = 0
  /\ MainGoesOn
  /\ UNCHANGED <<sent, confirmed, running, BUSY, shown, ran, crashes>>

\* Or the main thread runs the operation itself: rules_add, rules_del, fw_add
\* and fw_note_text.
TextInline(u) ==
  /\ NextUpdate(u, TRUE)
  /\ sent[u].kind = "text" /\ pending # 0
  /\ ran' = [ran EXCEPT ![pending] = @ + 1]
  /\ pending' = 0
  /\ MainGoesOn
  /\ UNCHANGED <<sent, confirmed, queue, running, BUSY, shown, crashes>>

\* A handler ends its dialog and then raises, as that of fw_add does for an
\* empty text.
TextRaises(u) ==
  /\ NextUpdate(u, FALSE)
  /\ sent[u].kind = "text" /\ pending # 0
  /\ pending' = 0
  /\ MainGoesOn
  /\ UNCHANGED <<sent, confirmed, queue, running, BUSY, shown, ran, crashes>>

TextUnknown(u) ==
  /\ NextUpdate(u, TRUE)
  /\ sent[u].kind = "text" /\ pending = 0
  /\ MainGoesOn
  /\ UNCHANGED <<sent, confirmed, pending, queue, running, BUSY, shown, ran, crashes>>

Handle(u) ==
  \/ PressRefused(u) \/ PressAsk(u) \/ PressOperate(u, "operate") \/ PressOperate(u, "restart")
  \/ PressStatus(u) \/ TextAnswer(u) \/ TextInline(u) \/ TextRaises(u) \/ TextUnknown(u)

-----------------------------------------------------------------------------
(* The pool.                                                               *)

\* One worker runs _metrics_refresh_loop for ever.
FreeWorkers == Workers - 1 - Cardinality(running)

Take ==
  /\ queue # <<>> /\ FreeWorkers > 0
  /\ running' = running \cup {[task |-> Head(queue), pc |-> "begin", got |-> 0]}
  /\ queue' = Tail(queue)
  /\ UNCHANGED <<sent, confirmed, offset, batch, main, pending,
                 BUSY, shown, handled, ran, crashes>>

Replace(r, s) == running' = (running \ {r}) \cup {s}

\* A probe or the restart of one service: bounded by its own time limit, and
\* then its future has a result.
RunSmall(r) ==
  /\ r.task.kind \in {"probe", "child"}
  /\ running' = running \ {r}
  /\ UNCHANGED <<sent, confirmed, offset, batch, main, pending, queue,
                 BUSY, shown, handled, ran, crashes>>

\* The operation of a dialog: its result is a message of its own.
RunReply(r) ==
  /\ r.task.kind = "reply"
  /\ running' = running \ {r}
  /\ ran' = [ran EXCEPT ![r.task.upd] = @ + 1]
  /\ UNCHANGED <<sent, confirmed, offset, batch, main, pending, queue,
                 BUSY, shown, handled, crashes>>

\* What a bug would do: free the message before its result is shown.
RunOperateAndFree(r) ==
  /\ r.task.kind = "operate" /\ r.pc = "begin"
  /\ ran' = [ran EXCEPT ![r.task.upd] = @ + 1]
  /\ Replace(r, [r EXCEPT !.pc = "show"])
  /\ BUSY' = BUSY \ {sent[r.task.upd].msg}
  /\ UNCHANGED <<sent, confirmed, offset, batch, main, pending, queue,
                 shown, handled, crashes>>

RunOperate(r) ==
  /\ r.task.kind = "operate" /\ r.pc = "begin"
  /\ ran' = [ran EXCEPT ![r.task.upd] = @ + 1]
  /\ Replace(r, [r EXCEPT !.pc = "show"])
  /\ UNCHANGED <<sent, confirmed, offset, batch, main, pending, queue,
                 BUSY, shown, handled, crashes>>

\* op_restart_services submits a task for each service to its own pool.
RestartSubmit(r) ==
  /\ r.task.kind = "restart" /\ r.pc = "begin"
  /\ queue' = queue \o ChildTasks(r.task.upd)
  /\ ran' = [ran EXCEPT ![r.task.upd] = @ + 1]
  /\ Replace(r, [r EXCEPT !.pc = "wait"])
  /\ UNCHANGED <<sent, confirmed, offset, batch, main, pending,
                 BUSY, shown, handled, crashes>>

\* What a bug would do: wait for the future without a time limit.
RestartCollectDone(r) ==
  /\ r.pc = "wait" /\ r.got < Services
  /\ LET child == Task("child", r.task.upd, r.got + 1) IN
       /\ \A i \in DOMAIN queue : queue[i] # child
       /\ \A s \in running : s.task # child
  /\ Replace(r, [r EXCEPT !.got = @ + 1, !.pc = IF r.got + 1 = Services THEN "show" ELSE @])
  /\ UNCHANGED <<sent, confirmed, offset, batch, main, pending, queue,
                 BUSY, shown, handled, ran, crashes>>

\* The next service has been restarted, or has not for seventy seconds.
RestartCollect(r) ==
  /\ r.pc = "wait" /\ r.got < Services
  /\ Replace(r, [r EXCEPT !.got = @ + 1, !.pc = IF r.got + 1 = Services THEN "show" ELSE @])
  /\ UNCHANGED <<sent, confirmed, offset, batch, main, pending, queue,
                 BUSY, shown, handled, ran, crashes>>

\* The result replaces the text of the message, unless the messenger takes
\* neither the edit nor the message sent in its stead, or the edit raises (as
\* it does where the keyboard is a function); the message is freed anyway.
ShowAndFree(r) ==
  LET m == sent[r.task.upd].msg IN
  /\ r.pc = "show"
  /\ running' = running \ {r}
  /\ \E text \in {"current", "abandoned"} : shown' = [shown EXCEPT ![m] = text]
  /\ BUSY' = BUSY \ {m}
  /\ UNCHANGED <<sent, confirmed, offset, batch, main, pending, queue, handled, ran, crashes>>

Run(r) ==
  \/ RunSmall(r) \/ RunReply(r) \/ RunOperate(r) \/ RestartSubmit(r) \/ RestartCollect(r)
  \/ ShowAndFree(r)

-----------------------------------------------------------------------------
\* The process dies and is restarted: what it held in memory is gone, what
\* it had not confirmed will come again.
Crash ==
  /\ crashes < MaxCrashes
  /\ crashes' = crashes + 1
  /\ offset' = 0
  /\ batch' = <<>>
  /\ main' = AtPoll
  /\ pending' = 0
  /\ queue' = <<>>
  /\ running' = {}
  /\ BUSY' = {}
  /\ shown' = [m \in Messages |-> IF m \in BUSY THEN "abandoned" ELSE shown[m]]
  /\ UNCHANGED <<sent, confirmed, handled, ran>>

HandleNext == batch # <<>> /\ Handle(Head(batch))
Work == Take \/ \E r \in running : Run(r)

Next ==
  \/ \E n \in 0..MaxUpdates : PollOk(n)
  \/ PollFails
  \/ HandleNext
  \/ StatusCollect \/ StatusShow
  \/ Work
  \/ Crash

\* The threads of a live process get on, every call of the pool has a time
\* limit, and the messenger can be reached again and again.
Fairness ==
  /\ WF_vars(HandleNext)
  /\ WF_vars(StatusCollect \/ StatusShow)
  /\ WF_vars(Work)
  /\ SF_vars(\E n \in Ids : PollOk(n))

Spec == Init /\ [][Next]_vars /\ Fairness

-----------------------------------------------------------------------------
(* Properties.                                                             *)

\* A message is busy exactly while one operation for it is queued or running:
\* never two at once, and none that has ended keeps the message locked.
OperationsOn(m) ==
  {u \in Ids : /\ IsButton(u) /\ sent[u].msg = m
               /\ \/ \E i \in DOMAIN queue : queue[i].upd = u /\ queue[i].kind \in {"operate", "restart"}
                  \/ \E r \in running : r.task.upd = u /\ r.task.kind \in {"operate", "restart"}}

BusyHasOperation ==
  \A m \in Messages :
    /\ Cardinality(OperationsOn(m)) <= 1
    /\ m \in BUSY <=> OperationsOn(m) # {}

\* No message is left saying that an operation is under way when none is,
\* unless its result could not be shown or the process died under it.
ResultShown ==
  \A m \in Messages \ BUSY : shown[m] # "progress"

\* An update that the messenger will not repeat has been handled, whatever
\* exceptions handlers raised and whenever the process died.
ConfirmedWereHandled == 1..confirmed \subseteq handled

\* What an update asks for is done once, and again only after a crash.
OncePerLife == \A u \in Ids : ran[u] <= 1 + crashes

\* Every update is handled in the end.
EveryUpdateHandled == \A u \in Ids : <>(u \in handled)

\* No message stays busy, even when the operations that occupy every worker
\* wait for tasks behind them in the queue.
BusyClears == \A m \in Messages : (m \in BUSY) ~> (m \notin BUSY)
=============================================================================
