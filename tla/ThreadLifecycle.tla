---------------------------- MODULE ThreadLifecycle ----------------------------
(* One thread through its life: what clients ask, what the hooks of its Claude   *)
(* session report, the captures, reverts and title generations the server has in *)
(* progress, the sweep that archives inactive threads, and restarts of the       *)
(* server.  Commands from hooks reach the engine in the order they were made, a  *)
(* moment later; each is decided on the read model in memory (ThreadDecider),    *)
(* and its events are folded into it (ThreadReadModel) and into the projection   *)
(* tables (ThreadRows) in one step, which OrchestrationEngine justifies.         *)
EXTENDS ThreadLifecycleView, ThreadRows, SequencesExt

CONSTANTS Requests,       \* ids of approval requests
          ProviderTurns,  \* turns of the sessions set through internal commands
          InactiveFor,    \* autoArchiveInactiveThreadDays, on the model's clock
          Scenarios,      \* sets of inputs, one of which a behaviour has
          MaxNow, MaxQueue, MaxCaptures, MaxRestarts \* bounds of the model

\* The turns of captures are named by the instant they end at; providers name others.
ASSUME TurnsAssumption ==
    /\ MaxNow \in Nat \ {0}
    /\ \A turn \in ProviderTurns : turn \in Nat /\ turn > MaxNow

VARIABLES mem,        \* the thread in the engine's read model
          rows,       \* the thread in the projection tables
          now,        \* the next instant
          child,      \* the Claude session: "none", "ready", "working",
            \* "asking", or "idle" after a turn has stopped
          asked,      \* pendingApprovalRequestIdsByThread, in the order of insertion
          queue,      \* commands the hooks have dispatched and the engine has not taken
          captures,   \* turn counts that captures in progress have read
          reverting,  \* turn counts that reverts in progress restore
          titling,    \* generateThreadTitle: "no", "running" or "done"
          sweeping,   \* a sweep has chosen the thread and not archived it yet
          restarts,
          inputs

threadVars == <<mem, rows, now, child, asked, queue, captures, reverting, titling,
                sweeping, restarts, inputs>>

inProgress == <<asked, captures, reverting, titling, sweeping>>

ThreadInit ==
    /\ mem = NewThread(1)
    /\ rows = NewRows(1)
    /\ now = 2
    /\ child = "none"
    /\ asked = <<>>
    /\ queue = <<>>
    /\ captures = <<>>
    /\ reverting = {}
    /\ titling = "no"
    /\ sweeping = FALSE
    /\ restarts = 0
    /\ inputs \in Scenarios

-----------------------------------------------------------------------------
(* A command decided and its events projected.                                 *)

\* The commands whose instant the thread keeps: no two have the same.
Stamps == {"thread.snooze", "thread.turn.start", "thread.turn.interrupt",
           "thread.session.set", "thread.message.assistant.complete",
           "thread.turn.diff.complete"}

Execute(c) ==
    LET events == Decide(mem, c)
    IN  /\ now <= MaxNow
        /\ mem' = ProjectEvents(mem, events)
        /\ rows' = ProjectAll(rows, events)
        /\ now' = IF c.type \in Stamps THEN now + 1 ELSE now

Command(type) == [type |-> type, at |-> now]

Client(c) ==
    /\ c.type \in inputs
    /\ Decide(mem, c) # <<>>
    /\ Execute(c)
    /\ UNCHANGED <<child, queue, inProgress, restarts, inputs>>

NewestCount(t) ==
    LET counts == {t.checkpoints[i].count : i \in DOMAIN t.checkpoints}
    IN  IF counts = {} THEN 0 ELSE CHOOSE n \in counts : \A m \in counts : m <= n

-----------------------------------------------------------------------------
(* Requests of clients.                                                        *)

DeleteThread == ~mem.deleted /\ Client(Command("thread.delete"))
SettleThread == Client(Command("thread.settle"))
UnsettleThread == Client([type |-> "thread.unsettle", at |-> now, reason |-> "user"])
SnoozeThread ==
    \E d \in 1..2 : Client([type |-> "thread.snooze", at |-> now, until |-> now + d])
UnsnoozeThread == mem.snoozedUntil # NoTime /\ Client(Command("thread.unsnooze"))
ArchiveThread ==
    Client([type |-> "thread.archive", at |-> now, archived |-> ~mem.archived])
RenameThread ==
    Client([type |-> "thread.rename", at |-> now, title |-> "chosen",
            titleSource |-> "manual"])
StartTurn == Client(Command("thread.turn.start"))
InterruptTurn ==
    /\ mem.turn # NoTurn
    /\ Client([type |-> "thread.turn.interrupt", at |-> now, turn |-> mem.turn.id])
RespondToApproval ==
    \E q \in OpenRequests(mem.activities) :
        Client([type |-> "thread.approval.respond", at |-> now, request |-> q])

\* Internal commands: what earlier versions' providers reported.
SetSessionStatus ==
    \E s \in {"starting", "running", "ready", "error"}, turn \in ProviderTurns \cup {NoTurnId} :
        /\ (s = "running") = (turn # NoTurnId)
        /\ Client([type |-> "thread.session.set", at |-> now, session |-> s, turn |-> turn])
CompleteAssistantMessage ==
    \E turn \in ProviderTurns :
        Client([type |-> "thread.message.assistant.complete", at |-> now, turn |-> turn])

-----------------------------------------------------------------------------
(* The hooks of the Claude session.                                            *)

Offer(commands) ==
    /\ Len(queue) + Len(commands) <= MaxQueue
    /\ queue' = queue \o commands

\* The id of an activity is its place among the hooks, in the order they came.
NextActivity ==
    LET queued == {i \in DOMAIN queue : queue[i].type = "thread.activity.append"}
        ids == {mem.activities[i].id : i \in DOMAIN mem.activities}
                 \cup {queue[i].activity.id : i \in queued}
    IN  IF ids = {} THEN 1 ELSE 1 + CHOOSE m \in ids : \A other \in ids : other <= m

Approval(kind, q, id) ==
    [type |-> "thread.activity.append",
     activity |-> [id |-> id, kind |-> kind, request |-> q, turn |-> NoTurnId]]

Resolve(requests) ==
    [i \in DOMAIN requests |->
        Approval("approval.resolved", requests[i], NextActivity + i - 1)]

StatusChanged(status) == [type |-> "thread.terminal.statusChanged", status |-> status]

StartSession ==
    /\ "session" \in inputs
    /\ child = "none"
    /\ child' = "ready"
    /\ Offer(<<StatusChanged("active")>>)
    /\ UNCHANGED <<mem, rows, now, inProgress, restarts, inputs>>

EndSession ==
    /\ "exit" \in inputs
    /\ child # "none"
    /\ child' = "none"
    /\ Offer(<<StatusChanged("dormant")>>)
    /\ UNCHANGED <<mem, rows, now, inProgress, restarts, inputs>>

\* The first prompt also starts the generation of a title.
UserPromptSubmit ==
    /\ "session" \in inputs
    /\ child # "none"
    /\ child' = "working"
    /\ Offer(Resolve(asked))
    /\ asked' = <<>>
    /\ titling' = IF titling = "no" /\ "title" \in inputs THEN "running" ELSE titling
    /\ UNCHANGED <<mem, rows, now, captures, reverting, sweeping, restarts, inputs>>

PermissionRequest ==
    /\ "ask" \in inputs
    /\ child \in {"working", "asking"}
    /\ child' = "asking"
    /\ \E q \in Requests :
          /\ \A a \in ToSet(rows.activities) \cup {c.activity : c \in
                        {d \in ToSet(queue) : d.type = "thread.activity.append"}} :
                a.request # q
          /\ Offer(<<Approval("approval.requested", q, NextActivity)>>)
          /\ asked' = Append(asked, q)
    /\ UNCHANGED <<mem, rows, now, captures, reverting, titling, sweeping, restarts, inputs>>

\* A tool ran: the most recent request is taken to be the one it waited for.
PostToolUse ==
    /\ child \in {"working", "asking"}
    /\ asked # <<>>
    /\ child' = "working"
    /\ Offer(Resolve(<<asked[Len(asked)]>>))
    /\ asked' = SubSeq(asked, 1, Len(asked) - 1)
    /\ UNCHANGED <<mem, rows, now, captures, reverting, titling, sweeping, restarts, inputs>>

Stop_ResolvesLast ==
    /\ child \in {"working", "asking"}
    /\ child' = "idle"
    /\ Offer(IF asked = <<>> THEN <<>> ELSE Resolve(<<asked[Len(asked)]>>))
    /\ asked' = <<>>
    /\ captures' = captures
    /\ UNCHANGED <<mem, rows, now, reverting, titling, sweeping, restarts, inputs>>
\* The turn ends: every request left is resolved, and a capture starts.
Stop ==
    /\ child \in {"working", "asking"}
    /\ child' = "idle"
    /\ Offer(Resolve(asked))
    /\ asked' = <<>>
    /\ captures' = IF "capture" \in inputs /\ Len(captures) < MaxCaptures
                   THEN Append(captures, NewestCount(mem)) ELSE captures
    /\ UNCHANGED <<mem, rows, now, reverting, titling, sweeping, restarts, inputs>>

\* The engine's worker takes the next command.
TakeCommand ==
    /\ queue # <<>>
    /\ Execute(Head(queue))
    /\ queue' = Tail(queue)
    /\ UNCHANGED <<child, inProgress, restarts, inputs>>

-----------------------------------------------------------------------------
(* What the server has in progress.                                            *)

\* A capture ends with a checkpoint, or without one when no file changed.
EndCapture ==
    \E i \in DOMAIN captures :
        /\ \/ Execute([type |-> "thread.turn.diff.complete", at |-> now, turn |-> now,
                       count |-> captures[i] + 1])
           \/ UNCHANGED <<mem, rows, now>>
        /\ captures' = RemoveAt(captures, i)
        /\ UNCHANGED <<child, asked, queue, reverting, titling, sweeping, restarts, inputs>>

StartRevert ==
    /\ "revert" \in inputs
    /\ reverting = {}
    /\ \E n \in 0..NewestCount(mem) :
          /\ n = 0 \/ \E i \in DOMAIN mem.checkpoints : mem.checkpoints[i].count = n
          /\ reverting' = {n}
    /\ UNCHANGED <<mem, rows, now, child, asked, queue, captures, titling, sweeping,
                   restarts, inputs>>

EndRevert ==
    \E n \in reverting :
        /\ Execute([type |-> "thread.revert.complete", at |-> now, count |-> n])
        /\ reverting' = {}
        /\ UNCHANGED <<child, asked, queue, captures, titling, sweeping, restarts, inputs>>

EndTitle ==
    /\ titling = "running"
    /\ titling' = "done"
    /\ Execute([type |-> "thread.rename", at |-> now, title |-> "generated",
                titleSource |-> "auto"])
    /\ UNCHANGED <<child, asked, queue, captures, reverting, sweeping, restarts, inputs>>

ShouldAutoArchive(t) ==
    /\ ~Gone(t)
    /\ ~(t.status = "active" \/ HasActiveWork(t))
    /\ t.settled = "settled" /\ t.settledAt # NoTime
    /\ t.lastInteractedAt <= now - InactiveFor

\* The sweep reads the tables, then dispatches one command for each thread it found.
StartSweep ==
    /\ "sweep" \in inputs
    /\ ~sweeping
    /\ ShouldAutoArchive(Snapshot(rows))
    /\ sweeping' = TRUE
    /\ UNCHANGED <<mem, rows, now, child, asked, queue, captures, reverting, titling,
                   restarts, inputs>>

EndSweep ==
    /\ sweeping
    /\ sweeping' = FALSE
    /\ Execute([type |-> "thread.archive", at |-> now, archived |-> TRUE])
    /\ UNCHANGED <<child, asked, queue, captures, reverting, titling, restarts, inputs>>

\* The server ends at any moment and starts again: the session died with it, what was
\* in progress is lost, and the read model is what the tables give.
Restart ==
    /\ "restart" \in inputs
    /\ restarts < MaxRestarts
    /\ restarts' = restarts + 1
    /\ mem' = Snapshot(rows)
    /\ child' = "none"
    /\ asked' = <<>>
    /\ queue' = IF rows.thread.status = "active" /\ ~rows.thread.deleted
                THEN <<StatusChanged("dormant")>> ELSE <<>>
    /\ captures' = <<>>
    /\ reverting' = {}
    /\ titling' = "no"
    /\ sweeping' = FALSE
    /\ UNCHANGED <<rows, now, inputs>>

Tick ==
    /\ "tick" \in inputs
    /\ now < MaxNow
    /\ now' = now + 1
    /\ UNCHANGED <<mem, rows, child, queue, inProgress, restarts, inputs>>

ThreadNext ==
    \/ DeleteThread \/ SettleThread \/ UnsettleThread \/ SnoozeThread \/ UnsnoozeThread
    \/ ArchiveThread \/ RenameThread \/ StartTurn \/ InterruptTurn \/ RespondToApproval
    \/ SetSessionStatus \/ CompleteAssistantMessage
    \/ StartSession \/ EndSession \/ UserPromptSubmit \/ PermissionRequest
    \/ PostToolUse \/ Stop \/ TakeCommand
    \/ EndCapture \/ StartRevert \/ EndRevert \/ EndTitle
    \/ StartSweep \/ EndSweep \/ Restart \/ Tick

ThreadSpec == ThreadInit /\ [][ThreadNext]_threadVars

-----------------------------------------------------------------------------
(* Properties.                                                                 *)

\* A client lists a thread as the server holds it.  One the user snoozed is asleep or has
\* woken, never neither or both; and one the server holds as settled is listed as settled:
\* whatever would bring it back (a message, a session, a request) takes it out of "settled"
\* in the same transaction, and no capture or restart makes it look busy.  A revert does,
\* for as long as the grace lasts, when it takes the turn that answered a recent message.
ListedAsHeld ==
    /\ rows.thread.snoozedUntil # NoTime =>
          EffectiveSnoozed(Snapshot(rows), now) # (WokeAt(Snapshot(rows), now) # NoTime)
    /\ mem.settled = "settled" /\ ~mem.deleted /\ ~HasQueuedTurnStart(mem, now) =>
          EffectiveSettled(Snapshot(rows), now)

SameBut(t, s, fields) == \A f \in DOMAIN t \ fields : t[f] = s[f]

Provider == inputs \cap {"thread.session.set", "thread.message.assistant.complete"} # {}

\* Captures that ran one after the other, as the turns did.
CapturedInOrder(t) ==
    \A i, j \in DOMAIN t.checkpoints :
        i < j => /\ t.checkpoints[i].count < t.checkpoints[j].count
                 /\ t.checkpoints[i].at < t.checkpoints[j].at

\* The tables give back the thread the server has in memory, so that a restart changes
\* no decision: two folds of the same events, written twice (projector.ts and
\* ProjectionPipeline.ts), through turns, interrupts, reverts and restarts.  When two
\* captures overlapped, the tables keep one checkpoint for a count and memory both.
ViewsAgree ==
    LET s == Snapshot(rows)
        same == IF CapturedInOrder(mem) THEN {"turn"} ELSE {"turn", "checkpoints"}
    IN  ~mem.deleted /\ ~Provider =>
            /\ SameBut(mem, s, same)
            /\ CapturedInOrder(mem) => SameBut(mem.turn, s.turn, {"state"})
            /\ (mem.turn.state = "running") = (s.turn.state = "running")
            /\ NewestCount(mem) = NewestCount(s)
            /\ ToSet(s.checkpoints) \subseteq ToSet(mem.checkpoints)

\* What a client offers on the snapshot it has, the server accepts, and the other way
\* round: the guards are written once in each, over two views of the thread.  When two
\* captures overlapped, the views may name different turns as the latest, and the guards
\* differ until the grace of the newest message has passed.
GuardsMirror ==
    ~mem.deleted /\ ~mem.archived /\ ~Provider /\ CapturedInOrder(mem) =>
        /\ CanSettle(Snapshot(rows), now) = (Settle(mem, Command("thread.settle")) # <<>>)
        /\ CanSnooze(Snapshot(rows), now) =
              (Snooze(mem, [at |-> now, until |-> now + 1]) # <<>>)

\* Once a turn has stopped and the hooks' commands are decided, no request of the session
\* stays open (wsServer.ts: "On stop, resolve ALL lingering pending approvals"): rejected
\* tools, prompts that interrupt and answers given in the terminal leave nothing behind,
\* as long as the server that heard the requests runs.
StopResolvesAsked ==
    restarts = 0 /\ child = "idle" /\ queue = <<>> /\ ~mem.deleted =>
        OpenRequests(mem.activities) = {}
=============================================================================
