---------------------------- MODULE PiSessionManager ----------------------------
(* The Pi sessions of one thread (terminal/Layers/PiSessionManager.ts): starts,    *)
(* with the initial prompt a terminal gets once Pi has reported ready, and the     *)
(* lifecycle calls, which share a lock per thread; exits, timers, requests of the  *)
(* RPC mode and user input, which do not wait for it.                              *)
EXTENDS Integers, Sequences

CONSTANTS
    MaxStarts,  \* bound: start requests
    Calls,      \* requests of the RPC mode: a prompt, an abort, a command
    Budgets     \* bounds: the kinds of the starts, and how often the other calls are made

ASSUME MaxStartsAssumption == MaxStarts \in Nat
Starts == 1 .. MaxStarts
Modes == {"terminal", "rpc"}
Lifecycle == {"hibernate", "destroy", "purge", "notify"}

ASSUME BudgetsAssumption ==
    Budgets \subseteq [kinds : [Starts -> [mode : Modes, prompt : BOOLEAN]],
                       lifecycle : SUBSET Lifecycle, inputs : Nat, calls : Nat]

VARIABLES
    entry,      \* the thread's PiSessionEntry; shown: it may show a status
    queue,      \* who holds the thread lock, and who waits for it in turn
    starts,     \* where each start request is
    calls,      \* where each RPC request is
    procs,      \* the processes, in the order of their launches
    persisted,  \* terminalStatus of the read model
    failed,     \* how the last start failed, if nothing told the read model since
    left        \* how often each bounded thing may still happen

vars == <<entry, queue, starts, calls, procs, persisted, failed, left>>

\* A launch is named by its position in procs: so are its process, its sync nonce and the
\* session file Pi creates in it.  0 is none.
None == 0
Launches == 0 .. Len(procs)
Next_Launch == Len(procs) + 1

Absent == [status |-> "none", mode |-> "terminal", proc |-> None, pending |-> None,
           nonce |-> None, file |-> None, shown |-> FALSE, watch |-> FALSE]
Idle == [pc |-> "idle", mode |-> "terminal", prompt |-> FALSE, proc |-> None]

Init ==
    /\ entry = Absent
    /\ queue = <<>>
    /\ starts = [s \in Starts |-> Idle]
    /\ calls = [c \in Calls |-> [pc |-> "idle", proc |-> None]]
    /\ procs = <<>>
    /\ persisted = "new"
    /\ failed = "no"
    /\ left \in Budgets

Use(what) == left[what] > 0 /\ left' = [left EXCEPT ![what] = @ - 1]

-----------------------------------------------------------------------------
(* What the handlers share.                                                    *)

Task(op, id) == [op |-> op, id |-> id]
Holds(op, id) == queue # <<>> /\ Head(queue) = Task(op, id)
Unlock == Tail(queue)

\* rejectTerminalReadiness: only the waiter of e's process and nonce.
ReadinessRejected(ss, e) ==
    [s \in Starts |-> IF ss[s].pc = "waiting" /\ ss[s].proc = e.proc /\ ss[s].proc = e.nonce
                      THEN [ss[s] EXCEPT !.pc = "rejected"] ELSE ss[s]]
\* rejectRpcPendingRequests, of which the initial prompt of a start may be one.
PromptRejected(ss) ==
    [s \in Starts |-> IF ss[s].pc = "prompting" THEN [ss[s] EXCEPT !.pc = "failed"] ELSE ss[s]]
CallsRejected ==
    [c \in Calls |-> IF calls[c].pc = "pending" THEN [calls[c] EXCEPT !.pc = "error"] ELSE calls[c]]

\* cleanupProcessHandles, stopSessionSyncWatcher and resetHookStatus.
Unlinked(e) ==
    [e EXCEPT !.proc = None, !.pending = None, !.nonce = None, !.shown = FALSE, !.watch = FALSE]

\* Mutant: the sync watcher is stopped before the waiter is rejected.
StartsStopped_AfterWatcher(ss, e) == PromptRejected(ReadinessRejected(ss, [e EXCEPT !.nonce = None]))
\* stopProcess, in what becomes of the requests and of the process.
StartsStopped(ss, e) == PromptRejected(ReadinessRejected(ss, e))
\* Mutant: a start drops the process of the session it replaces.
ProcsStopped_Dropped == {procs}
\* killProcessWithEscalation: no timer where SIGTERM throws.
ProcsStopped ==
    IF entry.proc = None THEN {procs}
    ELSE {[procs EXCEPT ![entry.proc].signalled = TRUE, ![entry.proc].timer = armed] :
             armed \in BOOLEAN}

-----------------------------------------------------------------------------
(* A start: under the lock up to the spawn, or to the answer to an RPC prompt. *)

RequestStart(s) ==
    /\ starts[s].pc = "idle" /\ \A earlier \in 1 .. s - 1 : starts[earlier].pc # "idle"
    /\ starts' = [starts EXCEPT ![s] = [pc |-> "queued", mode |-> left.kinds[s].mode,
                                          prompt |-> left.kinds[s].prompt, proc |-> None]]
    /\ queue' = Append(queue, Task("start", s))
    /\ UNCHANGED <<entry, calls, procs, persisted, failed, left>>

BeginStart(s) ==
    /\ Holds("start", s) /\ starts[s].pc = "queued"
    /\ entry' = [Unlinked(entry) EXCEPT !.status = "active", !.mode = starts[s].mode]
    /\ procs' \in ProcsStopped
    /\ calls' = IF entry.proc = None THEN calls ELSE CallsRejected
    /\ starts' = [IF entry.proc = None THEN starts ELSE StartsStopped(starts, entry)
                  EXCEPT ![s].pc = "preparing"]
    /\ UNCHANGED <<queue, persisted, failed, left>>

\* The session file is resolved; the JSONL watcher reads what the file already holds.
PrepareStart(s) ==
    /\ Holds("start", s) /\ starts[s].pc = "preparing"
    /\ \E file \in {None, entry.file} :
        entry' = [entry EXCEPT !.file = file, !.nonce = Next_Launch, !.watch = (file # None),
                               !.shown = (file # None)]
    /\ starts' = [starts EXCEPT ![s].pc = "spawning"]
    /\ UNCHANGED <<queue, calls, procs, persisted, failed, left>>

Process(mode, alive) ==
    [mode |-> mode, alive |-> alive, told |-> ~alive, signalled |-> FALSE, timer |-> FALSE,
     ready |-> FALSE, file |-> entry.file, got |-> <<>>]

SpawnTerminal(s) ==
    LET launch == Next_Launch
        waits == starts[s].prompt
    IN
    /\ Holds("start", s) /\ starts[s].pc = "spawning" /\ starts[s].mode = "terminal"
    /\ procs' = Append(procs, Process("terminal", TRUE))
    /\ entry' = [entry EXCEPT !.proc = launch, !.pending = IF waits THEN launch ELSE None]
    /\ starts' = [s2 \in Starts |->
                    IF s2 = s THEN [starts[s] EXCEPT !.proc = launch, !.pc = IF waits THEN "waiting" ELSE "ok"]
                    ELSE IF waits /\ starts[s2].pc = "waiting" THEN [starts[s2] EXCEPT !.pc = "rejected"]
                    ELSE starts[s2]]
    /\ queue' = Unlock
    /\ persisted' = IF waits THEN persisted ELSE "active"
    /\ failed' = IF waits THEN failed ELSE "no"
    /\ UNCHANGED <<calls, left>>

\* A child process that could not be spawned emits error, never exit: it is not alive,
\* and everybody has been told.
SpawnRpc(s) ==
    /\ Holds("start", s) /\ starts[s].pc = "spawning" /\ starts[s].mode = "rpc"
    /\ \E alive \in BOOLEAN : procs' = Append(procs, Process("rpc", alive))
    /\ entry' = [entry EXCEPT !.proc = Next_Launch]
    /\ starts' = [starts EXCEPT ![s].proc = Next_Launch, ![s].pc = IF starts[s].prompt THEN "prompting" ELSE "ok"]
    /\ queue' = IF starts[s].prompt THEN queue ELSE Unlock
    /\ persisted' = "active"
    /\ failed' = "no"
    /\ UNCHANGED <<calls, left>>

\* The session directory cannot be made or searched: that is not caught.
FailToPrepare(s) ==
    /\ Holds("start", s) /\ starts[s].pc = "preparing"
    /\ starts' = [starts EXCEPT ![s].pc = "error"]
    /\ queue' = Unlock
    /\ failed' = "unprepared"
    /\ UNCHANGED <<entry, calls, procs, persisted, left>>

\* The working directory is not valid, or the terminal cannot be spawned.
FailToSpawn(s) ==
    /\ Holds("start", s) /\ starts[s].pc = "spawning"
    /\ starts' = [starts EXCEPT ![s].pc = "failed"]
    /\ UNCHANGED <<entry, queue, calls, procs, persisted, failed, left>>

AnswerPrompt(s) ==
    /\ Holds("start", s) /\ starts[s].pc = "prompting" /\ procs[starts[s].proc].alive
    /\ starts' = [starts EXCEPT ![s].pc = "ok"]
    /\ queue' = Unlock
    /\ UNCHANGED <<entry, calls, procs, persisted, failed, left>>

\* Pi refuses the prompt, does not take it, or does not answer in time.
LosePrompt(s) ==
    /\ Holds("start", s) /\ starts[s].pc = "prompting"
    /\ starts' = [starts EXCEPT ![s].pc = "failed"]
    /\ UNCHANGED <<entry, queue, calls, procs, persisted, failed, left>>

\* Mutant: only a start that had a process resets the status.
AfterCatch_Active ==
    IF entry.proc # None THEN [Unlinked(entry) EXCEPT !.status = "new"] ELSE [entry EXCEPT !.nonce = None]
\* The catch of startSession: the JSONL watcher is stopped only with a process.
AfterCatch ==
    IF entry.proc # None THEN [Unlinked(entry) EXCEPT !.status = "new"]
    ELSE [entry EXCEPT !.status = "new", !.nonce = None]

CatchStart(s) ==
    /\ Holds("start", s) /\ starts[s].pc = "failed"
    /\ entry' = AfterCatch
    /\ procs' \in ProcsStopped
    /\ calls' = CallsRejected
    /\ starts' = [StartsStopped(starts, entry) EXCEPT ![s].pc = "error"]
    /\ queue' = Unlock
    /\ failed' = IF entry.watch /\ entry.proc = None THEN "unspawned" ELSE "spawned"
    /\ UNCHANGED <<persisted, left>>

-----------------------------------------------------------------------------
(* The second phase of a terminal start: the prompt, under the lock again.     *)

TimeOutReadiness(s) ==
    /\ starts[s].pc = "waiting" /\ entry.proc = starts[s].proc /\ entry.nonce = starts[s].proc
    /\ starts' = [starts EXCEPT ![s].pc = "rejected"]
    /\ UNCHANGED <<entry, queue, calls, procs, persisted, failed, left>>

\* The promise of readiness has settled.
Resume(s) ==
    /\ starts[s].pc \in {"ready", "rejected"}
    /\ LET op == IF starts[s].pc = "ready" THEN "submit" ELSE "cleanup"
       IN /\ starts' = [starts EXCEPT ![s].pc = op]
          /\ queue' = Append(queue, Task(op, s))
    /\ UNCHANGED <<entry, calls, procs, persisted, failed, left>>

IsCurrent(s) == entry.proc = starts[s].proc /\ entry.nonce = starts[s].proc

SubmitPrompt(s) ==
    /\ Holds("submit", s)
    /\ IsCurrent(s) /\ entry.status = "active"
    /\ procs' = [procs EXCEPT ![entry.proc].got = Append(@, "prompt")]
    /\ entry' = [entry EXCEPT !.pending = None, !.shown = TRUE]
    /\ starts' = [starts EXCEPT ![s].pc = "ok"]
    /\ queue' = Unlock
    /\ persisted' = "active"
    /\ failed' = "no"
    /\ UNCHANGED <<calls, left>>

\* The session has changed, or writing to a terminal whose process is gone throws.
SubmitFails(s) ==
    /\ Holds("submit", s)
    /\ ~(IsCurrent(s) /\ entry.status = "active" /\ procs[starts[s].proc].alive)
    /\ starts' = [starts EXCEPT ![s].pc = "rejected"]
    /\ queue' = Unlock
    /\ UNCHANGED <<entry, calls, procs, persisted, failed, left>>

CleanUp(s) ==
    /\ Holds("cleanup", s)
    /\ queue' = Unlock
    /\ IF IsCurrent(s)
       THEN /\ entry' = [Unlinked(entry) EXCEPT !.status = "new"]
            /\ procs' \in ProcsStopped
            /\ calls' = CallsRejected
            /\ starts' = [StartsStopped(starts, entry) EXCEPT ![s].pc = "error"]
            /\ failed' = "spawned"
       ELSE /\ starts' = [starts EXCEPT ![s].pc = "error"]
            /\ UNCHANGED <<entry, calls, procs, failed>>
    /\ UNCHANGED <<persisted, left>>

-----------------------------------------------------------------------------
(* The lifecycle calls.                                                        *)

Request(op) ==
    /\ op \in left.lifecycle
    /\ left' = [left EXCEPT !.lifecycle = @ \ {op}]
    /\ queue' = Append(queue, Task(op, None))
    /\ UNCHANGED <<entry, starts, calls, procs, persisted, failed>>

StopEntry(to) ==
    /\ entry' = to
    /\ procs' \in ProcsStopped
    /\ calls' = CallsRejected
    /\ starts' = StartsStopped(starts, entry)

Hibernate ==
    /\ Holds("hibernate", None) /\ queue' = Unlock
    /\ IF entry.status = "none" THEN UNCHANGED <<entry, starts, calls, procs, persisted, failed>>
       ELSE /\ StopEntry([Unlinked(entry) EXCEPT !.status = "dormant"])
            /\ persisted' = "dormant" /\ failed' = "no"
    /\ UNCHANGED left

\* destroySession, and purgeInactiveSessions, which looks again under the lock.
Remove ==
    /\ \/ Holds("destroy", None)
       \/ Holds("purge", None)
    /\ queue' = Unlock
    /\ IF entry.status = "none" \/ (Head(queue).op = "purge" /\ entry.status = "active")
       THEN UNCHANGED <<entry, starts, calls, procs>>
       ELSE StopEntry(Absent)
    /\ UNCHANGED <<persisted, failed, left>>

NotifyPromptSubmitted ==
    /\ Holds("notify", None) /\ queue' = Unlock
    /\ entry' = [entry EXCEPT !.shown = @ \/ (entry.proc # None /\ entry.mode = "terminal" /\ entry.status = "active")]
    /\ UNCHANGED <<starts, calls, procs, persisted, failed, left>>

-----------------------------------------------------------------------------
(* The sync file of a launch, read under the lock after a watch event or a poll. *)

ScheduleRefresh(launch) ==
    /\ entry.nonce = launch /\ launch \in DOMAIN procs
    /\ procs[launch].ready
    /\ \A i \in 1 .. Len(queue) : queue[i] \notin {Task("refresh", launch), Task("reading", launch)}
    /\ \/ procs[launch].file # entry.file
       \/ \E s \in Starts : starts[s].pc = "waiting" /\ starts[s].proc = launch
    /\ queue' = Append(queue, Task("refresh", launch))
    /\ UNCHANGED <<entry, starts, calls, procs, persisted, failed, left>>

Refresh(launch) ==
    /\ Holds("refresh", launch)
    /\ queue' = IF entry.nonce = launch THEN <<Task("reading", launch)>> \o Tail(queue) ELSE Unlock
    /\ UNCHANGED <<entry, starts, calls, procs, persisted, failed, left>>

SameNonce(launch) == entry.nonce = launch

ApplyRefresh(launch) ==
    /\ Holds("reading", launch)
    /\ queue' = Unlock
    /\ IF SameNonce(launch)
       THEN LET file == procs[launch].file IN
            /\ starts' = [s \in Starts |->
                    IF starts[s].pc = "waiting" /\ starts[s].proc = launch /\ entry.proc = launch
                    THEN [starts[s] EXCEPT !.pc = "ready"] ELSE starts[s]]
            /\ entry' = [entry EXCEPT !.file = file, !.shown = TRUE,
                                      !.watch = IF file = entry.file THEN @ ELSE file # None]
            /\ persisted' = IF file = entry.file THEN persisted ELSE entry.status
       ELSE UNCHANGED <<entry, starts, persisted>>
    /\ UNCHANGED <<calls, procs, failed, left>>

-----------------------------------------------------------------------------
(* RPC requests and user input, which take no lock.                            *)

HasRpc == entry.mode = "rpc" /\ entry.proc # None /\ entry.status = "active"

SendCall(c) ==
    /\ calls[c].pc = "idle" /\ Use("calls")
    /\ calls' = [calls EXCEPT ![c] = [pc |-> IF HasRpc THEN "pending" ELSE "error",
                                      proc |-> IF HasRpc THEN entry.proc ELSE None]]
    /\ UNCHANGED <<entry, queue, starts, procs, persisted, failed>>

\* handleRpcLine: only lines of the entry's own child are read.
AnswerCall(c) ==
    /\ calls[c].pc = "pending" /\ entry.proc = calls[c].proc /\ procs[calls[c].proc].alive
    /\ calls' = [calls EXCEPT ![c].pc = "ok"]
    /\ UNCHANGED <<entry, queue, starts, procs, persisted, failed, left>>

LoseCall(c) ==
    /\ calls[c].pc = "pending"
    /\ calls' = [calls EXCEPT ![c].pc = "error"]
    /\ UNCHANGED <<entry, queue, starts, procs, persisted, failed, left>>

\* Mutant: input is accepted while the initial prompt is pending.
AcceptsInput_Pending == entry.mode = "terminal" /\ entry.proc # None /\ entry.status = "active"
AcceptsInput == entry.mode = "terminal" /\ entry.proc # None /\ entry.status = "active" /\ entry.pending # entry.proc

Write ==
    /\ AcceptsInput
    /\ Use("inputs")
    /\ procs' = [procs EXCEPT ![entry.proc].got = Append(@, "input")]
    /\ UNCHANGED <<entry, queue, starts, calls, persisted, failed>>

-----------------------------------------------------------------------------
(* The processes.                                                              *)

\* Pi's extension writes the sync file: the file it was resumed with, or one of its own.
\* What a stopped process still writes has a nonce nobody reads any more.
Report(launch) ==
    /\ procs[launch].alive /\ ~procs[launch].signalled
    /\ \E file \in {procs[launch].file, launch} :
        procs' = [procs EXCEPT ![launch].ready = TRUE, ![launch].file = file]
    /\ UNCHANGED <<entry, queue, starts, calls, persisted, failed, left>>

\* A timer that finds its process gone does nothing.
Die(launch) ==
    /\ procs[launch].alive
    /\ procs' = [procs EXCEPT ![launch].alive = FALSE, ![launch].timer = FALSE]
    /\ UNCHANGED <<entry, queue, starts, calls, persisted, failed, left>>

\* onProcessExit and onRpcProcessExit; a stopped process is not listened to.
HearExit(launch) ==
    /\ ~procs[launch].alive /\ ~procs[launch].told /\ entry.proc = launch
    /\ procs' = [procs EXCEPT ![launch].told = TRUE]
    /\ entry' = [Unlinked(entry) EXCEPT !.status = "dormant"]
    /\ calls' = CallsRejected
    /\ starts' = StartsStopped(starts, entry)
    /\ persisted' = "dormant" /\ failed' = "no"
    /\ UNCHANGED <<queue, left>>

ForceKill(launch) ==
    /\ procs[launch].timer
    /\ procs' = [procs EXCEPT ![launch].timer = FALSE, ![launch].alive = FALSE]
    /\ UNCHANGED <<entry, queue, starts, calls, persisted, failed, left>>

-----------------------------------------------------------------------------
StartStep(s) ==
    \/ BeginStart(s) \/ PrepareStart(s) \/ FailToPrepare(s)
    \/ SpawnTerminal(s) \/ SpawnRpc(s) \/ FailToSpawn(s)
    \/ AnswerPrompt(s) \/ LosePrompt(s) \/ CatchStart(s)
    \/ Resume(s) \/ SubmitPrompt(s) \/ SubmitFails(s) \/ CleanUp(s)

LockStep ==
    \/ Hibernate \/ Remove \/ NotifyPromptSubmitted
    \/ \E launch \in DOMAIN procs : Refresh(launch) \/ ApplyRefresh(launch)

Next ==
    \/ \E s \in Starts : RequestStart(s) \/ StartStep(s) \/ TimeOutReadiness(s)
    \/ \E op \in Lifecycle : Request(op)
    \/ LockStep
    \/ \E launch \in DOMAIN procs :
        ScheduleRefresh(launch) \/ Report(launch) \/ Die(launch) \/ HearExit(launch) \/ ForceKill(launch)
    \/ Write
    \/ \E c \in Calls : SendCall(c) \/ AnswerCall(c) \/ LoseCall(c)

Spec == Init /\ [][Next]_vars

\* Promises, timers and exit events: what the server and the operating system do in time.
FairSpec ==
    /\ Spec
    /\ WF_vars(LockStep)
    /\ \A s \in Starts : WF_vars(StartStep(s)) /\ WF_vars(TimeOutReadiness(s))
    /\ \A c \in Calls : WF_vars(LoseCall(c))
    /\ \A launch \in Starts :
        WF_vars(launch \in DOMAIN procs /\ (HearExit(launch) \/ ForceKill(launch)))

-----------------------------------------------------------------------------
(* Properties.                                                                 *)

Active(s) == starts[s].pc \notin {"idle", "ok", "error"}
AtRest == queue = <<>> /\ \A s \in Starts : ~Active(s)

TypeOK ==
    /\ entry \in [status : {"none", "new", "active", "dormant"}, mode : Modes,
                  proc : Launches, pending : Launches, nonce : 0 .. Next_Launch, file : Launches,
                  shown : BOOLEAN, watch : BOOLEAN]
    /\ \A s \in Starts : starts[s].proc \in Launches
    /\ \A c \in Calls : calls[c].proc \in Launches
    /\ persisted \in {"new", "active", "dormant"}
    /\ failed \in {"no", "unprepared", "unspawned", "spawned"}

\* No process is forgotten: one that runs and was not told to end is the session's own,
\* whatever starts, stops and removals crossed (stopProcess before every replacement).
NoStrayProcess ==
    \A launch \in DOMAIN procs :
        procs[launch].alive /\ ~procs[launch].signalled => entry.proc = launch

\* A start that answers ok has put its prompt first into its own terminal, and one that
\* answers with an error has not, whoever replaced, stopped or typed meanwhile.
PromptGoesFirst ==
    \A s \in Starts :
        starts[s].mode = "terminal" /\ starts[s].prompt /\ starts[s].proc # None =>
            LET got == procs[starts[s].proc].got IN
            /\ starts[s].pc = "ok" => got # <<>> /\ Head(got) = "prompt"
            /\ starts[s].pc # "ok" => got = <<>>
            /\ \A i \in 2 .. Len(got) : got[i] # "prompt"

\* When nothing is in progress a session is active exactly while it has a process, and the
\* read model says so, unless a start failed: that is only told to clients, not to the read
\* model, and when the session directory could not be made it stays active without a process.
RestIsKnown ==
    AtRest /\ failed # "unprepared" =>
        /\ (entry.status = "active") = (entry.proc # None)
        /\ entry.status = "active" => persisted = "active"
        /\ persisted = "active" /\ entry.status \notin {"active", "none"} => failed # "no"

\* A session that does not run shows no status, waits for no answer and follows no file,
\* unless a start with a session file failed before it had a process.
StoppedIsQuiet ==
    entry.status # "active" =>
        /\ entry.proc = None /\ entry.nonce = None
        /\ \A c \in Calls : calls[c].pc # "pending"
        /\ entry.shown \/ entry.watch => failed = "unspawned"

\* Both: what the manager, its clients and the read model hold of a session is true of its
\* process, at rest and while it is stopped (stopProcess, onProcessExit, the catch branches).
StatusIsTrue == RestIsKnown /\ StoppedIsQuiet

\* Every start and every RPC request is answered.
RequestsEnd ==
    /\ \A s \in Starts : Active(s) ~> ~Active(s)
    /\ \A c \in Calls : calls[c].pc = "pending" ~> calls[c].pc # "pending"

=============================================================================
