--------------------------- MODULE TerminalManager ---------------------------
(***************************************************************************)
(* The drawer's shell terminals (terminal/Layers/Manager.ts).              *)
(*                                                                         *)
(* open, clear, restart and close run under their thread's promise lock    *)
(* and await the file system, the write queue or the spawn in the middle;  *)
(* output, exits, debounce timers, writes to disk, activity polls and the  *)
(* calls of other threads happen at those awaits.  Node runs the code      *)
(* between two awaits without interruption, and continues every call whose *)
(* promise has resolved before the next event of the event loop: events    *)
(* are guarded by Settled.                                                 *)
(*                                                                         *)
(* The text of a history is abstracted to the number of its last edit      *)
(* (output or reset); 0 is no history at all.  Sizes of the window, wire   *)
(* events, exit codes and the list of fallback shells are left out.        *)
(***************************************************************************)
EXTENDS Integers, Sequences, FiniteSets

CONSTANTS
    Thread,       \* thread ids
    TerminalId,   \* terminal ids within a thread
    Config,       \* a cwd with a runtime environment
    Session,      \* session objects; the bound on how many exist at once
    NoSession,    \* no entry in a map
    Shell,        \* PTY handles (and pids); the bound on how many exist at once
    NoShell,      \* session.process = null
    Call,         \* slots for requests in progress
    MaxRetained,  \* maxRetainedInactiveSessions
    MaxVersion,   \* bound on the edits of a history a model explores
    Requests,     \* the requests and events enabled in a model
    Faults        \* what may fail: "cwd", "spawn", "write"

Operation == {"open", "clear", "restart", "close", "closeAll"}   \* under the lock
Request == Operation \cup {"touch", "output", "poll", "dispose"}

ASSUME ConstantsAssumption ==
    /\ IsFiniteSet(Session)
    /\ Thread # {} /\ TerminalId # {} /\ Config # {}
    /\ NoSession \notin Session
    /\ NoShell \notin Shell
    /\ MaxRetained \in Nat
    /\ MaxVersion \in Nat
    /\ Requests \subseteq Request
    /\ Faults \subseteq {"cwd", "spawn", "write"}

VARIABLES
    sessions,    \* the sessions map
    key,         \* session.threadId and session.terminalId
    status,      \* session.status
    process,     \* session.process; its data and exit handlers are subscribed
    config,      \* session.cwd and session.runtimeEnv
    buffer,      \* session.historyBuffer: the last edit it holds
    busy,        \* session.hasRunningSubprocess
    idle,        \* rank of session.lastInteractedAt: sessions used more recently
    polling,     \* subprocessPollTimer is set
    poll,        \* the pids the poll in flight asked about, per session
    pending,     \* pendingPersistHistory
    timer,       \* the keys with a persistTimer
    queued,      \* the keys with a persistQueues entry: their newest write
    writes,      \* unfinished writes of a key, oldest first
    file,        \* the history on disk
    version,     \* history variable: the last edit of a key's history
    call,        \* the requests in progress
    locks,       \* threadLocks: the calls chained on a thread; the head holds it
    shell,       \* what has become of each PTY
    killTimers,  \* killEscalationTimers
    disposed     \* dispose() has run

mapVars == <<sessions, idle>>
sessionVars == <<key, status, process, config, busy>>
pollVars == <<polling, poll>>
queueVars == <<pending, timer, queued, writes>>
historyVars == <<buffer, file, version>>
callVars == <<call, locks>>
shellVars == <<shell, killTimers>>
vars == <<sessions, idle, key, status, process, config, busy, polling, poll,
          pending, timer, queued, writes, buffer, file, version, call, locks,
          shell, killTimers, disposed>>

Key == Thread \X TerminalId          \* toSessionKey
KeysOf(th) == {k \in Key : k[1] = th}
SomeKey(th) == CHOOSE k \in KeysOf(th) : TRUE
SomeConfig == CHOOSE c \in Config : TRUE

Status == {"starting", "running", "exited", "error"}

Write == [version: Nat,
          chained: BOOLEAN,        \* runs after the write before it
          waiters: SUBSET Call]

CallState == [op: Operation \cup {"none"},
              key: Key,
              config: Config,
              delete: BOOLEAN,
              step: {"idle", "queued", "stat", "read", "persist", "spawn",
                     "closing", "flush", "delete"},
              session: Session \cup {NoSession},
              left: SUBSET Session,      \* the sessions a close has still to stop
              flushing: SUBSET Key,      \* the keys whose flushPersistQueue is running
              wrote: SUBSET Key]         \* of these, those whose own write it awaited last

NoCall == [op |-> "none", key |-> SomeKey(CHOOSE th \in Thread : TRUE),
           config |-> SomeConfig, delete |-> FALSE, step |-> "idle",
           session |-> NoSession, left |-> {}, flushing |-> {}, wrote |-> {}]

TypeOK ==
    /\ sessions \in [Key -> Session \cup {NoSession}]
    /\ key \in [Session -> Key]
    /\ status \in [Session -> Status]
    /\ process \in [Session -> Shell \cup {NoShell}]
    /\ config \in [Session -> Config]
    /\ buffer \in [Session -> Nat]
    /\ busy \in [Session -> BOOLEAN]
    /\ idle \in [Session -> Nat]
    /\ polling \in BOOLEAN
    /\ poll \in [Session -> Shell \cup {NoShell}]
    /\ pending \in [Key -> Session \cup {NoSession}]
    /\ timer \in SUBSET Key
    /\ queued \in SUBSET Key
    /\ writes \in [Key -> Seq(Write)]
    /\ file \in [Key -> Nat]
    /\ version \in [Key -> Nat]
    /\ call \in [Call -> CallState]
    /\ locks \in [Thread -> Seq(Call)]
    /\ shell \in [Shell -> {"free", "running", "signalled", "dead"}]
    /\ killTimers \in SUBSET Shell
    /\ disposed \in BOOLEAN

\* A server start: the map is empty, a history may be left from an earlier run.
Init ==
    /\ sessions = [k \in Key |-> NoSession]
    /\ key = [o \in Session |-> NoCall.key]
    /\ status = [o \in Session |-> "exited"]
    /\ process = [o \in Session |-> NoShell]
    /\ config = [o \in Session |-> SomeConfig]
    /\ buffer = [o \in Session |-> 0]
    /\ busy = [o \in Session |-> FALSE]
    /\ idle = [o \in Session |-> 0]
    /\ polling = FALSE
    /\ poll = [o \in Session |-> NoShell]
    /\ pending = [k \in Key |-> NoSession]
    /\ timer = {}
    /\ queued = {}
    /\ writes = [k \in Key |-> <<>>]
    /\ file \in [Key -> {0, 1}]
    /\ version = file
    /\ call = [c \in Call |-> NoCall]
    /\ locks = [th \in Thread |-> <<>>]
    /\ shell = [p \in Shell |-> "free"]
    /\ killTimers = {}
    /\ disposed = FALSE

-----------------------------------------------------------------------------
(* The event loop *)

Awaiting(c, k) == \E i \in DOMAIN writes[k] : c \in writes[k][i].waiters

Ready_Unlocked(c) ==
    \/ call[c].step \in {"queued", "closing"}
    \/ /\ call[c].step = "flush"
       /\ call[c].flushing = {} \/ \E k \in call[c].flushing : ~Awaiting(c, k)
    \/ /\ call[c].step = "persist"
       /\ ~Awaiting(c, call[c].key)

\* The promise call c awaits has resolved, or it is in the middle of its code.
Ready(c) ==
    \/ /\ call[c].step = "queued"
       /\ Head(locks[call[c].key[1]]) = c
    \/ call[c].step = "closing"
    \/ /\ call[c].step = "flush"
       /\ call[c].flushing = {} \/ \E k \in call[c].flushing : ~Awaiting(c, k)
    \/ /\ call[c].step = "persist"
       /\ ~Awaiting(c, call[c].key)

Settled == \A c \in Call : ~Ready(c)

\* Call c may run: nobody else is between two awaits.
Continues(c) ==
    /\ Ready(c)
    /\ \A d \in Call \ {c} : call[d].step # "closing"

\* The end of runWithThreadLock's task.
Finish(c) ==
    /\ call' = [call EXCEPT ![c] = NoCall]
    /\ locks' = [locks EXCEPT ![call[c].key[1]] = Tail(@)]

Goto(c, step) ==
    /\ call' = [call EXCEPT ![c].step = step]
    /\ UNCHANGED locks

-----------------------------------------------------------------------------
(* The map, its retention and the polling timer *)

Registered(sess) == {sess[k] : k \in Key} \ {NoSession}

\* The ranks of the sessions of S when the others have left.
Ranked(rank, S) ==
    [o \in Session |-> IF o \in S THEN Cardinality({u \in S : rank[u] < rank[o]}) ELSE 0]

\* lastInteractedAt = now.
Touched(o) ==
    [u \in Session |->
        IF u = o THEN 0
        ELSE IF u \in Registered(sessions) /\ (o \notin Registered(sessions) \/ idle[u] < idle[o])
             THEN idle[u] + 1 ELSE idle[u]]

Inactive(sess, stat) == {o \in Registered(sess) : stat[o] # "running"}

\* evictInactiveSessionsIfNeeded: the keys of all but the MaxRetained most
\* recently used sessions that are not running.
Evicted(sess, stat, rank) ==
    {k \in Key :
        /\ sess[k] \in Inactive(sess, stat)
        /\ Cardinality({o \in Inactive(sess, stat) : rank[o] < rank[sess[k]]}) >= MaxRetained}

RemoveFromMap(sess, rank, K) ==
    LET rest == [k \in Key |-> IF k \in K THEN NoSession ELSE sess[k]]
    IN  /\ sessions' = rest
        /\ idle' = Ranked(rank, Registered(rest))

\* An evicted key also loses its debounce timer, its pending history and its queue.
DropPersistence(K) ==
    /\ pending' = [k \in Key |-> IF k \in K THEN NoSession ELSE pending[k]]
    /\ timer' = timer \ K
    /\ queued' = queued \ K
    /\ UNCHANGED writes

Asked(sess, stat, proc) ==
    [o \in Session |-> IF o \in Registered(sess) /\ stat[o] = "running" THEN proc[o] ELSE NoShell]

PollInFlight == \E o \in Session : poll[o] # NoShell

HasRunning(sess, stat) == \E o \in Registered(sess) : stat[o] = "running"

\* updateSubprocessPollingState; setting the timer also polls at once.
UpdatePolling ==
    /\ polling' = HasRunning(sessions', status')
    /\ poll' = IF polling' /\ ~polling /\ ~PollInFlight /\ "poll" \in Requests
               THEN Asked(sessions', status', process') ELSE poll

-----------------------------------------------------------------------------
(* The process of a session *)

\* stopProcess up to the eviction it ends with: the handlers are unsubscribed,
\* SIGTERM is sent and SIGKILL scheduled.
StopProcess(o) ==
    IF process[o] = NoShell
    THEN UNCHANGED <<status, process, busy, shell, killTimers>>
    ELSE /\ status' = [status EXCEPT ![o] = "exited"]
         /\ process' = [process EXCEPT ![o] = NoShell]
         /\ busy' = [busy EXCEPT ![o] = FALSE]
         /\ shell' = [shell EXCEPT ![process[o]] = "signalled"]
         /\ killTimers' = killTimers \cup {process[o]}

\* The eviction and the polling update it ends with, when there was a process.
EvictedByStop(o) ==
    IF process[o] = NoShell THEN {} ELSE Evicted(sessions, status', idle)

\* startSession up to the await of its spawn.
StartSession(c, o) ==
    /\ status' = [status EXCEPT ![o] = "starting"]
    /\ busy' = [busy EXCEPT ![o] = FALSE]
    /\ call' = [call EXCEPT ![c].step = "spawn", ![c].session = o]
    /\ UNCHANGED <<locks, process>>

PollingAfterStop(o) ==
    IF process[o] = NoShell THEN UNCHANGED pollVars ELSE UpdatePolling

-----------------------------------------------------------------------------
(* The history's write queue *)

\* enqueuePersistWrite: behind the write the key's queue entry stands for.
Enqueued(k, chained, v, waiters) ==
    [writes EXCEPT ![k] =
        Append(@, [version |-> v, chained |-> chained, waiters |-> waiters])]

\* persistHistory, after the keys K were evicted; call c awaits the write.
PersistHistory(K, k, v, c) ==
    /\ pending' = [x \in Key |-> IF x \in K \cup {k} THEN NoSession ELSE pending[x]]
    /\ timer' = timer \ (K \cup {k})
    /\ writes' = Enqueued(k, k \in queued \ K, v, {c})
    /\ queued' = (queued \ K) \cup {k}

\* historyBuffer.clear()
ClearBuffer(o, k) ==
    /\ version' = [version EXCEPT ![k] = @ + 1]
    /\ buffer' = [buffer EXCEPT ![o] = version[k] + 1]
    /\ UNCHANGED file

-----------------------------------------------------------------------------
(* Requests and the lock *)

RequestCall(c, op, k, cfg, del) ==
    /\ Settled
    /\ ~disposed
    /\ call[c].step = "idle"
    /\ version[k] < MaxVersion
    /\ cfg = SomeConfig \/ op \in {"open", "restart"}
    /\ del => op \in {"close", "closeAll"}
    /\ op = "closeAll" => k = SomeKey(k[1])
    /\ call' = [call EXCEPT ![c] =
                    [NoCall EXCEPT !.op = op, !.key = k, !.config = cfg,
                                   !.delete = del, !.step = "queued"]]
    /\ locks' = [locks EXCEPT ![k[1]] = Append(@, c)]
    /\ UNCHANGED <<mapVars, sessionVars, pollVars, queueVars, historyVars, shellVars, disposed>>

\* open and restart first await assertValidCwd.
BeginStart(c) ==
    /\ Continues(c)
    /\ call[c].step = "queued"
    /\ call[c].op \in {"open", "restart"}
    /\ Goto(c, "stat")
    /\ UNCHANGED <<mapVars, sessionVars, pollVars, queueVars, historyVars, shellVars, disposed>>

\* clear: requireSession throws when there is none.
BeginClear(c) ==
    LET k == call[c].key IN
    /\ Continues(c)
    /\ call[c].step = "queued"
    /\ call[c].op = "clear"
    /\ \/ /\ sessions[k] = NoSession
          /\ Finish(c)
          /\ UNCHANGED <<queueVars, historyVars>>
       \/ /\ sessions[k] # NoSession
          /\ ClearBuffer(sessions[k], k)
          /\ PersistHistory({}, k, version'[k], c)
          /\ call' = [call EXCEPT ![c].step = "persist", ![c].session = sessions[k]]
          /\ UNCHANGED locks
    /\ UNCHANGED <<mapVars, sessionVars, pollVars, shellVars, disposed>>

BeginClose_OnlyOne(c) ==
    LET k == call[c].key IN
    /\ Continues(c)
    /\ call[c].step = "queued"
    /\ call[c].op \in {"close", "closeAll"}
    /\ call' = [call EXCEPT ![c].step = "closing",
                            ![c].left = {sessions[k]} \ {NoSession},
                            ![c].flushing = {k}]
    /\ UNCHANGED <<mapVars, sessionVars, pollVars, queueVars, historyVars, locks, shellVars, disposed>>

\* close: the sessions to stop and the queues to flush, one key or the thread's.
BeginClose(c) ==
    LET k == call[c].key
        present == {x \in KeysOf(k[1]) : sessions[x] # NoSession}
        targets == IF call[c].op = "close" THEN {k} ELSE present IN
    /\ Continues(c)
    /\ call[c].step = "queued"
    /\ call[c].op \in {"close", "closeAll"}
    /\ call' = [call EXCEPT ![c].step = "closing",
                            ![c].left = {sessions[x] : x \in targets} \ {NoSession},
                            ![c].flushing = targets]
    /\ UNCHANGED <<mapVars, sessionVars, pollVars, queueVars, historyVars, locks, shellVars, disposed>>

-----------------------------------------------------------------------------
(* open and restart, once the cwd is known *)

StatFails_KeepsLock(c) ==
    /\ Settled
    /\ call[c].step = "stat"
    /\ "cwd" \in Faults
    /\ call' = [call EXCEPT ![c] = NoCall]
    /\ UNCHANGED locks
    /\ UNCHANGED <<mapVars, sessionVars, pollVars, queueVars, historyVars, shellVars, disposed>>

\* A cwd that is no directory, or any error of stat, rejects the request.
StatFails(c) ==
    /\ Settled
    /\ call[c].step = "stat"
    /\ "cwd" \in Faults
    /\ Finish(c)
    /\ UNCHANGED <<mapVars, sessionVars, pollVars, queueVars, historyVars, shellVars, disposed>>

\* The first open of a key flushes what an earlier session may have left.
OpenAbsent(c) ==
    LET k == call[c].key IN
    /\ Settled
    /\ call[c].step = "stat"
    /\ call[c].op = "open"
    /\ sessions[k] = NoSession
    /\ call' = [call EXCEPT ![c].step = "flush", ![c].flushing = {k}]
    /\ timer' = timer \ {k}
    /\ UNCHANGED <<mapVars, sessionVars, pollVars, pending, queued, writes,
                   historyVars, locks, shellVars, disposed>>

\* A session object nothing refers to any more.
Unused(o) ==
    /\ o \notin Registered(sessions)
    /\ \A c \in Call : o # call[c].session /\ o \notin call[c].left
    /\ \A k \in Key : pending[k] # o
    /\ process[o] = NoShell
    /\ poll[o] = NoShell

\* A new session for key k, most recently used of all, status "starting".
CreateSession(o, k, cfg) ==
    /\ Unused(o)
    /\ key' = [key EXCEPT ![o] = k]
    /\ config' = [config EXCEPT ![o] = cfg]
    /\ status' = [status EXCEPT ![o] = "starting"]
    /\ busy' = [busy EXCEPT ![o] = FALSE]

\* The map with the new session, and what its arrival evicts.
Inserted(o, k) == [sessions EXCEPT ![k] = o]
EvictedByInsert(o, k) == Evicted(Inserted(o, k), status', Touched(o))

\* readHistory returned: the session enters the map and its shell is spawned.
ReadHistory(c, o) ==
    LET k == call[c].key IN
    /\ Settled
    /\ call[c].step = "read"
    /\ CreateSession(o, k, call[c].config)
    /\ buffer' = [buffer EXCEPT ![o] = file[k]]
    /\ RemoveFromMap(Inserted(o, k), Touched(o), EvictedByInsert(o, k))
    /\ DropPersistence(EvictedByInsert(o, k))
    /\ call' = [call EXCEPT ![c].step = "spawn", ![c].session = o]
    /\ UNCHANGED <<locks, process, file, version, pollVars, shellVars, disposed>>

\* open of a session with another cwd or environment, or whose shell is gone.
OpenReset(c) ==
    LET k == call[c].key
        o == sessions[k]
        changed == config[o] # call[c].config IN
    /\ Settled
    /\ call[c].step = "stat"
    /\ call[c].op = "open"
    /\ o # NoSession
    /\ changed \/ status[o] \in {"exited", "error"}
    /\ IF changed THEN StopProcess(o)
       ELSE UNCHANGED <<status, process, busy, shell, killTimers>>
    /\ config' = [config EXCEPT ![o] = call[c].config]
    /\ LET K == IF changed THEN EvictedByStop(o) ELSE {} IN
       /\ RemoveFromMap(sessions, idle, K)
       /\ ClearBuffer(o, k)
       /\ PersistHistory(K, k, version'[k], c)
    /\ IF changed THEN PollingAfterStop(o) ELSE UNCHANGED pollVars
    /\ call' = [call EXCEPT ![c].step = "persist", ![c].session = o]
    /\ UNCHANGED <<locks, key, disposed>>

\* open of a session whose shell is running.
OpenAttach(c) ==
    LET o == sessions[call[c].key] IN
    /\ Settled
    /\ call[c].step = "stat"
    /\ call[c].op = "open"
    /\ o # NoSession
    /\ config[o] = call[c].config
    /\ status[o] \notin {"exited", "error"}
    /\ \/ /\ process[o] # NoShell
          /\ Finish(c)
          /\ UNCHANGED sessionVars
       \/ /\ process[o] = NoShell
          /\ StartSession(c, o)
          /\ UNCHANGED <<key, config>>
    /\ UNCHANGED <<mapVars, pollVars, queueVars, historyVars, shellVars, disposed>>

\* restart of a key without a session: nothing is flushed or read.
RestartAbsent(c, o) ==
    LET k == call[c].key IN
    /\ Settled
    /\ call[c].step = "stat"
    /\ call[c].op = "restart"
    /\ sessions[k] = NoSession
    /\ CreateSession(o, k, call[c].config)
    /\ RemoveFromMap(Inserted(o, k), Touched(o), EvictedByInsert(o, k))
    /\ ClearBuffer(o, k)
    /\ PersistHistory(EvictedByInsert(o, k), k, version'[k], c)
    /\ call' = [call EXCEPT ![c].step = "persist", ![c].session = o]
    /\ UNCHANGED <<locks, process, pollVars, shellVars, disposed>>

RestartPresent(c) ==
    LET k == call[c].key
        o == sessions[k] IN
    /\ Settled
    /\ call[c].step = "stat"
    /\ call[c].op = "restart"
    /\ o # NoSession
    /\ StopProcess(o)
    /\ config' = [config EXCEPT ![o] = call[c].config]
    /\ LET K == EvictedByStop(o) IN
       /\ RemoveFromMap(sessions, idle, K)
       /\ ClearBuffer(o, k)
       /\ PersistHistory(K, k, version'[k], c)
    /\ PollingAfterStop(o)
    /\ call' = [call EXCEPT ![c].step = "persist", ![c].session = o]
    /\ UNCHANGED <<locks, key, disposed>>

\* The reset history is on disk: start the shell, or answer a clear.
Persisted(c) ==
    LET o == call[c].session IN
    /\ Continues(c)
    /\ call[c].step = "persist"
    /\ \/ /\ call[c].op = "restart" \/ (call[c].op = "open" /\ process[o] = NoShell)
          /\ StartSession(c, o)
          /\ UNCHANGED <<key, config>>
       \/ /\ call[c].op = "clear" \/ (call[c].op = "open" /\ process[o] # NoShell)
          /\ Finish(c)
          /\ UNCHANGED sessionVars
    /\ UNCHANGED <<mapVars, pollVars, queueVars, historyVars, shellVars, disposed>>

\* startSession after a shell was spawned: the session object c holds runs it.
Spawned(c, p) ==
    LET o == call[c].session IN
    /\ Settled
    /\ call[c].step = "spawn"
    /\ shell[p] = "free"
    /\ shell' = [shell EXCEPT ![p] = "running"]
    /\ process' = [process EXCEPT ![o] = p]
    /\ status' = [status EXCEPT ![o] = "running"]
    /\ Finish(c)
    /\ UNCHANGED mapVars
    /\ UpdatePolling
    /\ UNCHANGED <<key, config, busy, queueVars, historyVars, killTimers, disposed>>

\* No shell of the list could be spawned; the request still succeeds.
SpawnFails(c) ==
    LET o == call[c].session IN
    /\ Settled
    /\ call[c].step = "spawn"
    /\ "spawn" \in Faults
    /\ status' = [status EXCEPT ![o] = "error"]
    /\ process' = [process EXCEPT ![o] = NoShell]
    /\ busy' = [busy EXCEPT ![o] = FALSE]
    /\ LET K == Evicted(sessions, status', idle) IN
       /\ RemoveFromMap(sessions, idle, K)
       /\ DropPersistence(K)
    /\ UpdatePolling
    /\ Finish(c)
    /\ UNCHANGED <<key, config, historyVars, shellVars, disposed>>

-----------------------------------------------------------------------------
(* close *)

\* One turn of close's loop: stop the session, delete its key from the map.
CloseNext(c, o) ==
    /\ Continues(c)
    /\ call[c].step = "closing"
    /\ o \in call[c].left
    /\ StopProcess(o)
    /\ LET K == EvictedByStop(o) IN
       /\ RemoveFromMap(sessions, idle, K \cup {key[o]})
       /\ DropPersistence(K)
    /\ PollingAfterStop(o)
    /\ call' = [call EXCEPT ![c].left = @ \ {o}]
    /\ UNCHANGED <<locks, key, config, historyVars, disposed>>

\* flushPersistQueue begins for every closed key.
CloseFlush(c) ==
    /\ Continues(c)
    /\ call[c].step = "closing"
    /\ call[c].left = {}
    /\ timer' = timer \ call[c].flushing
    /\ Goto(c, "flush")
    /\ UNCHANGED mapVars /\ UNCHANGED sessionVars
    /\ IF call[c].op = "close" THEN UpdatePolling ELSE UNCHANGED pollVars
    /\ UNCHANGED <<pending, queued, writes, historyVars, shellVars, disposed>>

FlushStep_NoWait(c, k) ==
    /\ Continues(c)
    /\ call[c].step = "flush"
    /\ k \in call[c].flushing
    /\ call' = [call EXCEPT ![c].flushing = @ \ {k}]
    /\ pending' = [pending EXCEPT ![k] = NoSession]
    /\ \/ /\ pending[k] # NoSession
          /\ writes' = Enqueued(k, k \in queued, buffer[pending[k]], {})
          /\ queued' = queued \cup {k}
       \/ /\ pending[k] = NoSession
          /\ UNCHANGED <<queued, writes>>
    /\ UNCHANGED <<mapVars, sessionVars, pollVars, timer, historyVars, locks, shellVars, disposed>>

\* One turn of flushPersistQueue's loop for key k: write what is pending and await
\* it, or wait for the newest write, or return.  After a write of its own it goes on
\* to the queue without looking at what is pending.
FlushStep(c, k) ==
    LET looks == k \notin call[c].wrote IN
    /\ Continues(c)
    /\ call[c].step = "flush"
    /\ k \in call[c].flushing
    /\ ~Awaiting(c, k)
    /\ \/ /\ looks /\ pending[k] # NoSession
          /\ writes' = Enqueued(k, k \in queued, buffer[pending[k]], {c})
          /\ pending' = [pending EXCEPT ![k] = NoSession]
          /\ queued' = queued \cup {k}
          /\ call' = [call EXCEPT ![c].wrote = @ \cup {k}]
       \/ /\ looks => pending[k] = NoSession
          /\ k \in queued
          /\ writes' = [writes EXCEPT ![k][Len(writes[k])].waiters = @ \cup {c}]
          /\ call' = [call EXCEPT ![c].wrote = @ \ {k}]
          /\ UNCHANGED <<pending, queued>>
       \/ /\ looks => pending[k] = NoSession
          /\ k \notin queued
          /\ call' = [call EXCEPT ![c].flushing = @ \ {k}, ![c].wrote = @ \ {k}]
          /\ UNCHANGED <<pending, queued, writes>>
    /\ UNCHANGED <<mapVars, sessionVars, pollVars, timer, historyVars, locks, shellVars, disposed>>

\* Every queue is empty: read the file, delete it, or be done.
Flushed(c) ==
    /\ Continues(c)
    /\ call[c].step = "flush"
    /\ call[c].flushing = {}
    /\ \/ /\ call[c].op = "open"
          /\ Goto(c, "read")
       \/ /\ call[c].op # "open"
          /\ call[c].delete
          /\ Goto(c, "delete")
       \/ /\ call[c].op # "open"
          /\ ~call[c].delete
          /\ Finish(c)
    /\ UNCHANGED mapVars /\ UNCHANGED sessionVars
    /\ IF call[c].op = "closeAll" /\ ~call[c].delete THEN UpdatePolling ELSE UNCHANGED pollVars
    /\ UNCHANGED <<queueVars, historyVars, shellVars, disposed>>

\* deleteHistory, or deleteAllHistoryForThread for a close without terminal id.
DeleteHistory(c) ==
    LET k == call[c].key
        gone == IF call[c].op = "close" THEN {k} ELSE KeysOf(k[1]) IN
    /\ Settled
    /\ call[c].step = "delete"
    /\ file' = [x \in Key |-> IF x \in gone THEN 0 ELSE file[x]]
    /\ version' = [x \in Key |-> IF x \in gone THEN 0 ELSE version[x]]
    /\ Finish(c)
    /\ UNCHANGED mapVars /\ UNCHANGED sessionVars
    /\ IF call[c].op = "closeAll" THEN UpdatePolling ELSE UNCHANGED pollVars
    /\ UNCHANGED <<buffer, queueVars, shellVars, disposed>>

-----------------------------------------------------------------------------
(* What happens to the shells and the sessions outside the lock *)

\* write and resize on a running session.
Touch(k) ==
    LET o == sessions[k] IN
    /\ Settled
    /\ "touch" \in Requests
    /\ ~disposed
    /\ o # NoSession
    /\ process[o] # NoShell
    /\ status[o] = "running"
    /\ idle' = Touched(o)
    /\ UNCHANGED <<sessions, sessionVars, pollVars, queueVars, historyVars,
                   callVars, shellVars, disposed>>

\* onProcessData and queuePersist.
ProcessData(o) ==
    LET k == key[o] IN
    /\ Settled
    /\ "output" \in Requests
    /\ process[o] # NoShell
    /\ version[k] < MaxVersion
    /\ version' = [version EXCEPT ![k] = @ + 1]
    /\ buffer' = [buffer EXCEPT ![o] = version[k] + 1]
    /\ pending' = [pending EXCEPT ![k] = o]
    /\ timer' = timer \cup {k}
    /\ UNCHANGED <<mapVars, sessionVars, pollVars, queued, writes, file,
                   callVars, shellVars, disposed>>

\* A shell whose exit handler is subscribed exits: onProcessExit.
ProcessExit(o) ==
    /\ Settled
    /\ process[o] # NoShell
    /\ shell' = [shell EXCEPT ![process[o]] = "free"]
    /\ killTimers' = killTimers \ {process[o]}
    /\ process' = [process EXCEPT ![o] = NoShell]
    /\ status' = [status EXCEPT ![o] = "exited"]
    /\ busy' = [busy EXCEPT ![o] = FALSE]
    /\ LET K == Evicted(sessions, status', idle) IN
       /\ RemoveFromMap(sessions, idle, K)
       /\ DropPersistence(K)
    /\ UpdatePolling
    /\ UNCHANGED <<key, config, historyVars, callVars, disposed>>

\* A signalled shell exits by itself; nobody listens, its timer stays.
SignalledExits(p) ==
    /\ Settled
    /\ shell[p] = "signalled"
    /\ shell' = [shell EXCEPT ![p] = IF p \in killTimers THEN "dead" ELSE "free"]
    /\ UNCHANGED <<mapVars, sessionVars, pollVars, queueVars, historyVars,
                   callVars, killTimers, disposed>>

\* The grace period of killProcessWithEscalation ends: SIGKILL.
KillTimerFires(p) ==
    /\ Settled
    /\ p \in killTimers
    /\ killTimers' = killTimers \ {p}
    /\ shell' = [shell EXCEPT ![p] = "free"]
    /\ UNCHANGED <<mapVars, sessionVars, pollVars, queueVars, historyVars, callVars, disposed>>

\* The debounce timer of schedulePersist.
PersistTimerFires(k) ==
    /\ Settled
    /\ k \in timer
    /\ timer' = timer \ {k}
    /\ \/ /\ pending[k] = NoSession
          /\ UNCHANGED <<pending, queued, writes>>
       \/ /\ pending[k] # NoSession
          /\ pending' = [pending EXCEPT ![k] = NoSession]
          /\ writes' = Enqueued(k, k \in queued, buffer[pending[k]], {})
          /\ queued' = queued \cup {k}
    /\ UNCHANGED <<mapVars, sessionVars, pollVars, historyVars, callVars, shellVars, disposed>>

\* The unfinished writes of a key without the i-th; its successor may run.
Without(w, i) ==
    [j \in 1..(Len(w) - 1) |->
        IF j < i THEN w[j]
        ELSE IF j = i THEN [w[j + 1] EXCEPT !.chained = FALSE] ELSE w[j + 1]]

\* A writeFile ends; only the newest write takes the queue entry away, and
\* history that became pending meanwhile gets a timer.
WriteEnds(k, i, ok) ==
    LET w == writes[k] IN
    /\ Settled
    /\ i \in DOMAIN w
    /\ ~w[i].chained
    /\ ok \/ "write" \in Faults
    /\ file' = IF ok THEN [file EXCEPT ![k] = w[i].version] ELSE file
    /\ writes' = [writes EXCEPT ![k] = Without(w, i)]
    /\ queued' = IF i = Len(w) THEN queued \ {k} ELSE queued
    /\ timer' = IF pending[k] # NoSession THEN timer \cup {k} ELSE timer
    /\ UNCHANGED <<mapVars, sessionVars, pollVars, pending, buffer, version,
                   callVars, shellVars, disposed>>

-----------------------------------------------------------------------------
(* The activity poll *)

\* pollSubprocessActivity on the interval timer, up to its await.
PollBegins ==
    /\ Settled
    /\ "poll" \in Requests
    /\ polling
    /\ ~PollInFlight
    /\ polling' = HasRunning(sessions, status)
    /\ poll' = Asked(sessions, status, process)
    /\ UNCHANGED <<mapVars, sessionVars, queueVars, historyVars, callVars, shellVars, disposed>>

\* Its continuation, when ps found children of the pids in active: the pid of
\* a session is read again, and must be that of the key's session in the map.
PollEnds(active) ==
    /\ Settled
    /\ PollInFlight
    /\ active \subseteq {poll[o] : o \in Session} \ {NoShell}
    /\ busy' = [o \in Session |->
                    IF /\ poll[o] # NoShell
                       /\ sessions[key[o]] = o
                       /\ status[o] = "running"
                    THEN process[o] \in active ELSE busy[o]]
    /\ poll' = [o \in Session |-> NoShell]
    /\ UNCHANGED <<mapVars, key, status, process, config, polling, queueVars,
                   historyVars, callVars, shellVars, disposed>>

-----------------------------------------------------------------------------
(* The end of the layer's scope *)

\* dispose: calls in progress go on afterwards.
Dispose ==
    LET ours == Registered(sessions)
        stopped == {o \in ours : process[o] # NoShell} IN
    /\ Settled
    /\ "dispose" \in Requests
    /\ ~disposed
    /\ disposed' = TRUE
    /\ RemoveFromMap(sessions, idle, Key)
    /\ status' = [o \in Session |-> IF o \in stopped THEN "exited" ELSE status[o]]
    /\ process' = [o \in Session |-> IF o \in stopped THEN NoShell ELSE process[o]]
    /\ busy' = [o \in Session |-> busy[o] /\ o \notin stopped]
    /\ shell' = [p \in Shell |-> IF \E o \in stopped : process[o] = p THEN "signalled"
                                 ELSE IF shell[p] = "dead" THEN "free" ELSE shell[p]]
    /\ killTimers' = {}
    /\ pending' = [k \in Key |-> NoSession]
    /\ timer' = {}
    /\ queued' = {}
    /\ polling' = FALSE
    /\ UNCHANGED <<key, config, poll, writes, historyVars, callVars>>

-----------------------------------------------------------------------------
(* Specification *)

CallStep(c) ==
    \/ BeginStart(c) \/ BeginClear(c) \/ BeginClose(c)
    \/ StatFails(c) \/ OpenAbsent(c) \/ OpenReset(c) \/ OpenAttach(c) \/ RestartPresent(c)
    \/ \E o \in Session : ReadHistory(c, o) \/ RestartAbsent(c, o) \/ CloseNext(c, o)
    \/ Persisted(c) \/ SpawnFails(c)
    \/ \E p \in Shell : Spawned(c, p)
    \/ CloseFlush(c) \/ Flushed(c) \/ DeleteHistory(c)
    \/ \E k \in Key : FlushStep(c, k)

WriteStep(k) == \E i \in DOMAIN writes[k], ok \in BOOLEAN : WriteEnds(k, i, ok)

Environment ==
    \/ \E c \in Call, op \in Operation \cap Requests, k \in Key, cfg \in Config, del \in BOOLEAN :
          RequestCall(c, op, k, cfg, del)
    \/ \E k \in Key : Touch(k)
    \/ \E o \in Session : ProcessData(o) \/ ProcessExit(o)
    \/ \E p \in Shell : SignalledExits(p)
    \/ Dispose

Next ==
    \/ \E c \in Call : CallStep(c)
    \/ \E k \in Key : PersistTimerFires(k) \/ WriteStep(k)
    \/ \E p \in Shell : KillTimerFires(p)
    \/ PollBegins
    \/ \E active \in SUBSET Shell : PollEnds(active)
    \/ Environment

Spec == Init /\ [][Next]_vars
-----------------------------------------------------------------------------
(* Properties: of a manager that is not disposed.  What a shell started after *)
(* dispose leaves behind ends with the server.                                *)

\* A shell that runs and was not told to stop is the process of a session in
\* the map: close, restart and dispose can reach it (Manager.ts:723-735, 1045-1061).
NoLostShell ==
    \A p \in Shell : shell[p] = "running" /\ ~disposed =>
        \E k \in Key : sessions[k] # NoSession /\ process[sessions[k]] = p

\* "Close an active terminal session": when a close ends, no session of the
\* keys it was asked to close has a process (Manager.ts:521-545, 1045-1061).
CloseStopsShells ==
    [][\A c \in Call :
          call[c].op \in {"close", "closeAll"} /\ call'[c].op = "none" /\ ~disposed =>
              \A o \in Session :
                  \/ key[o] # call[c].key /\ call[c].op = "close"
                  \/ key[o][1] # call[c].key[1]
                  \/ process'[o] = NoShell]_vars

\* A session's buffer holds its key's whole history: an open restores what the
\* session before it wrote last, however late its writes (Manager.ts:344-377,
\* 814-890, 952-969).
HistoryIsRestored ==
    \A k \in Key : sessions[k] # NoSession /\ ~disposed => buffer[sessions[k]] = version[k]

\* A history that was deleted comes back only for a session in the map or by
\* the flush of a close: no late write resurrects it (Manager.ts:936-969, 1045-1088).
DeletedStaysDeleted ==
    [][\A k \in Key : file[k] = 0 /\ file'[k] # 0 =>
          \/ sessions[k] # NoSession \/ disposed
          \/ \E c \in Call : k \in call[c].flushing]_vars

\* No request waits for what will never happen: the lock chain, the flush loop
\* and the queue of writes never wait for each other (terminalUtils.ts:146-166,
\* Manager.ts:952-969).  "read" may wait for the model's next session object.
Due ==
    \/ \E c \in Call : CallStep(c)
    \/ \E k \in Key : PersistTimerFires(k) \/ WriteStep(k)
NeverStuck == (\E c \in Call : call[c].step \notin {"idle", "read"}) => ENABLED Due
=============================================================================
