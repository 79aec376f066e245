------------------------ MODULE ClaudeSessionManager ------------------------
(***************************************************************************)
(* The PTY session manager of the Claude Code, Codex and OMP harnesses     *)
(* (terminal/Layers/ClaudeSessionManager.ts).                              *)
(*                                                                         *)
(* Every operation on a thread's session runs under that thread's promise  *)
(* lock.  startSession is the only locked task with an await inside, so it *)
(* is two actions (Begin, then Finish or Fail) and everything unlocked -   *)
(* writes, exits, other threads, the kill timers - can interleave between  *)
(* them.  Bulk operations (LRU reconciliation, bulk hibernation, purge)    *)
(* take a snapshot of the map and then await one locked task per victim:   *)
(* they are Jobs, and the map may change under them.                       *)
(***************************************************************************)
EXTENDS Integers, Sequences, FiniteSets

CONSTANTS
    Thread,        \* thread ids
    HarnessOrder,  \* the harnesses, in the order reconcileActiveSessions visits them
    Proc,          \* PTY handles; the bound on how many exist at once
    NoProc,        \* entry.process = null
    Job,           \* slots for snapshot-then-await loops in flight
    NoJob,         \* a locked task requested directly by a client
    Shutdown,      \* a locked task requested by hibernateAll
    Caps,          \* the values maxActiveHarnessSessions may take
    MaxQueue,      \* how many tasks of clients may wait for one thread's lock
    Requests       \* the client operations enabled in a model

Harness == {HarnessOrder[i] : i \in DOMAIN HarnessOrder}

Operation == {"start", "hibernate", "destroy", "write", "setMax", "purge", "shutdown"}

ASSUME ConstantsAssumption ==
    /\ IsFiniteSet(Thread)
    /\ HarnessOrder \in Seq(STRING)
    /\ HarnessOrder # <<>>
    /\ NoProc \notin Proc
    /\ NoJob \notin Job
    /\ Shutdown \notin Job
    /\ NoJob # Shutdown
    /\ Caps \subseteq Nat \ {0}
    /\ Caps # {}
    /\ MaxQueue \in Nat \ {0}
    /\ Requests \subseteq Operation

VARIABLES
    sessions,   \* the threads that have an entry in the sessions map
    status,     \* entry.status
    process,    \* entry.process
    harness,    \* entry.harness
    idle,       \* rank of entry.lastInteractedAt: sessions used more recently
    locks,      \* threadLocks: the tasks chained on a thread; the head holds the lock
    spawning,   \* threads whose head task is a startSession awaiting its PTY
    job,        \* the snapshot loops in flight
    maxActive,  \* this.maxActiveSessions
    proc,       \* what has become of each PTY child
    timers,     \* killEscalationTimers
    registry,   \* the session process registry's files: harness and thread to PTY
    persisted,  \* thread.terminalStatus as wsServer's event handler records it
    captured,   \* entries hibernateAll's pending timeout will stop
    server      \* life of the process

entryVars == <<sessions, status, process, harness, idle>>
procVars == <<proc, timers, registry>>
vars == <<sessions, status, process, harness, idle, locks, spawning, job,
          maxActive, proc, timers, registry, persisted, captured, server>>

TerminalStatus == {"new", "active", "dormant"}

Task == [op: {"start", "hibernate", "destroy", "purge"},
         harness: Harness,
         by: Job \cup {NoJob, Shutdown}]

JobState == [kind: {"none", "reconcile", "bulk", "purge"},
             void: BOOLEAN,                     \* nobody handles its rejection
             cap: Caps,
             next: Nat,                         \* next harness to visit
             victims: Seq(Thread),              \* still to come
             except: SUBSET Thread,
             waiting: BOOLEAN]                  \* awaiting a victim's locked task

TypeOK ==
    /\ sessions \in SUBSET Thread
    /\ status \in [Thread -> TerminalStatus]
    /\ process \in [Thread -> Proc \cup {NoProc}]
    /\ harness \in [Thread -> Harness]
    /\ idle \in [Thread -> Nat]
    /\ locks \in [Thread -> Seq(Task)]
    /\ spawning \in SUBSET Thread
    /\ job \in [Job -> JobState]
    /\ maxActive \in Caps
    /\ proc \in [Proc -> {"free", "live", "exited", "signalled"}]
    /\ timers \in SUBSET Proc
    /\ registry \in [Harness -> [Thread -> Proc \cup {NoProc}]]
    /\ persisted \in [Thread -> TerminalStatus]
    /\ captured \in SUBSET Thread
    /\ server \in {"up", "closing", "disposed", "crashed"}

DefaultHarness == HarnessOrder[1]
SomeCap == CHOOSE c \in Caps : TRUE

NoJobState ==
    [kind |-> "none", void |-> FALSE, cap |-> SomeCap, next |-> 1,
     victims |-> <<>>, except |-> {}, waiting |-> FALSE]

Init ==
    /\ sessions = {}
    /\ status = [t \in Thread |-> "new"]
    /\ process = [t \in Thread |-> NoProc]
    /\ harness = [t \in Thread |-> DefaultHarness]
    /\ idle = [t \in Thread |-> 0]
    /\ locks = [t \in Thread |-> <<>>]
    /\ spawning = {}
    /\ job = [j \in Job |-> NoJobState]
    /\ maxActive \in Caps
    /\ proc = [p \in Proc |-> "free"]
    /\ timers = {}
    /\ registry = [h \in Harness |-> [t \in Thread |-> NoProc]]
    /\ persisted = [t \in Thread |-> "new"]
    /\ captured = {}
    /\ server = "up"

-----------------------------------------------------------------------------
(* Helpers *)

\* The map's entries that hold a PTY: what every snapshot filters for.
Running == {t \in sessions : status[t] = "active" /\ process[t] # NoProc}
Active(h) == {t \in Running : harness[t] = h}

\* lastInteractedAt = Date.now(): t becomes the least idle session.
Touched(t) ==
    [u \in Thread |->
        IF u = t THEN 0
        ELSE IF u \in sessions /\ (t \notin sessions \/ idle[u] < idle[t])
             THEN idle[u] + 1 ELSE idle[u]]

Forgotten(t) ==
    [u \in Thread |->
        IF u = t THEN 0
        ELSE IF u \in sessions /\ idle[u] > idle[t] THEN idle[u] - 1 ELSE idle[u]]

Enqueued(queue, t, op, h, by) ==
    [queue EXCEPT ![t] = Append(@, [op |-> op, harness |-> h, by |-> by])]

\* runWithThreadLock's finally: the head's release lets the next task in.
Released(t) == [locks EXCEPT ![t] = Tail(@)]

Report_StartedOnly(ts, st) ==
    persisted' = [t \in Thread |-> IF t \in ts /\ st = "active"
                                   THEN st ELSE persisted[t]]

\* wsServer's subscription records started, hibernated and exited events; it is
\* released before the manager is disposed.
Report(ts, st) ==
    persisted' = [t \in Thread |-> IF t \in ts /\ server # "disposed"
                                   THEN st ELSE persisted[t]]

Holds(t, op) == locks[t] # <<>> /\ Head(locks[t]).op = op

Runs == server \in {"up", "closing", "disposed"}

Signalled(ps) ==
    [p \in Proc |-> IF p \notin ps THEN proc[p]
                    ELSE IF proc[p] = "live" THEN "signalled" ELSE "free"]

Unregistered(ts) ==
    [h \in Harness |->
        [t \in Thread |-> IF t \in ts /\ harness[t] = h THEN NoProc ELSE registry[h][t]]]

\* Mutant: no SIGKILL follows.
StopProcesses_NoEscalation(ts) ==
    /\ proc' = Signalled({process[t] : t \in ts} \ {NoProc})
    /\ timers' = timers
    /\ registry' = Unregistered(ts)

\* stopProcess, for a set of entries: unregister, unsubscribe from the PTY,
\* send SIGTERM and arm the SIGKILL timer.  (A child that has already exited
\* takes no signal and has no listener left.)
StopProcesses(ts) ==
    /\ proc' = Signalled({process[t] : t \in ts} \ {NoProc})
    /\ timers' = timers \cup ({process[t] : t \in ts} \ {NoProc})
    /\ registry' = Unregistered(ts)

\* entry.process = null
WithoutProcess(ts) == [t \in Thread |-> IF t \in ts THEN NoProc ELSE process[t]]

\* sessions.delete(threadId)
DropEntry(t) ==
    /\ sessions' = sessions \ {t}
    /\ status' = [status EXCEPT ![t] = "new"]
    /\ process' = [process EXCEPT ![t] = NoProc]
    /\ harness' = [harness EXCEPT ![t] = DefaultHarness]
    /\ idle' = Forgotten(t)
    /\ captured' = captured \ {t}

-----------------------------------------------------------------------------
(* Snapshot loops *)

Excess_OffByOne(h, cap) ==
    {t \in Active(h) : Cardinality({u \in Active(h) : idle[u] < idle[t]}) > cap}

\* Sessions with at least `cap` more recently used ones in their harness.
Excess(h, cap) ==
    {t \in Active(h) : Cardinality({u \in Active(h) : idle[u] < idle[t]}) >= cap}

\* The orders in which an array sorted by lastInteractedAt may list S.
OldestFirst(S) ==
    {vs \in [1..Cardinality(S) -> S] :
        \A a, b \in 1..Cardinality(S) : a < b => idle[vs[a]] > idle[vs[b]]}

FreeJob(j) == job[j].kind = "none"

HarnessesOver(cap, from) ==
    {k \in from..Len(HarnessOrder) : Excess(HarnessOrder[k], cap) # {}}

\* reconcileActiveSessions(cap) from harness number `from` on, up to its next
\* await.  It reads the entries as the step that runs it leaves them (hence the
\* primes); `queue` is what that step leaves of the locks, and `goesOn` says that j is
\* this loop already: a call that has nothing to hibernate needs no loop.
ReconcileFrom(j, goesOn, void, cap, from, queue) ==
    \E c \in {cap}, f \in {from} :     \* the arguments' values before the step
      \/ /\ HarnessesOver(c, f)' = {}
         /\ job' = IF goesOn THEN [job EXCEPT ![j] = NoJobState] ELSE job
         /\ locks' = queue
      \/ \E k \in HarnessesOver(c, f)' :
           /\ goesOn \/ FreeJob(j)
           /\ \A i \in HarnessesOver(c, f)' : k <= i
           /\ \E vs \in OldestFirst(Excess(HarnessOrder[k], c))' :
                /\ job' = [job EXCEPT ![j] =
                             [kind |-> "reconcile", void |-> void, cap |-> c,
                              next |-> k + 1, victims |-> Tail(vs), except |-> {},
                              waiting |-> TRUE]]
                /\ locks' = Enqueued(queue, vs[1], "hibernate", DefaultHarness, j)

\* Enter a loop over `vs`, up to its first await if there is one.
AwaitLoop(j, kind, vs, except, op) ==
    /\ job' = [job EXCEPT ![j] =
                 [kind |-> kind, void |-> FALSE, cap |-> SomeCap, next |-> 1,
                  victims |-> IF vs = <<>> THEN <<>> ELSE Tail(vs),
                  except |-> except, waiting |-> vs # <<>>]]
    /\ locks' = IF vs = <<>> THEN locks
                ELSE Enqueued(locks, vs[1], op, DefaultHarness, j)

\* A settled victim lets its loop go on; `done` says the task did its work.
Settled(by, t, done) ==
    [j \in Job |->
        IF j # by THEN job[j]
        ELSE IF job[j].kind = "reconcile" /\ ~done
             THEN NoJobState                        \* the rejection leaves the loop
        ELSE [job[j] EXCEPT !.waiting = FALSE,
                            !.except = IF job[j].kind = "bulk" /\ done
                                       THEN @ \cup {t} ELSE @]]

-----------------------------------------------------------------------------
(* Client operations: each joins the thread's lock queue *)

\* The bound on the queue leaves out a start that is already running.
Request(t, op, h) ==
    /\ op \in Requests
    /\ server \in {"up", "closing"}
    /\ Len(locks[t]) < MaxQueue + (IF t \in spawning THEN 1 ELSE 0)
    /\ locks' = Enqueued(locks, t, op, h, NoJob)
    /\ UNCHANGED <<entryVars, procVars, spawning, job, maxActive, persisted,
                   captured, server>>

\* writeToSession and resizeSession: no lock, only an active PTY.
Interact(t) ==
    /\ "write" \in Requests
    /\ server \in {"up", "closing"}
    /\ t \in Running
    /\ idle' = Touched(t)
    /\ UNCHANGED <<sessions, status, process, harness, locks, spawning, job,
                   maxActive, procVars, persisted, captured, server>>

SetMaxActiveSessions(n, j) ==
    /\ "setMax" \in Requests
    /\ server \in {"up", "closing"}
    /\ maxActive' = n
    /\ UNCHANGED <<entryVars, procVars, spawning, persisted, captured, server>>
    /\ ReconcileFrom(j, FALSE, FALSE, n, 1, locks)

\* serverPurgeInactiveSessions: hibernateActiveSessions if asked, then purge.
PurgeInactive(ex, hibernateFirst, j) ==
    /\ "purge" \in Requests
    /\ server \in {"up", "closing"}
    /\ FreeJob(j)
    /\ \E vs \in IF hibernateFirst THEN OldestFirst(Running \ ex) ELSE {<<>>} :
         AwaitLoop(j, "bulk", vs, ex, "hibernate")
    /\ UNCHANGED <<entryVars, procVars, spawning, maxActive, persisted, captured,
                   server>>

-----------------------------------------------------------------------------
(* Locked tasks *)

ProcessToReplace_None(t) == {}

\* existing?.process
ProcessToReplace(t) == {u \in {t} \cap sessions : process[u] # NoProc}

\* startSession up to its first await: stop what runs, reset the entry.
BeginStart(t) ==
    /\ Runs
    /\ Holds(t, "start")
    /\ t \notin spawning
    /\ StopProcesses(ProcessToReplace(t))
    /\ spawning' = spawning \cup {t}
    /\ sessions' = sessions \cup {t}
    /\ status' = [status EXCEPT ![t] = "new"]
    /\ process' = WithoutProcess({t})
    /\ harness' = [harness EXCEPT ![t] = Head(locks[t]).harness]
    /\ idle' = Touched(t)
    /\ captured' = IF t \in sessions THEN captured ELSE captured \ {t}
    /\ UNCHANGED <<locks, job, maxActive, persisted, server>>

\* The PTY is up: adopt it, register it, announce it, reconcile.
FinishStart(t, p, j) ==
    /\ Runs
    /\ t \in spawning
    /\ proc[p] = "free"
    /\ p \notin timers
    /\ proc' = [proc EXCEPT ![p] = "live"]
    /\ spawning' = spawning \ {t}
    /\ registry' = [registry EXCEPT ![Head(locks[t]).harness][t] = p]
    /\ process' = [process EXCEPT ![t] = p]
    /\ status' = [status EXCEPT ![t] = "active"]
    /\ Report({t}, "active")
    /\ UNCHANGED <<sessions, harness, idle, maxActive, timers, captured, server>>
    /\ ReconcileFrom(j, FALSE, TRUE, maxActive, 1, Released(t))

\* A bad cwd, a proxy or OMP directory that cannot be made, a failed spawn.
FailStart(t) ==
    /\ Runs
    /\ t \in spawning
    /\ spawning' = spawning \ {t}
    /\ locks' = Released(t)
    /\ registry' = [registry EXCEPT ![Head(locks[t]).harness][t] = NoProc]
    /\ UNCHANGED <<entryVars, job, maxActive, proc, timers, persisted, captured,
                   server>>

Hibernate(t) ==
    /\ Runs
    /\ Holds(t, "hibernate")
    /\ t \in sessions
    /\ StopProcesses({t})
    /\ process' = WithoutProcess({t})
    /\ status' = [status EXCEPT ![t] = "dormant"]
    /\ Report({t}, "dormant")
    /\ locks' = Released(t)
    /\ job' = Settled(Head(locks[t]).by, t, TRUE)
    /\ UNCHANGED <<sessions, harness, idle, spawning, maxActive, captured, server>>

\* "No session found for thread": rejects.  A reconciliation nobody awaits is
\* an unhandled rejection, which ends the Node process.
HibernateMissing(t) ==
    /\ Runs
    /\ Holds(t, "hibernate")
    /\ t \notin sessions
    /\ locks' = Released(t)
    /\ job' = Settled(Head(locks[t]).by, t, FALSE)
    /\ LET by == Head(locks[t]).by IN
       server' = IF by \in Job /\ job[by].kind = "reconcile" /\ job[by].void
                 THEN "crashed" ELSE server
    /\ UNCHANGED <<entryVars, procVars, spawning, maxActive, persisted, captured>>

Destroy(t) ==
    /\ Runs
    /\ Holds(t, "destroy")
    /\ IF t \in sessions
       THEN /\ StopProcesses({t})
            /\ DropEntry(t)
       ELSE UNCHANGED <<entryVars, procVars, captured>>
    /\ locks' = Released(t)
    /\ UNCHANGED <<spawning, job, maxActive, persisted, server>>

StillInactive_Unchecked(t) == t \in sessions

\* purgeInactiveSessions looks again once it holds the lock.
StillInactive(t) == t \in sessions /\ status[t] # "active"

PurgeOne(t) ==
    /\ Runs
    /\ Holds(t, "purge")
    /\ IF StillInactive(t)
       THEN /\ StopProcesses({t})
            /\ DropEntry(t)
       ELSE UNCHANGED <<entryVars, procVars, captured>>
    /\ locks' = Released(t)
    /\ job' = Settled(Head(locks[t]).by, t, TRUE)
    /\ UNCHANGED <<spawning, maxActive, persisted, server>>

-----------------------------------------------------------------------------
(* A loop whose last await has settled *)

NextVictim(j, op) ==
    /\ job[j].victims # <<>>
    /\ job' = [job EXCEPT ![j].waiting = TRUE, ![j].victims = Tail(@)]
    /\ locks' = Enqueued(locks, Head(job[j].victims), op, DefaultHarness, j)

\* The dormant and the new entries outside `ex`, in the map's order.
PurgeCandidates(ex) == {t \in sessions \ ex : status[t] # "active"}

AnyOrder(S) ==
    {vs \in [1..Cardinality(S) -> S] :
        \A a, b \in 1..Cardinality(S) : a # b => vs[a] # vs[b]}

ResumeJob(j) ==
    /\ Runs
    /\ ~FreeJob(j)
    /\ ~job[j].waiting
    /\ UNCHANGED <<entryVars, procVars, spawning, maxActive, persisted, captured,
                   server>>
    /\ \/ /\ job[j].kind = "reconcile"
          /\ \/ NextVictim(j, "hibernate")
             \/ /\ job[j].victims = <<>>
                /\ ReconcileFrom(j, TRUE, job[j].void, job[j].cap, job[j].next, locks)
       \/ /\ job[j].kind = "bulk"
          /\ \/ NextVictim(j, "hibernate")
             \/ /\ job[j].victims = <<>>
                /\ \E vs \in AnyOrder(PurgeCandidates(job[j].except)) :
                     AwaitLoop(j, "purge", vs, job[j].except, "purge")
       \/ /\ job[j].kind = "purge"
          /\ \/ NextVictim(j, "purge")
             \/ /\ job[j].victims = <<>>
                /\ job' = [job EXCEPT ![j] = NoJobState]
                /\ UNCHANGED locks

-----------------------------------------------------------------------------
(* PTY children and timers *)

\* The child ends; its exit event is not yet delivered.  A child that was told
\* to stop has no listener left.
ChildEnds(p) ==
    /\ Runs
    /\ proc[p] \in {"live", "signalled"}
    /\ proc' = [proc EXCEPT ![p] = IF @ = "live" THEN "exited" ELSE "free"]
    /\ UNCHANGED <<entryVars, locks, spawning, job, maxActive, timers, registry,
                   persisted, captured, server>>

\* onExit: the callback acts only if the entry still holds this very PTY.
OnExit(p) ==
    /\ Runs
    /\ proc[p] = "exited"
    /\ proc' = [proc EXCEPT ![p] = "free"]
    /\ timers' = timers \ {p}
    /\ LET ts == {t \in Thread : process[t] = p} IN
       /\ process' = WithoutProcess(ts)
       /\ status' = [t \in Thread |-> IF t \in ts THEN "dormant" ELSE status[t]]
       /\ Report(ts, "dormant")
    /\ registry' = [h \in Harness |->
                      [t \in Thread |-> IF registry[h][t] = p
                                        THEN NoProc ELSE registry[h][t]]]
    /\ UNCHANGED <<sessions, harness, idle, locks, spawning, job, maxActive,
                   captured, server>>

\* killProcessWithEscalation's timer: SIGKILL.
KillTimer(p) ==
    /\ Runs
    /\ p \in timers
    /\ timers' = timers \ {p}
    /\ proc' = [proc EXCEPT ![p] = IF @ = "signalled" THEN "free" ELSE @]
    /\ UNCHANGED <<entryVars, locks, spawning, job, maxActive, registry,
                   persisted, captured, server>>

-----------------------------------------------------------------------------
(* Shutdown: wsServer's finalizer runs hibernateAll, the layer then disposes *)

HibernateAll ==
    /\ "shutdown" \in Requests
    /\ server = "up"
    /\ server' = "closing"
    /\ captured' = Running
    /\ locks' = [t \in Thread |->
                   IF t \in Running
                   THEN Append(locks[t], [op |-> "hibernate", harness |-> DefaultHarness,
                                          by |-> Shutdown])
                   ELSE locks[t]]
    /\ UNCHANGED <<entryVars, procVars, spawning, job, maxActive, persisted>>

AllSettled == \A t \in Thread : \A i \in DOMAIN locks[t] : locks[t][i].by # Shutdown

\* The five second timer is never cancelled: it fires whether or not every
\* hibernation settled first, and stops what the captured entries hold.
HibernateAllTimeout ==
    /\ Runs
    /\ captured # {}
    /\ StopProcesses(captured)
    /\ process' = WithoutProcess(captured)
    /\ captured' = {}
    /\ UNCHANGED <<sessions, status, harness, idle, locks, spawning, job,
                   maxActive, persisted, server>>

\* dispose(): stop everything, then cancel the escalation timers as well.
Dispose ==
    /\ server = "closing"
    /\ AllSettled \/ captured = {}
    /\ server' = "disposed"
    /\ proc' = Signalled({process[t] : t \in sessions} \ {NoProc})
    /\ timers' = {}
    /\ registry' = Unregistered(sessions)
    /\ sessions' = {}
    /\ status' = [t \in Thread |-> "new"]
    /\ process' = [t \in Thread |-> NoProc]
    /\ harness' = [t \in Thread |-> DefaultHarness]
    /\ idle' = [t \in Thread |-> 0]
    /\ UNCHANGED <<locks, spawning, job, maxActive, persisted, captured>>

-----------------------------------------------------------------------------

LockStep(t) ==
    \/ BeginStart(t)
    \/ \E p \in Proc, j \in Job : FinishStart(t, p, j)
    \/ FailStart(t)
    \/ Hibernate(t)
    \/ HibernateMissing(t)
    \/ Destroy(t)
    \/ PurgeOne(t)

Client ==
    \/ \E t \in Thread : \/ \E h \in Harness : Request(t, "start", h)
                         \/ \E op \in {"hibernate", "destroy"} :
                              Request(t, op, DefaultHarness)
                         \/ Interact(t)
    \/ \E j \in Job : \/ \E n \in Caps : SetMaxActiveSessions(n, j)
                      \/ \E ex \in SUBSET Thread, hib \in BOOLEAN :
                           PurgeInactive(ex, hib, j)
    \/ HibernateAll

Next ==
    \/ Client
    \/ \E t \in Thread : LockStep(t)
    \/ \E j \in Job : ResumeJob(j)
    \/ \E p \in Proc : ChildEnds(p) \/ OnExit(p) \/ KillTimer(p)
    \/ HibernateAllTimeout
    \/ Dispose

Spec == Init /\ [][Next]_vars

(* The scheduler runs every promise reaction and timer that is due; a spawn   *)
(* settles one way or the other.  Nothing obliges clients or children to act. *)
Fairness ==
    /\ \A t \in Thread : WF_vars(LockStep(t))
    /\ \A j \in Job : WF_vars(ResumeJob(j))
    /\ \A p \in Proc : WF_vars(OnExit(p)) /\ WF_vars(KillTimer(p))

FairSpec == Spec /\ Fairness

-----------------------------------------------------------------------------
(* Properties *)

\* A PTY belongs to at most one entry, and an entry never points at a child
\* that was told to stop: a restart, an exit and a forced stop that overlap
\* (startSession, onExit, hibernateAll's timeout) must each let go of it.
OneOwner ==
    \A t, u \in Thread :
        process[t] # NoProc =>
            /\ proc[process[t]] \in {"live", "exited"}
            /\ process[t] = process[u] => t = u

\* No child runs without an entry that can write to it, hibernate it or count
\* it against the cap, however starts, deletions and purges interleave.  Only
\* dispose() with a spawn in flight can leave one behind.
NoOrphanChild ==
    \A p \in Proc :
        proc[p] = "live" =>
            server \notin {"up", "closing"} \/ \E t \in sessions : process[t] = p

\* Every child the manager has not told to stop belongs to exactly one entry.
HasOneOwner == OneOwner /\ NoOrphanChild

\* A start that awaits its PTY still holds the thread's lock, its entry is in
\* the map and no PTY is attached to it: nothing that runs during the await
\* may delete, purge or restart the session underneath it.
StartIsExclusive ==
    \A t \in spawning :
        /\ Holds(t, "start")
        /\ process[t] = NoProc
        /\ server \in {"up", "closing"} => t \in sessions

\* "active" says exactly that the entry has a PTY: the status that guards writes and that
\* every snapshot filters on is never half of a restart.
StatusMatchesProcess ==
    server = "up" =>
        \A t \in Thread : (t \in sessions /\ status[t] = "active") <=> process[t] # NoProc

\* The registry's files name exactly the PTYs the manager runs, under the harness that
\* runs them.
RegistryExact ==
    server \in {"up", "closing"} =>
        \A h \in Harness, t \in Thread :
            registry[h][t] = IF harness[t] = h THEN process[t] ELSE NoProc

\* The read model says "active" for each session with a PTY and "dormant" for each one put
\* to sleep.
PersistedStatusFollows ==
    server \in {"up", "closing"} =>
        \A t \in sessions :
            /\ status[t] = "active" => persisted[t] = "active"
            /\ status[t] = "dormant" => persisted[t] = "dormant"

\* What is written down about a session, its status, its registry file and the status the
\* read model keeps, follows its PTY through restarts that change the harness, exits and
\* forced stops (startSession, onExit, wsServer's subscription).
RecordsFollow == StatusMatchesProcess /\ RegistryExact /\ PersistedStatusFollows

\* No locked task and no loop is in flight.
AtRest ==
    /\ server = "up"
    /\ \A t \in Thread : locks[t] = <<>>
    /\ \A j \in Job : FreeJob(j)

\* When no locked task and no loop is in flight, no harness runs more sessions
\* than the cap (the promise of reconcileActiveSessions after every start and
\* every change of the cap).
CapAtRest == AtRest => \A h \in Harness : Cardinality(Active(h)) <= maxActive

\* A purge removes no session that holds a PTY by then, although its snapshot listed it as
\* inactive, none its client excluded and none the same request has just hibernated.
PurgeSparesInUse ==
    [][\A t \in sessions \ sessions' :
          Holds(t, "purge") /\ server' = server =>
              /\ process[t] = NoProc
              /\ \A j \in Job : Head(locks[t]).by = j => t \notin job[j].except]_vars

\* A child told to stop is gone after the grace period, unless the server goes
\* first: killProcessWithEscalation's timer outlives the entry.
StoppedChildEnds ==
    \A p \in Proc :
        proc[p] = "signalled" ~> (proc[p] # "signalled" \/ server \in {"disposed", "crashed"})

\* Every snapshot loop ends, whatever its victims do meanwhile: no chain of
\* per-thread locks waits on itself.
LoopsEnd ==
    \A j \in Job : ~FreeJob(j) ~> (FreeJob(j) \/ server = "crashed")

\* Both: what a client asked for comes to an end, and so do the children it stopped.
LoopsAndChildrenEnd == LoopsEnd /\ StoppedChildEnds
=============================================================================
