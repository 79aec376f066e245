--------------------- MODULE ClaudeSessionManagerProofs ---------------------
(***************************************************************************)
(* Proofs about the session manager, for any set of threads, harnesses,    *)
(* PTYs, loop slots and caps.                                              *)
(***************************************************************************)
EXTENDS ClaudeSessionManager, FiniteSetTheorems, FunctionTheorems, SequenceTheorems,
        WellFoundedInduction, TLAPS

-----------------------------------------------------------------------------
(* What the helpers return *)

\* Every harness name in the visiting order is a harness.
LEMMA DefaultHarnessType == DefaultHarness \in Harness
<1>1. 1 \in DOMAIN HarnessOrder
  BY ConstantsAssumption
<1>. QED
  BY <1>1 DEF DefaultHarness, Harness

\* The idle slot of a loop is a loop state.
LEMMA NoJobStateType == NoJobState \in JobState
<1>1. SomeCap \in Caps
  BY ConstantsAssumption DEF SomeCap
<1>. QED
  BY <1>1 DEF NoJobState, JobState

\* An ordering of a set of threads is a sequence of threads with as many items.
LEMMA OrderingType ==
    ASSUME NEW S \in SUBSET Thread, NEW vs \in [1..Cardinality(S) -> S]
    PROVE  /\ vs \in Seq(Thread)
           /\ S # {} => vs # <<>> /\ vs[1] \in Thread /\ Tail(vs) \in Seq(Thread)
           /\ S = {} => vs = <<>>
<1>1. IsFiniteSet(S)
  BY FS_Subset, ConstantsAssumption
<1>2. Cardinality(S) \in Nat
  BY <1>1, FS_CardinalityType
<1>3. vs \in Seq(Thread) /\ Len(vs) = Cardinality(S)
  BY <1>2
<1>4. ASSUME S # {}
      PROVE  vs # <<>> /\ vs[1] \in Thread /\ Tail(vs) \in Seq(Thread)
  <2>1. Cardinality(S) # 0
    BY <1>1, <1>4, FS_EmptySet
  <2>. QED
    BY <2>1, <1>2, <1>3
<1>5. ASSUME S = {} PROVE vs = <<>>
  <2>1. Cardinality(S) = 0
    BY <1>5, FS_EmptySet
  <2>. QED
    BY <2>1, <1>3
<1>. QED
  BY <1>3, <1>4, <1>5

\* Joining a lock queue leaves the tasks ahead where they are.
LEMMA EnqueuedType ==
    ASSUME NEW queue \in [Thread -> Seq(Task)], NEW t \in Thread,
           NEW op \in {"start", "hibernate", "destroy", "purge"},
           NEW h \in Harness, NEW by \in Job \cup {NoJob, Shutdown}
    PROVE  /\ Enqueued(queue, t, op, h, by) \in [Thread -> Seq(Task)]
           /\ \A u \in Thread :
                queue[u] # <<>> =>
                  /\ Enqueued(queue, t, op, h, by)[u] # <<>>
                  /\ Head(Enqueued(queue, t, op, h, by)[u]) = Head(queue[u])
<1>. DEFINE task == [op |-> op, harness |-> h, by |-> by]
<1>1. task \in Task
  BY DEF Task
<1>2. ASSUME NEW s \in Seq(Task), s # <<>>
      PROVE  Append(s, task) # <<>> /\ Head(Append(s, task)) = Head(s)
  BY <1>1, <1>2
<1>. QED
  BY <1>1, <1>2 DEF Enqueued

\* What a reconciliation may do to the loops and the locks.
LEMMA ReconcileType ==
    ASSUME TypeOK, sessions' \in SUBSET Thread,
           NEW j \in Job, NEW goesOn \in BOOLEAN, NEW void \in BOOLEAN, NEW cap \in Caps,
           NEW from \in Nat, NEW queue \in [Thread -> Seq(Task)],
           ReconcileFrom(j, goesOn, void, cap, from, queue)
    PROVE  /\ job' \in [Job -> JobState]
           /\ locks' \in [Thread -> Seq(Task)]
           /\ \A u \in Thread :
                queue[u] # <<>> => locks'[u] # <<>> /\ Head(locks'[u]) = Head(queue[u])
<1>1. PICK c \in {cap}, f \in {from} :
        \/ /\ job' \in {job, [job EXCEPT ![j] = NoJobState]}
           /\ locks' = queue
        \/ \E k \in HarnessesOver(c, f)' :
             \E vs \in OldestFirst(Excess(HarnessOrder[k], c))' :
               /\ job' = [job EXCEPT ![j] =
                            [kind |-> "reconcile", void |-> void, cap |-> c,
                             next |-> k + 1, victims |-> Tail(vs), except |-> {},
                             waiting |-> TRUE]]
               /\ locks' = Enqueued(queue, vs[1], "hibernate", DefaultHarness, j)
  BY DEF ReconcileFrom
<1>2. CASE job' \in {job, [job EXCEPT ![j] = NoJobState]} /\ locks' = queue
  BY <1>2, NoJobStateType DEF TypeOK
<1>3. ASSUME NEW k \in HarnessesOver(c, f)',
             NEW vs \in OldestFirst(Excess(HarnessOrder[k], c))',
             job' = [job EXCEPT ![j] =
                       [kind |-> "reconcile", void |-> void, cap |-> c,
                        next |-> k + 1, victims |-> Tail(vs), except |-> {},
                        waiting |-> TRUE]],
             locks' = Enqueued(queue, vs[1], "hibernate", DefaultHarness, j)
      PROVE  /\ job' \in [Job -> JobState]
             /\ locks' \in [Thread -> Seq(Task)]
             /\ \A u \in Thread :
                  queue[u] # <<>> => locks'[u] # <<>> /\ Head(locks'[u]) = Head(queue[u])
  <2>. DEFINE S == Excess(HarnessOrder[k], c)'
  <2>1. k \in Nat /\ S # {}
    BY ConstantsAssumption DEF HarnessesOver
  <2>2. S \in SUBSET Thread
    BY DEF Excess, Active, Running
  <2>3. vs \in [1..Cardinality(S) -> S]
    BY DEF OldestFirst
  <2>4. vs \in Seq(Thread) /\ vs[1] \in Thread /\ Tail(vs) \in Seq(Thread)
    BY <2>1, <2>2, <2>3, OrderingType
  <2>5. [kind |-> "reconcile", void |-> void, cap |-> c, next |-> k + 1,
         victims |-> Tail(vs), except |-> {}, waiting |-> TRUE] \in JobState
    BY <2>1, <2>4 DEF JobState
  <2>6. job' \in [Job -> JobState]
    BY <2>5, <1>3 DEF TypeOK
  <2>7. /\ Enqueued(queue, vs[1], "hibernate", DefaultHarness, j) \in [Thread -> Seq(Task)]
        /\ \A u \in Thread :
             queue[u] # <<>> =>
               /\ Enqueued(queue, vs[1], "hibernate", DefaultHarness, j)[u] # <<>>
               /\ Head(Enqueued(queue, vs[1], "hibernate", DefaultHarness, j)[u])
                    = Head(queue[u])
    <3>. HIDE DEF S
    <3>1. vs[1] \in Thread /\ DefaultHarness \in Harness /\ j \in Job \cup {NoJob, Shutdown}
      BY <2>4, DefaultHarnessType
    <3>. QED
      BY <3>1, EnqueuedType
  <2>. QED
    BY ONLY <2>6, <2>7, <1>3
<1>. QED
  BY <1>1, <1>2, <1>3

\* Stopping processes keeps the tables of PTYs, timers and files well formed.
LEMMA StopProcessesType ==
    ASSUME TypeOK, NEW ts \in SUBSET Thread, StopProcesses(ts)
    PROVE  /\ proc' \in [Proc -> {"free", "live", "exited", "signalled"}]
           /\ timers' \in SUBSET Proc
           /\ registry' \in [Harness -> [Thread -> Proc \cup {NoProc}]]
<1>. USE DEF TypeOK
<1>1. {process[t] : t \in ts} \ {NoProc} \subseteq Proc
  OBVIOUS
<1>2. Signalled({process[t] : t \in ts} \ {NoProc})
        \in [Proc -> {"free", "live", "exited", "signalled"}]
  BY DEF Signalled
<1>3. Unregistered(ts) \in [Harness -> [Thread -> Proc \cup {NoProc}]]
  BY DEF Unregistered
<1>. QED
  BY <1>1, <1>2, <1>3 DEF StopProcesses

\* Releasing, touching, forgetting, reporting and settling are well typed.
LEMMA HelperTypes ==
    ASSUME TypeOK, NEW t \in Thread
    PROVE  /\ locks[t] # <<>> => Released(t) \in [Thread -> Seq(Task)]
           /\ Touched(t) \in [Thread -> Nat]
           /\ Forgotten(t) \in [Thread -> Nat]
           /\ locks[t] # <<>> => Head(locks[t]) \in Task
           /\ \A done \in BOOLEAN : \A by : Settled(by, t, done) \in [Job -> JobState]
           /\ \A ts : WithoutProcess(ts) \in [Thread -> Proc \cup {NoProc}]
<1>. USE DEF TypeOK
<1>1. locks[t] # <<>> => Head(locks[t]) \in Task /\ Tail(locks[t]) \in Seq(Task)
  OBVIOUS
<1>2. locks[t] # <<>> => Released(t) \in [Thread -> Seq(Task)]
  BY <1>1 DEF Released
<1>3. Touched(t) \in [Thread -> Nat]
  BY DEF Touched
<1>4. Forgotten(t) \in [Thread -> Nat]
  BY DEF Forgotten
<1>5. ASSUME NEW done \in BOOLEAN, NEW by
      PROVE  Settled(by, t, done) \in [Job -> JobState]
  <2>1. ASSUME NEW j \in Job
        PROVE  [job[j] EXCEPT !.waiting = FALSE,
                              !.except = IF job[j].kind = "bulk" /\ done
                                         THEN @ \cup {t} ELSE @] \in JobState
    BY DEF JobState
  <2>. QED
    BY <2>1, NoJobStateType DEF Settled
<1>6. \A ts : WithoutProcess(ts) \in [Thread -> Proc \cup {NoProc}]
  BY DEF WithoutProcess
<1>. QED
  BY <1>1, <1>2, <1>3, <1>4, <1>5, <1>6

\* Reporting a status keeps the reports well formed.
LEMMA ReportType ==
    ASSUME TypeOK, NEW ts, NEW st \in TerminalStatus, Report(ts, st)
    PROVE  persisted' \in [Thread -> TerminalStatus]
BY DEF Report, TypeOK

\* Dropping an entry keeps every table well formed.
LEMMA DropEntryType ==
    ASSUME TypeOK, NEW t \in Thread, DropEntry(t)
    PROVE  /\ sessions' \in SUBSET Thread
           /\ status' \in [Thread -> TerminalStatus]
           /\ process' \in [Thread -> Proc \cup {NoProc}]
           /\ harness' \in [Thread -> Harness]
           /\ idle' \in [Thread -> Nat]
           /\ captured' \in SUBSET Thread
BY HelperTypes, DefaultHarnessType DEF DropEntry, TypeOK, TerminalStatus

\* Entering a loop is well typed.
LEMMA AwaitLoopType ==
    ASSUME TypeOK, NEW j \in Job, NEW kind \in {"bulk", "purge"},
           NEW S \in SUBSET Thread, NEW vs \in [1..Cardinality(S) -> S],
           NEW except \in SUBSET Thread, NEW op \in {"hibernate", "purge"},
           AwaitLoop(j, kind, vs, except, op)
    PROVE  /\ job' \in [Job -> JobState]
           /\ locks' \in [Thread -> Seq(Task)]
           /\ \A u \in Thread :
                locks[u] # <<>> => locks'[u] # <<>> /\ Head(locks'[u]) = Head(locks[u])
<1>1. vs \in Seq(Thread) /\ (vs # <<>> => Tail(vs) \in Seq(Thread) /\ vs[1] \in Thread)
  <2>1. CASE S = {}
    BY <2>1, OrderingType
  <2>2. CASE S # {}
    BY <2>2, OrderingType
  <2>. QED
    BY <2>1, <2>2
<1>2. SomeCap \in Caps
  BY ConstantsAssumption DEF SomeCap
<1>3. [kind |-> kind, void |-> FALSE, cap |-> SomeCap, next |-> 1,
       victims |-> IF vs = <<>> THEN <<>> ELSE Tail(vs),
       except |-> except, waiting |-> vs # <<>>] \in JobState
  BY <1>1, <1>2 DEF JobState
<1>4. job' \in [Job -> JobState]
  BY <1>3 DEF AwaitLoop, TypeOK
<1>5. CASE vs = <<>>
  BY <1>4, <1>5 DEF AwaitLoop, TypeOK
<1>6. CASE vs # <<>>
  <2>1. locks \in [Thread -> Seq(Task)]
    BY DEF TypeOK
  <2>2. PICK v \in Thread : v = vs[1]
    BY <1>1, <1>6
  <2>3. locks' = Enqueued(locks, v, op, DefaultHarness, j)
    BY <1>6, <2>2 DEF AwaitLoop
  <2>4. op \in {"start", "hibernate", "destroy", "purge"} /\ j \in Job \cup {NoJob, Shutdown}
    OBVIOUS
  <2>5. /\ Enqueued(locks, v, op, DefaultHarness, j) \in [Thread -> Seq(Task)]
        /\ \A u \in Thread :
             locks[u] # <<>> =>
               /\ Enqueued(locks, v, op, DefaultHarness, j)[u] # <<>>
               /\ Head(Enqueued(locks, v, op, DefaultHarness, j)[u]) = Head(locks[u])
    BY <2>1, <2>4, EnqueuedType, DefaultHarnessType, SMTT(40)
  <2>. QED
    BY <2>3, <2>5, <1>4
<1>. QED
  BY <1>5, <1>6

-----------------------------------------------------------------------------
(* Type correctness *)

\* The initial state is well typed.
LEMMA InitType == Init => TypeOK
<1>1. {} \subseteq Proc /\ DefaultHarness \in Harness /\ NoJobState \in JobState
  BY DefaultHarnessType, NoJobStateType
<1>. QED
  BY <1>1 DEF Init, TypeOK, TerminalStatus

\* A client's request, and the start of a bulk operation.
LEMMA ClientType == TypeOK /\ Client => TypeOK'
<1>. SUFFICES ASSUME TypeOK, Client PROVE TypeOK'
  OBVIOUS
<1>1. ASSUME NEW t \in Thread, NEW h \in Harness,
             NEW op \in {"start", "hibernate", "destroy"}, Request(t, op, h)
      PROVE  TypeOK'
  <2>1. locks' \in [Thread -> Seq(Task)]
    BY <1>1, EnqueuedType DEF Request, TypeOK
  <2>. QED
    BY <2>1, <1>1 DEF Request, TypeOK, entryVars, procVars
<1>2. ASSUME NEW t \in Thread, Interact(t) PROVE TypeOK'
  BY <1>2, HelperTypes DEF Interact, TypeOK, procVars
<1>3. ASSUME NEW j \in Job, NEW n \in Caps, SetMaxActiveSessions(n, j) PROVE TypeOK'
  <2>1. ReconcileFrom(j, FALSE, FALSE, n, 1, locks) /\ sessions' = sessions
    BY <1>3 DEF SetMaxActiveSessions, entryVars
  <2>2. job' \in [Job -> JobState] /\ locks' \in [Thread -> Seq(Task)]
    <3>1. locks \in [Thread -> Seq(Task)] /\ sessions' \in SUBSET Thread
      BY <2>1 DEF TypeOK
    <3>. QED
      BY <2>1, <3>1, ReconcileType
  <2>. QED
    BY <2>2, <1>3 DEF SetMaxActiveSessions, TypeOK, entryVars, procVars
<1>4. ASSUME NEW j \in Job, NEW ex \in SUBSET Thread, NEW hib \in BOOLEAN,
             PurgeInactive(ex, hib, j)
      PROVE  TypeOK'
  <2>1. PICK vs \in IF hib THEN OldestFirst(Running \ ex) ELSE {<<>>} :
          AwaitLoop(j, "bulk", vs, ex, "hibernate")
    BY <1>4 DEF PurgeInactive
  <2>2. \E S \in SUBSET Thread : vs \in [1..Cardinality(S) -> S]
    <3>1. CASE hib
      BY <3>1 DEF OldestFirst, Running, TypeOK
    <3>2. CASE ~hib
      <4>1. vs = <<>> /\ Cardinality({}) = 0
        BY <3>2, FS_EmptySet
      <4>. QED
        BY <4>1
    <3>. QED
      BY <3>1, <3>2
  <2>3. job' \in [Job -> JobState] /\ locks' \in [Thread -> Seq(Task)]
    BY <2>1, <2>2, AwaitLoopType
  <2>. QED
    BY <2>3, <1>4 DEF PurgeInactive, TypeOK, entryVars, procVars
<1>5. ASSUME HibernateAll PROVE TypeOK'
  <2>. DEFINE task == [op |-> "hibernate", harness |-> DefaultHarness, by |-> Shutdown]
  <2>1. task \in Task
    BY DefaultHarnessType DEF Task
  <2>3. \A t \in Thread : Append(locks[t], task) \in Seq(Task)
    BY <2>1 DEF TypeOK
  <2>2. locks' \in [Thread -> Seq(Task)]
    BY <2>3, <1>5 DEF HibernateAll, TypeOK
  <2>. QED
    BY <2>2, <1>5 DEF HibernateAll, TypeOK, Running, entryVars, procVars
<1>. QED
  BY <1>1, <1>2, <1>3, <1>4, <1>5, DefaultHarnessType DEF Client

\* Nothing but a spawn in flight or a queued task runs under a lock.
LEMMA LockStepType ==
    ASSUME TypeOK, \A t \in spawning : locks[t] # <<>>,
           NEW t \in Thread, LockStep(t)
    PROVE  TypeOK'
<1>. USE DEF TerminalStatus
<1>1. ASSUME BeginStart(t) PROVE TypeOK'
  <2>1. Head(locks[t]).harness \in Harness
    BY <1>1, HelperTypes DEF BeginStart, Holds, Task
  <2>2. ProcessToReplace(t) \in SUBSET Thread /\ StopProcesses(ProcessToReplace(t))
    BY <1>1 DEF BeginStart, ProcessToReplace
  <2>3. /\ proc' \in [Proc -> {"free", "live", "exited", "signalled"}]
        /\ timers' \in SUBSET Proc
        /\ registry' \in [Harness -> [Thread -> Proc \cup {NoProc}]]
    BY <2>2, StopProcessesType
  <2>. QED
    BY <2>1, <2>3, <1>1, HelperTypes DEF BeginStart, TypeOK
<1>2. ASSUME NEW p \in Proc, NEW j \in Job, FinishStart(t, p, j) PROVE TypeOK'
  <2>1. locks[t] # <<>> /\ Head(locks[t]) \in Task /\ Released(t) \in [Thread -> Seq(Task)]
    BY <1>2, HelperTypes DEF FinishStart
  <2>2. persisted' \in [Thread -> {"new", "active", "dormant"}]
    BY <1>2, ReportType DEF FinishStart
  <2>3. job' \in [Job -> JobState] /\ locks' \in [Thread -> Seq(Task)]
    <3>1. /\ ReconcileFrom(j, FALSE, TRUE, maxActive, 1, Released(t))
          /\ sessions' \in SUBSET Thread /\ maxActive \in Caps
      BY <1>2 DEF FinishStart, TypeOK
    <3>. QED
      BY <2>1, <3>1, ReconcileType
  <2>4. registry' \in [Harness -> [Thread -> Proc \cup {NoProc}]]
    BY <1>2 DEF FinishStart, TypeOK
  <2>. QED
    BY <2>2, <2>3, <2>4, <1>2 DEF FinishStart, TypeOK
<1>3. ASSUME FailStart(t) PROVE TypeOK'
  <2>1. locks' \in [Thread -> Seq(Task)]
    BY <1>3, HelperTypes DEF FailStart
  <2>2. registry' \in [Harness -> [Thread -> Proc \cup {NoProc}]]
    BY <1>3 DEF FailStart, TypeOK
  <2>. QED
    BY <2>1, <2>2, <1>3 DEF FailStart, TypeOK, entryVars
<1>4. ASSUME Hibernate(t) PROVE TypeOK'
  <2>1. persisted' \in [Thread -> {"new", "active", "dormant"}]
    BY <1>4, ReportType DEF Hibernate
  <2>2. /\ proc' \in [Proc -> {"free", "live", "exited", "signalled"}]
        /\ timers' \in SUBSET Proc
        /\ registry' \in [Harness -> [Thread -> Proc \cup {NoProc}]]
    BY <1>4, StopProcessesType DEF Hibernate
  <2>. QED
    BY <2>1, <2>2, <1>4, HelperTypes DEF Hibernate, Holds, TypeOK
<1>5. ASSUME HibernateMissing(t) PROVE TypeOK'
  BY <1>5, HelperTypes DEF HibernateMissing, Holds, TypeOK, entryVars, procVars
<1>6. ASSUME Destroy(t) PROVE TypeOK'
  <2>1. locks' \in [Thread -> Seq(Task)]
    BY <1>6, HelperTypes DEF Destroy, Holds
  <2>2. CASE t \in sessions
    BY <2>1, <2>2, <1>6, StopProcessesType, DropEntryType DEF Destroy, TypeOK
  <2>3. CASE t \notin sessions
    BY <2>1, <2>3, <1>6 DEF Destroy, TypeOK, entryVars, procVars
  <2>. QED
    BY <2>2, <2>3
<1>7. ASSUME PurgeOne(t) PROVE TypeOK'
  <2>1. locks' \in [Thread -> Seq(Task)] /\ job' \in [Job -> JobState]
    BY <1>7, HelperTypes DEF PurgeOne, Holds
  <2>2. CASE StillInactive(t)
    BY <2>1, <2>2, <1>7, StopProcessesType, DropEntryType DEF PurgeOne, TypeOK
  <2>3. CASE ~StillInactive(t)
    BY <2>1, <2>3, <1>7 DEF PurgeOne, TypeOK, entryVars, procVars
  <2>. QED
    BY <2>2, <2>3
<1>. QED
  BY <1>1, <1>2, <1>3, <1>4, <1>5, <1>6, <1>7 DEF LockStep

\* A loop that goes on, or ends.
LEMMA ResumeType ==
    ASSUME TypeOK, NEW j \in Job, ResumeJob(j)
    PROVE  /\ TypeOK'
           /\ \A u \in Thread :
                locks[u] # <<>> => locks'[u] # <<>> /\ Head(locks'[u]) = Head(locks[u])
<1>. DEFINE Kept == \A u \in Thread :
              locks[u] # <<>> => locks'[u] # <<>> /\ Head(locks'[u]) = Head(locks[u])
<1>1. SUFFICES job' \in [Job -> JobState] /\ locks' \in [Thread -> Seq(Task)] /\ Kept
  BY DEF ResumeJob, TypeOK, entryVars, procVars
<1>2. job[j] \in JobState /\ locks \in [Thread -> Seq(Task)] /\ sessions' \in SUBSET Thread
  BY DEF TypeOK, ResumeJob, entryVars
<1>3. ASSUME NEW op \in {"hibernate", "purge"}, NextVictim(j, op)
      PROVE  job' \in [Job -> JobState] /\ locks' \in [Thread -> Seq(Task)] /\ Kept
  <2>1. job[j].victims \in Seq(Thread) /\ job[j].victims # <<>>
    BY <1>2, <1>3 DEF JobState, NextVictim
  <2>2. Head(job[j].victims) \in Thread /\ Tail(job[j].victims) \in Seq(Thread)
    BY <2>1
  <2>3. job' \in [Job -> JobState]
    BY <1>2, <1>3, <2>2 DEF NextVictim, TypeOK, JobState
  <2>4. PICK v \in Thread : locks' = Enqueued(locks, v, op, DefaultHarness, j)
    BY <1>3, <2>2 DEF NextVictim
  <2>5. op \in {"start", "hibernate", "destroy", "purge"} /\ j \in Job \cup {NoJob, Shutdown}
    OBVIOUS
  <2>6. /\ Enqueued(locks, v, op, DefaultHarness, j) \in [Thread -> Seq(Task)]
        /\ \A u \in Thread :
             locks[u] # <<>> =>
               /\ Enqueued(locks, v, op, DefaultHarness, j)[u] # <<>>
               /\ Head(Enqueued(locks, v, op, DefaultHarness, j)[u]) = Head(locks[u])
    BY <1>2, <2>5, EnqueuedType, DefaultHarnessType, SMTT(40)
  <2>. QED
    BY ONLY <2>3, <2>4, <2>6
<1>4. CASE ReconcileFrom(j, TRUE, job[j].void, job[j].cap, job[j].next, locks)
  <2>1. job[j].void \in BOOLEAN /\ job[j].cap \in Caps /\ job[j].next \in Nat
    BY <1>2 DEF JobState
  <2>. QED
    BY <2>1, <1>2, <1>4, ReconcileType
<1>5. ASSUME NEW vs \in AnyOrder(PurgeCandidates(job[j].except)),
             AwaitLoop(j, "purge", vs, job[j].except, "purge")
      PROVE  job' \in [Job -> JobState] /\ locks' \in [Thread -> Seq(Task)] /\ Kept
  <2>1. PurgeCandidates(job[j].except) \in SUBSET Thread
    BY DEF PurgeCandidates, TypeOK
  <2>2. /\ vs \in [1..Cardinality(PurgeCandidates(job[j].except))
                     -> PurgeCandidates(job[j].except)]
        /\ job[j].except \in SUBSET Thread
    BY <1>2 DEF AnyOrder, JobState
  <2>. QED
    BY <2>1, <2>2, <1>5, AwaitLoopType
<1>6. CASE job' = [job EXCEPT ![j] = NoJobState] /\ UNCHANGED locks
  BY <1>6, <1>2, NoJobStateType DEF TypeOK
<1>. QED
  BY <1>3, <1>4, <1>5, <1>6 DEF ResumeJob

\* PTYs, timers and shutdown.
LEMMA ProcessStepType ==
    ASSUME TypeOK,
           \/ \E p \in Proc : ChildEnds(p) \/ OnExit(p) \/ KillTimer(p)
           \/ HibernateAllTimeout
           \/ Dispose
    PROVE  TypeOK'
<1>. USE DEF TerminalStatus
<1>1. ASSUME NEW p \in Proc, ChildEnds(p) PROVE TypeOK'
  BY <1>1 DEF ChildEnds, TypeOK, entryVars
<1>2. ASSUME NEW p \in Proc, OnExit(p) PROVE TypeOK'
  <2>. DEFINE ts == {t \in Thread : process[t] = p}
  <2>1. persisted' \in [Thread -> {"new", "active", "dormant"}]
    BY <1>2, ReportType DEF OnExit
  <2>2. process' \in [Thread -> Proc \cup {NoProc}]
    BY <1>2 DEF OnExit, WithoutProcess, TypeOK
  <2>3. registry' \in [Harness -> [Thread -> Proc \cup {NoProc}]]
    BY <1>2 DEF OnExit, TypeOK
  <2>. QED
    BY <1>2, <2>1, <2>2, <2>3 DEF OnExit, TypeOK
<1>3. ASSUME NEW p \in Proc, KillTimer(p) PROVE TypeOK'
  BY <1>3 DEF KillTimer, TypeOK, entryVars
<1>4. CASE HibernateAllTimeout
  <2>1. captured \in SUBSET Thread /\ StopProcesses(captured)
    BY <1>4 DEF HibernateAllTimeout, TypeOK
  <2>2. /\ proc' \in [Proc -> {"free", "live", "exited", "signalled"}]
        /\ timers' \in SUBSET Proc
        /\ registry' \in [Harness -> [Thread -> Proc \cup {NoProc}]]
    BY <2>1, StopProcessesType
  <2>. QED
    BY <2>2, <1>4 DEF HibernateAllTimeout, WithoutProcess, TypeOK
<1>5. CASE Dispose
  <2>1. proc' \in [Proc -> {"free", "live", "exited", "signalled"}]
    BY <1>5 DEF Dispose, Signalled, TypeOK
  <2>2. registry' \in [Harness -> [Thread -> Proc \cup {NoProc}]]
    BY <1>5 DEF Dispose, Unregistered, TypeOK
  <2>. QED
    BY <1>5, <2>1, <2>2, DefaultHarnessType DEF Dispose, TypeOK
<1>. QED
  BY <1>1, <1>2, <1>3, <1>4, <1>5
-----------------------------------------------------------------------------
(* Safety.  OneOwner alone is not inductive: a start that finishes must find   *)
(* its entry without a PTY (StartIsExclusive), and what a restart or a         *)
(* deletion lets go of must be in the map (HeldInMap).                         *)

\* While the manager lives, an entry outside the map holds no PTY.
HeldInMap ==
    server \in {"up", "closing"} =>
        \A t \in Thread : process[t] # NoProc => t \in sessions

Safety == OneOwner /\ NoOrphanChild /\ StartIsExclusive /\ HeldInMap

IInv == TypeOK /\ Safety

\* The heads of the locks that spawns hold stay where they are.
SpawnsKeepLocks == \A t \in spawning' : locks'[t] # <<>> /\ Head(locks'[t]) = Head(locks[t])

\* Stopping a set of entries' PTYs disturbs no other entry's.
LEMMA StopSafe ==
    ASSUME IInv, NEW ts \in SUBSET Thread, StopProcesses(ts)
    PROVE  /\ \A t \in Thread \ ts : process[t] # NoProc =>
                 proc'[process[t]] = proc[process[t]]
           /\ \A p \in Proc : proc'[p] = "live" =>
                 proc[p] = "live" /\ \A t \in ts : process[t] # p
<1>. USE DEF IInv, TypeOK, Safety, OneOwner
<1>1. ASSUME NEW t \in Thread \ ts, process[t] # NoProc
      PROVE  proc'[process[t]] = proc[process[t]]
  <2>1. process[t] \in Proc /\ process[t] \notin {process[u] : u \in ts} \ {NoProc}
    BY <1>1
  <2>. QED
    BY <2>1 DEF StopProcesses, Signalled
<1>2. ASSUME NEW p \in Proc, proc'[p] = "live"
      PROVE  proc[p] = "live" /\ \A t \in ts : process[t] # p
  BY <1>2, ConstantsAssumption DEF StopProcesses, Signalled
<1>. QED
  BY <1>1, <1>2

\* Stopping entries and letting go of their PTYs keeps the ownership invariants,
\* whether the entries stay in the map or leave it.
LEMMA StopAndClearSafe ==
    ASSUME IInv, NEW ts \in SUBSET Thread, StopProcesses(ts), server' = server,
           process' = WithoutProcess(ts), spawning' \in SUBSET Thread,
           sessions \ ts \subseteq sessions'
    PROVE  OneOwner' /\ NoOrphanChild' /\ HeldInMap'
<1>1. \A t \in Thread : process'[t] = IF t \in ts THEN NoProc ELSE process[t]
  BY DEF WithoutProcess
<1>2. /\ \A t \in Thread \ ts : process[t] # NoProc =>
            proc'[process[t]] = proc[process[t]]
      /\ \A p \in Proc : proc'[p] = "live" =>
            proc[p] = "live" /\ \A t \in ts : process[t] # p
  BY StopSafe
<1>3. OneOwner'
  BY <1>1, <1>2 DEF OneOwner, IInv, Safety
<1>4. NoOrphanChild'
  <2>. SUFFICES ASSUME NEW p \in Proc, proc'[p] = "live", server \in {"up", "closing"}
                PROVE  \E t \in sessions' : process'[t] = p
    BY DEF NoOrphanChild
  <2>1. PICK t \in sessions : process[t] = p
    BY <1>2 DEF NoOrphanChild, IInv, Safety
  <2>. QED
    BY <2>1, <1>1, <1>2 DEF IInv, TypeOK
<1>5. HeldInMap'
  BY <1>1 DEF HeldInMap, IInv, Safety
<1>. QED
  BY <1>3, <1>4, <1>5

\* Steps that only move tasks, loops, ranks or reports.
LEMMA QueueStepSafe ==
    ASSUME IInv, SpawnsKeepLocks,
           UNCHANGED <<sessions, process, proc>>, spawning' \subseteq spawning,
           server' \in {"up", "closing"} => server \in {"up", "closing"}
    PROVE  Safety'
<1>. USE DEF IInv, Safety
<1>1. OneOwner'
  BY DEF OneOwner
<1>2. NoOrphanChild'
  BY DEF NoOrphanChild
<1>3. StartIsExclusive'
  BY DEF StartIsExclusive, SpawnsKeepLocks, Holds
<1>4. HeldInMap'
  BY DEF HeldInMap
<1>. QED
  BY <1>1, <1>2, <1>3, <1>4

\* A release of another thread's lock does not disturb a spawn.
LEMMA ReleasedSafe ==
    ASSUME IInv, NEW t \in Thread, locks[t] # <<>>, locks' = Released(t),
           t \notin spawning', spawning' \subseteq spawning
    PROVE  SpawnsKeepLocks
<1>1. \A u \in Thread \ {t} : locks'[u] = locks[u]
  BY DEF Released, IInv, TypeOK
<1>2. \A u \in spawning : u \in Thread /\ locks[u] # <<>>
  BY DEF IInv, TypeOK, Safety, StartIsExclusive, Holds
<1>. QED
  BY <1>1, <1>2 DEF SpawnsKeepLocks

\* A thread whose head task is not a start is not spawning.
LEMMA NotSpawning ==
    ASSUME IInv, NEW t \in Thread, NEW op, op # "start", Holds(t, op)
    PROVE  t \notin spawning /\ locks[t] # <<>>
BY DEF IInv, Safety, StartIsExclusive, Holds

\* A request by a client only moves tasks, loops and ranks, and a spawn keeps its lock.
LEMMA ClientFrame ==
    ASSUME IInv, Client
    PROVE  /\ SpawnsKeepLocks
           /\ UNCHANGED <<sessions, status, process, harness, proc, registry, persisted,
                          spawning>>
           /\ \/ UNCHANGED <<captured, server>>
              \/ server = "up" /\ server' = "closing"
<1>. USE DEF SpawnsKeepLocks, entryVars, procVars
<1>. DEFINE Framed ==
       /\ SpawnsKeepLocks
       /\ UNCHANGED <<sessions, status, process, harness, proc, registry, persisted, spawning>>
       /\ \/ UNCHANGED <<captured, server>>
          \/ server = "up" /\ server' = "closing"
<1>1. \A t \in spawning : t \in Thread /\ locks[t] # <<>>
  BY DEF IInv, TypeOK, Safety, StartIsExclusive, Holds
<1>2. ASSUME NEW t \in Thread, NEW h \in Harness,
             NEW op \in {"start", "hibernate", "destroy"}, Request(t, op, h)
      PROVE  Framed
  <2>1. locks \in [Thread -> Seq(Task)]
    BY DEF IInv, TypeOK
  <2>2. \A u \in Thread : locks[u] # <<>> => locks'[u] # <<>> /\ Head(locks'[u]) = Head(locks[u])
    BY <1>2, <2>1, EnqueuedType DEF Request
  <2>. QED
    BY <1>1, <1>2, <2>2 DEF Request
<1>3. ASSUME NEW t \in Thread, Interact(t) PROVE Framed
  BY <1>1, <1>3 DEF Interact
<1>4. ASSUME NEW j \in Job, NEW n \in Caps, SetMaxActiveSessions(n, j) PROVE Framed
  <2>1. /\ ReconcileFrom(j, FALSE, FALSE, n, 1, locks) /\ TypeOK
        /\ sessions' \in SUBSET Thread /\ locks \in [Thread -> Seq(Task)]
    BY <1>4 DEF SetMaxActiveSessions, IInv, TypeOK
  <2>2. \A u \in Thread : locks[u] # <<>> => locks'[u] # <<>> /\ Head(locks'[u]) = Head(locks[u])
    BY <2>1, ReconcileType
  <2>. QED
    BY <1>1, <1>4, <2>2 DEF SetMaxActiveSessions
<1>5. ASSUME NEW j \in Job, NEW ex \in SUBSET Thread, NEW hib \in BOOLEAN,
             PurgeInactive(ex, hib, j)
      PROVE  Framed
  <2>1. PICK vs \in IF hib THEN OldestFirst(Running \ ex) ELSE {<<>>} :
          AwaitLoop(j, "bulk", vs, ex, "hibernate")
    BY <1>5 DEF PurgeInactive
  <2>2. \E S \in SUBSET Thread : vs \in [1..Cardinality(S) -> S]
    <3>1. CASE hib
      BY <3>1 DEF OldestFirst, Running, IInv, TypeOK
    <3>2. CASE ~hib
      BY <3>2, FS_EmptySet
    <3>. QED
      BY <3>1, <3>2
  <2>3. \A u \in Thread : locks[u] # <<>> => locks'[u] # <<>> /\ Head(locks'[u]) = Head(locks[u])
    BY <2>1, <2>2, AwaitLoopType DEF IInv
  <2>. QED
    BY <1>1, <1>5, <2>3 DEF PurgeInactive
<1>6. ASSUME HibernateAll PROVE Framed
  <2>. DEFINE task == [op |-> "hibernate", harness |-> DefaultHarness, by |-> Shutdown]
  <2>1. task \in Task
    BY DefaultHarnessType DEF Task
  <2>2. ASSUME NEW s \in Seq(Task), s # <<>>
        PROVE  Append(s, task) # <<>> /\ Head(Append(s, task)) = Head(s)
    BY <2>1, <2>2
  <2>3. \A u \in Thread : locks[u] # <<>> => locks'[u] # <<>> /\ Head(locks'[u]) = Head(locks[u])
    BY <2>2, <1>6 DEF HibernateAll, IInv, TypeOK
  <2>. QED
    BY <1>1, <1>6, <2>3 DEF HibernateAll
<1>. QED
  BY <1>2, <1>3, <1>4, <1>5, <1>6, DefaultHarnessType DEF Client

\* So it keeps one owner for each PTY, none orphaned, starts exclusive.
LEMMA ClientSafe == IInv /\ Client => Safety'
BY ClientFrame, QueueStepSafe

\* A start lets go of the PTY it replaces.
LEMMA BeginStartSafe ==
    ASSUME IInv, NEW t \in Thread, BeginStart(t)
    PROVE  Safety'
<1>. DEFINE ts == ProcessToReplace(t)
<1>1. ts \subseteq {t} /\ StopProcesses(ts) /\ server' = server
  BY DEF BeginStart, ProcessToReplace
<1>2. \A u \in Thread : process'[u] = IF u = t THEN NoProc ELSE process[u]
  BY DEF BeginStart, WithoutProcess
<1>3. sessions' = sessions \cup {t} /\ spawning' = spawning \cup {t} /\ locks' = locks
  BY DEF BeginStart
<1>4. /\ \A u \in Thread \ ts : process[u] # NoProc => proc'[process[u]] = proc[process[u]]
      /\ \A p \in Proc : proc'[p] = "live" =>
            proc[p] = "live" /\ \A u \in ts : process[u] # p
  BY <1>1, StopSafe
<1>5. OneOwner'
  BY <1>1, <1>2, <1>4 DEF OneOwner, IInv, Safety
<1>6. NoOrphanChild'
  <2>. SUFFICES ASSUME NEW p \in Proc, proc'[p] = "live", server \in {"up", "closing"}
                PROVE  \E u \in sessions' : process'[u] = p
    BY <1>1 DEF NoOrphanChild
  <2>1. PICK u \in sessions : process[u] = p
    BY <1>4 DEF NoOrphanChild, IInv, Safety
  <2>2. u # t
    BY <1>4, <2>1, ConstantsAssumption DEF ProcessToReplace, IInv, TypeOK
  <2>. QED
    BY <2>1, <2>2, <1>2, <1>3 DEF IInv, TypeOK
<1>7. StartIsExclusive'
  <2>1. ASSUME NEW u \in spawning' PROVE Holds(u, "start") /\ process'[u] = NoProc
    BY <2>1, <1>2, <1>3 DEF BeginStart, StartIsExclusive, IInv, Safety, TypeOK
  <2>2. server' \in {"up", "closing"} => spawning' \subseteq sessions'
    BY <1>1, <1>3 DEF StartIsExclusive, IInv, Safety
  <2>. QED
    BY <2>1, <2>2, <1>3 DEF StartIsExclusive, Holds
<1>8. HeldInMap'
  BY <1>1, <1>2, <1>3 DEF HeldInMap, IInv, Safety
<1>. QED
  BY <1>5, <1>6, <1>7, <1>8 DEF Safety

\* A start that finishes releases its own lock only.
LEMMA FinishStartKeepsLocks ==
    ASSUME IInv, NEW t \in Thread, NEW p \in Proc, NEW j \in Job, FinishStart(t, p, j)
    PROVE  SpawnsKeepLocks
<1>1. t \in spawning /\ spawning' = spawning \ {t}
  BY DEF FinishStart
<1>2. locks[t] # <<>> /\ Released(t) \in [Thread -> Seq(Task)]
  BY <1>1, HelperTypes DEF IInv, Safety, StartIsExclusive, Holds
<1>3. \A u \in Thread : Released(t)[u] # <<>> =>
        locks'[u] # <<>> /\ Head(locks'[u]) = Head(Released(t)[u])
  <2>1. /\ ReconcileFrom(j, FALSE, TRUE, maxActive, 1, Released(t)) /\ TypeOK
        /\ sessions' \in SUBSET Thread /\ maxActive \in Caps
    BY DEF FinishStart, IInv, TypeOK
  <2>. QED
    BY <1>2, <2>1, ReconcileType
<1>4. \A u \in spawning' : u \in Thread /\ Released(t)[u] = locks[u] /\ locks[u] # <<>>
  BY <1>1 DEF Released, IInv, TypeOK, Safety, StartIsExclusive, Holds
<1>. QED
  BY <1>3, <1>4 DEF SpawnsKeepLocks

\* A PTY that comes up goes to an entry that has none.
LEMMA FinishStartSafe ==
    ASSUME IInv, NEW t \in Thread, NEW p \in Proc, NEW j \in Job, FinishStart(t, p, j)
    PROVE  Safety'
<1>1. /\ t \in spawning /\ proc[p] = "free"
      /\ proc' = [proc EXCEPT ![p] = "live"]
      /\ process' = [process EXCEPT ![t] = p]
      /\ spawning' = spawning \ {t}
      /\ UNCHANGED <<sessions, server>>
  BY DEF FinishStart
<1>5. StartIsExclusive'
  BY <1>1, FinishStartKeepsLocks
     DEF SpawnsKeepLocks, StartIsExclusive, Holds, IInv, Safety, TypeOK
<1>6. p # NoProc /\ \A u \in Thread : process[u] # p
  BY <1>1, ConstantsAssumption DEF IInv, Safety, OneOwner
<1>7. OneOwner'
  BY <1>1, <1>6 DEF OneOwner, IInv, Safety, TypeOK
<1>8. NoOrphanChild'
  <2>. SUFFICES ASSUME NEW q \in Proc, proc'[q] = "live", server \in {"up", "closing"}
                PROVE  \E u \in sessions : process'[u] = q
    BY <1>1 DEF NoOrphanChild
  <2>1. CASE q = p
    BY <1>1, <2>1 DEF IInv, Safety, StartIsExclusive, TypeOK
  <2>2. CASE q # p
    <3>1. PICK u \in sessions : process[u] = q
      BY <1>1, <2>2 DEF IInv, Safety, NoOrphanChild, TypeOK
    <3>2. u # t
      BY <3>1, <1>1, ConstantsAssumption DEF IInv, Safety, StartIsExclusive
    <3>. QED
      BY <3>1, <3>2, <1>1 DEF IInv, TypeOK
  <2>. QED
    BY <2>1, <2>2
<1>9. HeldInMap'
  BY <1>1 DEF HeldInMap, StartIsExclusive, IInv, Safety, TypeOK
<1>. QED
  BY <1>5, <1>7, <1>8, <1>9 DEF Safety

\* A locked task that stops its entry, for good or to sleep, keeps Safety.
LEMMA StopUnderLockSafe ==
    ASSUME IInv, NEW t \in Thread, t \notin spawning, locks[t] # <<>>,
           StopProcesses({t}), process' = WithoutProcess({t}), locks' = Released(t),
           UNCHANGED <<spawning, server>>, sessions \ {t} \subseteq sessions'
    PROVE  Safety'
<1>1. OneOwner' /\ NoOrphanChild' /\ HeldInMap'
  BY StopAndClearSafe DEF IInv, TypeOK
<1>2. SpawnsKeepLocks
  BY ReleasedSafe
<1>3. StartIsExclusive'
  BY <1>2 DEF SpawnsKeepLocks, StartIsExclusive, Holds, WithoutProcess, IInv, Safety, TypeOK
<1>. QED
  BY <1>1, <1>3 DEF Safety

\* So does a step under a lock.
LEMMA LockStepSafe ==
    ASSUME IInv, NEW t \in Thread, LockStep(t)
    PROVE  Safety'
<1>1. ASSUME BeginStart(t) PROVE Safety'
  BY <1>1, BeginStartSafe
<1>2. ASSUME NEW p \in Proc, NEW j \in Job, FinishStart(t, p, j) PROVE Safety'
  BY <1>2, FinishStartSafe
<1>3. ASSUME FailStart(t) PROVE Safety'
  <2>1. locks[t] # <<>>
    BY <1>3 DEF FailStart, IInv, Safety, StartIsExclusive, Holds
  <2>2. SpawnsKeepLocks
    BY <1>3, <2>1, ReleasedSafe DEF FailStart
  <2>. QED
    BY <1>3, <2>2, QueueStepSafe DEF FailStart, entryVars
<1>4. ASSUME Hibernate(t) PROVE Safety'
  <2>1. t \notin spawning /\ locks[t] # <<>>
    BY <1>4, NotSpawning DEF Hibernate
  <2>. QED
    BY <1>4, <2>1, StopUnderLockSafe DEF Hibernate
<1>5. ASSUME HibernateMissing(t) PROVE Safety'
  <2>1. t \notin spawning /\ locks[t] # <<>>
    BY <1>5, NotSpawning DEF HibernateMissing
  <2>2. SpawnsKeepLocks
    BY <1>5, <2>1, ReleasedSafe DEF HibernateMissing
  <2>. QED
    BY <1>5, <2>2, QueueStepSafe DEF HibernateMissing, entryVars, procVars
<1>6. ASSUME NEW op \in {"destroy", "purge"}, Holds(t, op), locks' = Released(t),
             UNCHANGED <<spawning, server>>,
             \/ StopProcesses({t}) /\ DropEntry(t)
             \/ UNCHANGED <<entryVars, procVars>>
      PROVE  Safety'
  <2>1. t \notin spawning /\ locks[t] # <<>>
    BY <1>6, NotSpawning
  <2>2. CASE StopProcesses({t}) /\ DropEntry(t)
    <3>1. process' = WithoutProcess({t}) /\ sessions \ {t} \subseteq sessions'
      BY <2>2 DEF DropEntry, WithoutProcess, IInv, TypeOK
    <3>. QED
      BY <1>6, <2>1, <2>2, <3>1, StopUnderLockSafe
  <2>3. CASE UNCHANGED <<entryVars, procVars>>
    <3>1. SpawnsKeepLocks
      BY <1>6, <2>1, ReleasedSafe
    <3>. QED
      BY <1>6, <2>3, <3>1, QueueStepSafe DEF entryVars, procVars
  <2>. QED
    BY <1>6, <2>2, <2>3
<1>7. ASSUME Destroy(t) PROVE Safety'
  BY <1>6, <1>7 DEF Destroy
<1>8. ASSUME PurgeOne(t) PROVE Safety'
  BY <1>6, <1>8 DEF PurgeOne
<1>. QED
  BY <1>1, <1>2, <1>3, <1>4, <1>5, <1>7, <1>8 DEF LockStep

\* So does an exit, a kill timer or a step of shutdown.
LEMMA ProcessStepSafe ==
    ASSUME IInv,
           \/ \E p \in Proc : ChildEnds(p) \/ OnExit(p) \/ KillTimer(p)
           \/ HibernateAllTimeout
           \/ Dispose
    PROVE  Safety'
<1>. USE DEF IInv, Safety, TypeOK
<1>1. ASSUME NEW p \in Proc, ChildEnds(p) PROVE Safety'
  BY <1>1 DEF ChildEnds, entryVars, OneOwner, NoOrphanChild, StartIsExclusive, Holds, HeldInMap
<1>2. ASSUME NEW p \in Proc, OnExit(p) PROVE Safety'
  <2>1. /\ \A t \in Thread : process'[t] = IF process[t] = p THEN NoProc ELSE process[t]
        /\ proc' = [proc EXCEPT ![p] = "free"]
        /\ UNCHANGED <<sessions, spawning, locks, server>>
    BY <1>2 DEF OnExit, WithoutProcess
  <2>2. OneOwner'
    BY <2>1 DEF OneOwner
  <2>3. NoOrphanChild'
    <3>. SUFFICES ASSUME NEW q \in Proc, proc'[q] = "live", server \in {"up", "closing"}
                  PROVE  \E t \in sessions : process'[t] = q
      BY <2>1 DEF NoOrphanChild
    <3>1. q # p /\ proc[q] = "live"
      BY <2>1
    <3>2. PICK t \in sessions : process[t] = q
      BY <3>1 DEF NoOrphanChild
    <3>. QED
      BY <3>1, <3>2, <2>1
  <2>4. StartIsExclusive' /\ HeldInMap'
    BY <2>1 DEF StartIsExclusive, Holds, HeldInMap
  <2>. QED
    BY <2>2, <2>3, <2>4
<1>3. ASSUME NEW p \in Proc, KillTimer(p) PROVE Safety'
  BY <1>3 DEF KillTimer, entryVars, OneOwner, NoOrphanChild, StartIsExclusive, Holds, HeldInMap
<1>4. CASE HibernateAllTimeout
  <2>1. /\ captured \in SUBSET Thread /\ StopProcesses(captured)
        /\ process' = WithoutProcess(captured)
        /\ UNCHANGED <<sessions, spawning, locks, server>>
    BY <1>4 DEF HibernateAllTimeout
  <2>2. OneOwner' /\ NoOrphanChild' /\ HeldInMap'
    BY <2>1, StopAndClearSafe
  <2>3. StartIsExclusive'
    BY <2>1 DEF StartIsExclusive, Holds, WithoutProcess
  <2>. QED
    BY <2>2, <2>3
<1>5. CASE Dispose
  BY <1>5 DEF Dispose, OneOwner, NoOrphanChild, StartIsExclusive, Holds, HeldInMap
<1>. QED
  BY <1>1, <1>2, <1>3, <1>4, <1>5

-----------------------------------------------------------------------------
(* The inductive invariant *)

\* The inductive invariant holds initially.
LEMMA InitIInv == Init => IInv
<1>. SUFFICES ASSUME Init PROVE IInv
  OBVIOUS
<1>1. TypeOK
  BY InitType
<1>2. Safety
  BY DEF Init, Safety, OneOwner, NoOrphanChild, StartIsExclusive, HeldInMap
<1>. QED
  BY <1>1, <1>2 DEF IInv

\* Every step, and stuttering, keeps the inductive invariant.
LEMMA NextIInv == IInv /\ [Next]_vars => IInv'
<1>. SUFFICES ASSUME IInv, [Next]_vars PROVE IInv'
  OBVIOUS
<1>1. ASSUME Client PROVE IInv'
  BY <1>1, ClientType, ClientSafe DEF IInv
<1>2. ASSUME NEW t \in Thread, LockStep(t) PROVE IInv'
  <2>1. \A u \in spawning : locks[u] # <<>>
    BY DEF IInv, Safety, StartIsExclusive, Holds
  <2>. QED
    BY <1>2, <2>1, LockStepType, LockStepSafe DEF IInv
<1>3. ASSUME NEW j \in Job, ResumeJob(j) PROVE IInv'
  <2>1. TypeOK' /\ \A u \in Thread :
          locks[u] # <<>> => locks'[u] # <<>> /\ Head(locks'[u]) = Head(locks[u])
    BY <1>3, ResumeType DEF IInv
  <2>2. SpawnsKeepLocks
    BY <1>3, <2>1
       DEF ResumeJob, SpawnsKeepLocks, IInv, TypeOK, Safety, StartIsExclusive, Holds
  <2>3. Safety'
    BY <1>3, <2>2, QueueStepSafe DEF ResumeJob, entryVars, procVars
  <2>. QED
    BY <2>1, <2>3 DEF IInv
<1>4. ASSUME \/ \E p \in Proc : ChildEnds(p) \/ OnExit(p) \/ KillTimer(p)
             \/ HibernateAllTimeout
             \/ Dispose
      PROVE  IInv'
  BY <1>4, ProcessStepType, ProcessStepSafe DEF IInv
<1>5. CASE UNCHANGED vars
  BY <1>5 DEF vars, IInv, TypeOK, Safety, OneOwner, NoOrphanChild, StartIsExclusive,
              Holds, HeldInMap
<1>. QED
  BY <1>1, <1>2, <1>3, <1>4, <1>5 DEF Next

\* The inductive invariant holds of every behaviour.
THEOREM SpecIInv == Spec => []IInv
<1>. QED
  BY InitIInv, NextIInv, PTL DEF Spec

\* Entries, locks, loops, PTYs and registry files stay well formed
\* (ClaudeSessionManager.ts, every handler).
THEOREM SpecTypeOK == Spec => []TypeOK
<1>1. IInv => TypeOK
  BY DEF IInv
<1>. QED
  BY SpecIInv, <1>1, PTL

\* A PTY never has two entries, no entry keeps one that was told to stop, and until the
\* manager is disposed every running child has an entry in the map that can write to it,
\* hibernate it and count it, whatever starts, exits, deletions and hibernateAll's timeout
\* do at once.
THEOREM SpecHasOneOwner == Spec => []HasOneOwner
<1>1. IInv => HasOneOwner
  BY DEF IInv, Safety, HasOneOwner
<1>. QED
  BY SpecIInv, <1>1, PTL

\* Nothing takes a session away from a startSession that awaits its PTY
\* (runWithThreadLock).
THEOREM SpecStartIsExclusive == Spec => []StartIsExclusive
<1>1. IInv => StartIsExclusive
  BY DEF IInv, Safety
<1>. QED
  BY SpecIInv, <1>1, PTL
-----------------------------------------------------------------------------
(* The records.  RecordsFollow is not inductive: a start that finishes writes  *)
(* the registry file of the harness its task names, which must be the one its  *)
(* entry has; and the forced stop of hibernateAll, which leaves the statuses,  *)
(* must not come while the server serves.                                      *)

\* A start that awaits its PTY has already given its entry the harness it asked for.
SpawnsOwnHarness ==
    server \in {"up", "closing"} =>
        \A t \in spawning : Head(locks[t]).harness = harness[t]

\* hibernateAll captures entries only once the server closes.
CapturedOnClose == server = "up" => captured = {}

RInv == IInv /\ RecordsFollow /\ SpawnsOwnHarness /\ CapturedOnClose

\* Steps that leave the entries and what is written down about them.
LEMMA RecordsFrame ==
    ASSUME RInv, SpawnsKeepLocks, spawning' \subseteq spawning,
           UNCHANGED <<sessions, status, process, harness, registry, persisted>>,
           server' = "up" => server = "up" /\ captured' = captured,
           server' \in {"up", "closing"} => server \in {"up", "closing"}
    PROVE  RecordsFollow' /\ SpawnsOwnHarness' /\ CapturedOnClose'
<1>. USE DEF RInv
<1>1. StatusMatchesProcess'
  BY DEF RecordsFollow, StatusMatchesProcess
<1>2. RegistryExact'
  BY DEF RecordsFollow, RegistryExact
<1>3. PersistedStatusFollows'
  BY DEF RecordsFollow, PersistedStatusFollows
<1>4. SpawnsOwnHarness'
  BY DEF SpawnsOwnHarness, SpawnsKeepLocks
<1>5. CapturedOnClose'
  BY DEF CapturedOnClose
<1>. QED
  BY <1>1, <1>2, <1>3, <1>4, <1>5 DEF RecordsFollow

\* A stopped entry's registry file goes, every other file stays.
LEMMA UnregisteredExact ==
    ASSUME RInv, server \in {"up", "closing"}, NEW ts \in SUBSET Thread, StopProcesses(ts)
    PROVE  \A h \in Harness, t \in Thread :
             registry'[h][t] = IF t \notin ts /\ harness[t] = h THEN process[t] ELSE NoProc
BY DEF RInv, RecordsFollow, RegistryExact, StopProcesses, Unregistered

\* A start that stops what ran leaves no file, whichever harness ran it.
LEMMA BeginStartRecords ==
    ASSUME RInv, NEW t \in Thread, BeginStart(t)
    PROVE  RecordsFollow' /\ SpawnsOwnHarness' /\ CapturedOnClose'
<1>. USE DEF RInv
<1>1. /\ ProcessToReplace(t) \in SUBSET Thread /\ StopProcesses(ProcessToReplace(t))
      /\ UNCHANGED <<locks, persisted, server>>
      /\ sessions' = sessions \cup {t} /\ spawning' = spawning \cup {t}
      /\ captured' \in {captured, captured \ {t}}
  BY DEF BeginStart, ProcessToReplace
<1>2. /\ \A u \in Thread : process'[u] = IF u = t THEN NoProc ELSE process[u]
      /\ \A u \in Thread : status'[u] = IF u = t THEN "new" ELSE status[u]
      /\ \A u \in Thread : harness'[u] = IF u = t THEN Head(locks[t]).harness ELSE harness[u]
  BY DEF BeginStart, WithoutProcess, IInv, TypeOK
<1>3. StatusMatchesProcess'
  BY <1>1, <1>2 DEF RecordsFollow, StatusMatchesProcess
<1>4. RegistryExact'
  <2>. SUFFICES ASSUME server \in {"up", "closing"}, NEW h \in Harness, NEW u \in Thread
                PROVE  registry'[h][u] = IF harness'[u] = h THEN process'[u] ELSE NoProc
    BY <1>1 DEF RegistryExact
  <2>1. registry'[h][u] = IF u \notin ProcessToReplace(t) /\ harness[u] = h
                          THEN process[u] ELSE NoProc
    BY <1>1, UnregisteredExact
  <2>2. u \in ProcessToReplace(t) => u = t
    BY DEF ProcessToReplace
  <2>3. t \in ProcessToReplace(t) \/ process[t] = NoProc
    BY DEF ProcessToReplace, IInv, Safety, HeldInMap
  <2>. QED
    BY <1>2, <2>1, <2>2, <2>3
<1>5. PersistedStatusFollows'
  BY <1>1, <1>2 DEF RecordsFollow, PersistedStatusFollows, IInv, TypeOK
<1>6. SpawnsOwnHarness'
  BY <1>1, <1>2 DEF SpawnsOwnHarness, IInv, TypeOK
<1>7. CapturedOnClose'
  BY <1>1 DEF CapturedOnClose
<1>. QED
  BY <1>3, <1>4, <1>5, <1>6, <1>7 DEF RecordsFollow

\* A PTY that comes up is registered and announced with the entry that takes it.
LEMMA FinishStartRecords ==
    ASSUME RInv, NEW t \in Thread, NEW p \in Proc, NEW j \in Job, FinishStart(t, p, j)
    PROVE  RecordsFollow' /\ SpawnsOwnHarness' /\ CapturedOnClose'
<1>. USE DEF RInv
<1>1. /\ t \in spawning /\ spawning' = spawning \ {t}
      /\ UNCHANGED <<sessions, harness, captured, server>>
      /\ process' = [process EXCEPT ![t] = p]
      /\ status' = [status EXCEPT ![t] = "active"]
      /\ registry' = [registry EXCEPT ![Head(locks[t]).harness][t] = p]
      /\ Report({t}, "active")
  BY DEF FinishStart
<1>2. p # NoProc /\ process[t] = NoProc
  BY <1>1, ConstantsAssumption DEF IInv, Safety, StartIsExclusive
<1>3. ASSUME server \in {"up", "closing"}
      PROVE  t \in sessions /\ Head(locks[t]).harness = harness[t]
  BY <1>1, <1>3 DEF IInv, Safety, StartIsExclusive, SpawnsOwnHarness
<1>4. StatusMatchesProcess'
  BY <1>1, <1>2, <1>3 DEF RecordsFollow, StatusMatchesProcess, IInv, TypeOK
<1>5. RegistryExact'
  <2>. SUFFICES ASSUME server \in {"up", "closing"}, NEW h \in Harness, NEW u \in Thread
                PROVE  registry'[h][u] = IF harness'[u] = h THEN process'[u] ELSE NoProc
    BY <1>1 DEF RegistryExact
  <2>1. registry[h][u] = IF harness[u] = h THEN process[u] ELSE NoProc
    BY DEF RecordsFollow, RegistryExact
  <2>2. registry' = [registry EXCEPT ![harness[t]][t] = p]
    BY <1>1, <1>3
  <2>. QED
    BY <1>1, <1>2, <2>1, <2>2 DEF IInv, TypeOK
<1>6. PersistedStatusFollows'
  BY <1>1 DEF Report, RecordsFollow, PersistedStatusFollows, IInv, TypeOK
<1>7. SpawnsOwnHarness'
  BY <1>1, FinishStartKeepsLocks DEF SpawnsOwnHarness, SpawnsKeepLocks
<1>8. CapturedOnClose'
  BY <1>1 DEF CapturedOnClose
<1>. QED
  BY <1>4, <1>5, <1>6, <1>7, <1>8 DEF RecordsFollow

\* A start that fails removes a file that is not there.
LEMMA FailStartRecords ==
    ASSUME RInv, NEW t \in Thread, FailStart(t)
    PROVE  RecordsFollow' /\ SpawnsOwnHarness' /\ CapturedOnClose'
<1>. USE DEF RInv
<1>1. /\ t \in spawning /\ spawning' = spawning \ {t} /\ locks' = Released(t)
      /\ UNCHANGED <<sessions, status, process, harness, persisted, captured, server>>
      /\ registry' = [registry EXCEPT ![Head(locks[t]).harness][t] = NoProc]
  BY DEF FailStart, entryVars
<1>2. locks[t] # <<>> /\ process[t] = NoProc
  BY <1>1 DEF IInv, Safety, StartIsExclusive, Holds
<1>3. SpawnsKeepLocks
  BY <1>1, <1>2, ReleasedSafe
<1>4. RegistryExact'
  BY <1>1, <1>2 DEF RecordsFollow, RegistryExact, IInv, TypeOK
<1>5. StatusMatchesProcess' /\ PersistedStatusFollows'
  BY <1>1 DEF RecordsFollow, StatusMatchesProcess, PersistedStatusFollows
<1>6. SpawnsOwnHarness' /\ CapturedOnClose'
  BY <1>1, <1>3 DEF SpawnsOwnHarness, CapturedOnClose, SpawnsKeepLocks
<1>. QED
  BY <1>4, <1>5, <1>6 DEF RecordsFollow

\* A hibernation stops the PTY, empties the file and says so.
LEMMA HibernateRecords ==
    ASSUME RInv, NEW t \in Thread, Hibernate(t)
    PROVE  RecordsFollow' /\ SpawnsOwnHarness' /\ CapturedOnClose'
<1>. USE DEF RInv
<1>1. /\ StopProcesses({t}) /\ locks' = Released(t)
      /\ \A u \in Thread : process'[u] = IF u = t THEN NoProc ELSE process[u]
      /\ status' = [status EXCEPT ![t] = "dormant"]
      /\ Report({t}, "dormant")
      /\ UNCHANGED <<sessions, harness, spawning, captured, server>>
  BY DEF Hibernate, WithoutProcess
<1>2. t \notin spawning /\ locks[t] # <<>>
  BY NotSpawning DEF Hibernate
<1>3. SpawnsKeepLocks
  BY <1>1, <1>2, ReleasedSafe
<1>4. StatusMatchesProcess'
  BY <1>1 DEF RecordsFollow, StatusMatchesProcess, IInv, TypeOK
<1>5. RegistryExact'
  BY <1>1, UnregisteredExact DEF RegistryExact
<1>6. PersistedStatusFollows'
  BY <1>1 DEF Report, RecordsFollow, PersistedStatusFollows, IInv, TypeOK
<1>7. SpawnsOwnHarness' /\ CapturedOnClose'
  BY <1>1, <1>3 DEF SpawnsOwnHarness, CapturedOnClose, SpawnsKeepLocks
<1>. QED
  BY <1>4, <1>5, <1>6, <1>7 DEF RecordsFollow

\* A deleted session leaves no file.
LEMMA DeletionRecords ==
    ASSUME RInv, NEW t \in Thread, t \notin spawning, locks[t] # <<>>, locks' = Released(t),
           StopProcesses({t}), DropEntry(t), UNCHANGED <<spawning, persisted, server>>
    PROVE  RecordsFollow' /\ SpawnsOwnHarness' /\ CapturedOnClose'
<1>. USE DEF RInv
<1>1. SpawnsKeepLocks
  BY ReleasedSafe
<1>2. /\ \A u \in Thread : process'[u] = IF u = t THEN NoProc ELSE process[u]
      /\ \A u \in Thread : status'[u] = IF u = t THEN "new" ELSE status[u]
      /\ \A u \in Thread \ {t} : harness'[u] = harness[u]
      /\ sessions' = sessions \ {t} /\ captured' = captured \ {t}
  BY DEF DropEntry, IInv, TypeOK
<1>3. StatusMatchesProcess'
  BY <1>2 DEF RecordsFollow, StatusMatchesProcess
<1>4. RegistryExact'
  BY <1>2, UnregisteredExact DEF RegistryExact
<1>5. PersistedStatusFollows'
  BY <1>2 DEF RecordsFollow, PersistedStatusFollows, IInv, TypeOK
<1>6. SpawnsOwnHarness'
  BY <1>1, <1>2 DEF SpawnsOwnHarness, SpawnsKeepLocks, IInv, TypeOK
<1>7. CapturedOnClose'
  BY <1>2 DEF CapturedOnClose
<1>. QED
  BY <1>3, <1>4, <1>5, <1>6, <1>7 DEF RecordsFollow

\* Every step under a lock keeps the records.
LEMMA LockStepRecords ==
    ASSUME RInv, NEW t \in Thread, LockStep(t)
    PROVE  RecordsFollow' /\ SpawnsOwnHarness' /\ CapturedOnClose'
<1>. DEFINE Kept == RecordsFollow' /\ SpawnsOwnHarness' /\ CapturedOnClose'
<1>1. ASSUME HibernateMissing(t) PROVE Kept
  <2>1. t \notin spawning /\ locks[t] # <<>>
    BY <1>1, NotSpawning DEF HibernateMissing, RInv
  <2>2. SpawnsKeepLocks
    BY <1>1, <2>1, ReleasedSafe DEF HibernateMissing, RInv
  <2>. QED
    BY <1>1, <2>2, RecordsFrame DEF HibernateMissing, entryVars, procVars
<1>2. ASSUME NEW op \in {"destroy", "purge"}, Holds(t, op), locks' = Released(t),
             UNCHANGED <<spawning, persisted, server>>,
             \/ StopProcesses({t}) /\ DropEntry(t)
             \/ UNCHANGED <<entryVars, procVars, captured>>
      PROVE  Kept
  <2>1. t \notin spawning /\ locks[t] # <<>>
    BY <1>2, NotSpawning DEF RInv
  <2>2. CASE StopProcesses({t}) /\ DropEntry(t)
    BY <1>2, <2>1, <2>2, DeletionRecords
  <2>3. CASE UNCHANGED <<entryVars, procVars, captured>>
    <3>1. SpawnsKeepLocks
      BY <1>2, <2>1, ReleasedSafe DEF RInv
    <3>. QED
      BY <1>2, <2>3, <3>1, RecordsFrame DEF entryVars, procVars
  <2>. QED
    BY <1>2, <2>2, <2>3
<1>3. ASSUME Destroy(t) PROVE Kept
  BY <1>2, <1>3 DEF Destroy
<1>4. ASSUME PurgeOne(t) PROVE Kept
  BY <1>2, <1>4 DEF PurgeOne
<1>. QED
  BY <1>1, <1>3, <1>4, BeginStartRecords, FinishStartRecords, FailStartRecords,
     HibernateRecords DEF LockStep

\* So do the ends of children, the timers and shutdown.
LEMMA ProcessStepRecords ==
    ASSUME RInv,
           \/ \E p \in Proc : ChildEnds(p) \/ OnExit(p) \/ KillTimer(p)
           \/ HibernateAllTimeout
           \/ Dispose
    PROVE  RecordsFollow' /\ SpawnsOwnHarness' /\ CapturedOnClose'
<1>. USE DEF RInv
<1>. DEFINE Kept == RecordsFollow' /\ SpawnsOwnHarness' /\ CapturedOnClose'
<1>1. ASSUME NEW p \in Proc, ChildEnds(p) \/ KillTimer(p) PROVE Kept
  <2>1. SpawnsKeepLocks
    BY <1>1 DEF ChildEnds, KillTimer, SpawnsKeepLocks, IInv, Safety, StartIsExclusive, Holds
  <2>. QED
    BY <1>1, <2>1, RecordsFrame DEF ChildEnds, KillTimer, entryVars
<1>2. ASSUME NEW p \in Proc, OnExit(p) PROVE Kept
  <2>1. /\ \A t \in Thread : process'[t] = IF process[t] = p THEN NoProc ELSE process[t]
        /\ \A t \in Thread : status'[t] = IF process[t] = p THEN "dormant" ELSE status[t]
        /\ Report({t \in Thread : process[t] = p}, "dormant")
        /\ \A h \in Harness, t \in Thread :
              registry'[h][t] = IF registry[h][t] = p THEN NoProc ELSE registry[h][t]
        /\ UNCHANGED <<sessions, harness, spawning, locks, captured, server>>
    BY <1>2 DEF OnExit, WithoutProcess
  <2>2. StatusMatchesProcess'
    BY <2>1 DEF RecordsFollow, StatusMatchesProcess
  <2>3. RegistryExact'
    BY <2>1 DEF RecordsFollow, RegistryExact
  <2>4. PersistedStatusFollows'
    BY <2>1 DEF Report, RecordsFollow, PersistedStatusFollows, IInv, TypeOK
  <2>5. SpawnsOwnHarness' /\ CapturedOnClose'
    BY <2>1 DEF SpawnsOwnHarness, CapturedOnClose
  <2>. QED
    BY <2>2, <2>3, <2>4, <2>5 DEF RecordsFollow
<1>3. CASE HibernateAllTimeout
  <2>1. /\ captured \in SUBSET Thread /\ captured # {} /\ StopProcesses(captured)
        /\ \A t \in Thread : process'[t] = IF t \in captured THEN NoProc ELSE process[t]
        /\ UNCHANGED <<sessions, status, harness, spawning, locks, persisted, server>>
    BY <1>3 DEF HibernateAllTimeout, WithoutProcess, IInv, TypeOK
  <2>2. server # "up"
    BY <2>1 DEF CapturedOnClose
  <2>3. StatusMatchesProcess' /\ CapturedOnClose'
    BY <2>1, <2>2 DEF StatusMatchesProcess, CapturedOnClose
  <2>4. RegistryExact'
    BY <2>1, UnregisteredExact DEF RegistryExact
  <2>5. PersistedStatusFollows' /\ SpawnsOwnHarness'
    BY <2>1 DEF RecordsFollow, PersistedStatusFollows, SpawnsOwnHarness
  <2>. QED
    BY <2>3, <2>4, <2>5 DEF RecordsFollow
<1>4. CASE Dispose
  BY <1>4 DEF Dispose, RecordsFollow, StatusMatchesProcess, RegistryExact,
              PersistedStatusFollows, SpawnsOwnHarness, CapturedOnClose
<1>. QED
  BY <1>1, <1>2, <1>3, <1>4

\* Nothing is written down before the first start.
LEMMA InitRInv == Init => RInv
<1>. SUFFICES ASSUME Init PROVE RInv
  OBVIOUS
<1>1. IInv
  BY InitIInv
<1>2. RecordsFollow
  BY DEF Init, RecordsFollow, StatusMatchesProcess, RegistryExact, PersistedStatusFollows
<1>3. SpawnsOwnHarness /\ CapturedOnClose
  BY DEF Init, SpawnsOwnHarness, CapturedOnClose
<1>. QED
  BY <1>1, <1>2, <1>3 DEF RInv

\* Every step, and stuttering, keeps the records true.
LEMMA NextRInv == RInv /\ [Next]_vars => RInv'
<1>. SUFFICES ASSUME RInv, [Next]_vars PROVE RInv'
  OBVIOUS
<1>. DEFINE Kept == RecordsFollow' /\ SpawnsOwnHarness' /\ CapturedOnClose'
<1>1. IInv /\ IInv'
  BY NextIInv DEF RInv
<1>2. ASSUME Client PROVE Kept
  <2>1. /\ SpawnsKeepLocks
        /\ UNCHANGED <<sessions, status, process, harness, registry, persisted, spawning>>
        /\ \/ UNCHANGED <<captured, server>>
           \/ server = "up" /\ server' = "closing"
    BY <1>1, <1>2, ClientFrame
  <2>. QED
    BY <2>1, RecordsFrame
<1>3. ASSUME NEW t \in Thread, LockStep(t) PROVE Kept
  BY <1>3, LockStepRecords
<1>4. ASSUME NEW j \in Job, ResumeJob(j) PROVE Kept
  <2>1. \A u \in Thread :
          locks[u] # <<>> => locks'[u] # <<>> /\ Head(locks'[u]) = Head(locks[u])
    BY <1>1, <1>4, ResumeType DEF IInv
  <2>2. SpawnsKeepLocks
    BY <1>1, <1>4, <2>1
       DEF ResumeJob, SpawnsKeepLocks, IInv, TypeOK, Safety, StartIsExclusive, Holds
  <2>. QED
    BY <1>4, <2>2, RecordsFrame DEF ResumeJob, entryVars, procVars
<1>5. ASSUME \/ \E p \in Proc : ChildEnds(p) \/ OnExit(p) \/ KillTimer(p)
             \/ HibernateAllTimeout
             \/ Dispose
      PROVE  Kept
  BY <1>5, ProcessStepRecords
<1>6. ASSUME UNCHANGED vars PROVE Kept
  <2>1. SpawnsKeepLocks
    BY <1>1, <1>6 DEF vars, SpawnsKeepLocks, IInv, Safety, StartIsExclusive, Holds
  <2>. QED
    BY <1>6, <2>1, RecordsFrame DEF vars
<1>7. Kept
  BY <1>2, <1>3, <1>4, <1>5, <1>6 DEF Next
<1>. QED
  BY <1>1, <1>7 DEF RInv

\* A session's status, its registry file and the status the read model keeps follow its
\* PTY through restarts that change the harness, failed starts, exits, deletions and forced
\* stops (startSession, onExit, hibernateAll, wsServer's subscription).
THEOREM SpecRecordsFollow == Spec => []RecordsFollow
<1>1. RInv => RecordsFollow
  BY DEF RInv
<1>. QED
  BY InitRInv, NextRInv, <1>1, PTL DEF Spec
-----------------------------------------------------------------------------
(* Purges.  What a purge spares is decided when its loop starts, long before   *)
(* the victim's lock is free; so one must know that a loop awaits at most one  *)
(* task at a time, its own, and that its victims stay outside what it spares.  *)

\* An entry that has a PTY says so.
PtyMeansActive == \A t \in Thread : process[t] # NoProc => status[t] = "active"

\* The tasks of the loops jb in the queues q: each is the one its loop awaits.
LoopTasks(q, jb) ==
    /\ \A u \in Thread : \A i \in 1..Len(q[u]) :
         q[u][i].by \in Job =>
           /\ jb[q[u][i].by].waiting
           /\ q[u][i].op = "purge" => /\ jb[q[u][i].by].kind = "purge"
                                      /\ u \notin jb[q[u][i].by].except
    /\ \A u, v \in Thread : \A i \in 1..Len(q[u]), k \in 1..Len(q[v]) :
         q[u][i].by \in Job /\ q[u][i].by = q[v][k].by => u = v /\ i = k
    /\ \A j \in Job : jb[j].kind = "none" => ~jb[j].waiting
    /\ \A j \in Job : jb[j].kind = "purge" =>
         \A i \in 1..Len(jb[j].victims) : jb[j].victims[i] \notin jb[j].except

LInv == IInv /\ PtyMeansActive /\ LoopTasks(locks, job)

\* A task that joins a queue goes behind the others.
LEMMA EnqueuedItems ==
    ASSUME NEW q \in [Thread -> Seq(Task)], NEW t \in Thread,
           NEW op \in {"start", "hibernate", "destroy", "purge"},
           NEW h \in Harness, NEW by \in Job \cup {NoJob, Shutdown}
    PROVE  \A u \in Thread : \A i \in 1..Len(Enqueued(q, t, op, h, by)[u]) :
             \/ i \in 1..Len(q[u]) /\ Enqueued(q, t, op, h, by)[u][i] = q[u][i]
             \/ /\ u = t /\ i = Len(q[u]) + 1
                /\ Enqueued(q, t, op, h, by)[u][i] = [op |-> op, harness |-> h, by |-> by]
<1>. DEFINE task == [op |-> op, harness |-> h, by |-> by]
<1>1. task \in Task
  BY DEF Task
<1>2. ASSUME NEW s \in Seq(Task), NEW i \in 1..Len(Append(s, task))
      PROVE  \/ i \in 1..Len(s) /\ Append(s, task)[i] = s[i]
             \/ i = Len(s) + 1 /\ Append(s, task)[i] = task
  BY <1>1, <1>2
<1>. QED
  BY <1>1, <1>2 DEF Enqueued

\* Tasks that no loop asked for leave the loops alone.
LEMMA ForeignTasksJoin ==
    ASSUME NEW q \in [Thread -> Seq(Task)], NEW q2, NEW jb, LoopTasks(q, jb),
           \A u \in Thread : \A i \in 1..Len(q2[u]) :
             \/ i \in 1..Len(q[u]) /\ q2[u][i] = q[u][i]
             \/ q2[u][i].by \notin Job
    PROVE  LoopTasks(q2, jb)
<1>. USE DEF LoopTasks
<1>1. \A u \in Thread : \A i \in 1..Len(q2[u]) :
        q2[u][i].by \in Job =>
          /\ jb[q2[u][i].by].waiting
          /\ q2[u][i].op = "purge" => /\ jb[q2[u][i].by].kind = "purge"
                                      /\ u \notin jb[q2[u][i].by].except
  OBVIOUS
<1>2. \A u, v \in Thread : \A i \in 1..Len(q2[u]), k \in 1..Len(q2[v]) :
        q2[u][i].by \in Job /\ q2[u][i].by = q2[v][k].by => u = v /\ i = k
  OBVIOUS
<1>. QED
  BY <1>1, <1>2

\* Such is a client's task.
LEMMA ClientTaskJoins ==
    ASSUME NEW q \in [Thread -> Seq(Task)], NEW t \in Thread,
           NEW op \in {"start", "hibernate", "destroy"}, NEW h \in Harness, NEW by,
           by \in {NoJob, Shutdown}, NEW jb, LoopTasks(q, jb)
    PROVE  LoopTasks(Enqueued(q, t, op, h, by), jb)
<1>. DEFINE q2 == Enqueued(q, t, op, h, by)
<1>1. op \in {"start", "hibernate", "destroy", "purge"} /\ by \in Job \cup {NoJob, Shutdown}
  OBVIOUS
<1>2. \A u \in Thread : \A i \in 1..Len(q2[u]) :
        \/ i \in 1..Len(q[u]) /\ q2[u][i] = q[u][i]
        \/ /\ u = t /\ i = Len(q[u]) + 1
           /\ q2[u][i] = [op |-> op, harness |-> h, by |-> by]
  BY <1>1, EnqueuedItems
<1>3. [op |-> op, harness |-> h, by |-> by].by \notin Job
  BY ConstantsAssumption
<1>. HIDE DEF q2
<1>4. LoopTasks(q2, jb)
  <2>1. \A u \in Thread : \A i \in 1..Len(q2[u]) :
          \/ i \in 1..Len(q[u]) /\ q2[u][i] = q[u][i]
          \/ q2[u][i].by \notin Job
    BY <1>2, <1>3
  <2>. QED
    BY <2>1, ForeignTasksJoin
<1>. QED
  BY <1>4 DEF q2

\* A loop that awaits nothing has no task in a queue.
LEMMA IdleLoopHasNoTask ==
    ASSUME NEW q, NEW jb, LoopTasks(q, jb), NEW j \in Job, ~jb[j].waiting
    PROVE  \A u \in Thread : \A i \in 1..Len(q[u]) : q[u][i].by # j
BY DEF LoopTasks

\* A loop that awaits nothing may change its state, if its victims stay unspared.
LEMMA IdleLoopMoves ==
    ASSUME NEW q, NEW jb, LoopTasks(q, jb), NEW j \in Job, jb \in [Job -> JobState],
           NEW s \in JobState, ~s.waiting,
           \A u \in Thread : \A i \in 1..Len(q[u]) : q[u][i].by # j,
           s.kind = "purge" => \A i \in 1..Len(s.victims) : s.victims[i] \notin s.except
    PROVE  LoopTasks(q, [jb EXCEPT ![j] = s])
BY DEF LoopTasks

\* A loop that awaits nothing may ask for one task.
LEMMA LoopTaskJoins ==
    ASSUME NEW q \in [Thread -> Seq(Task)], NEW t \in Thread,
           NEW op \in {"hibernate", "purge"}, NEW h \in Harness, NEW j \in Job,
           NEW jb \in [Job -> JobState], LoopTasks(q, jb), ~jb[j].waiting,
           NEW s \in JobState, s.waiting, s.kind # "none",
           op = "purge" => s.kind = "purge" /\ t \notin s.except,
           s.kind = "purge" => \A i \in 1..Len(s.victims) : s.victims[i] \notin s.except
    PROVE  LoopTasks(Enqueued(q, t, op, h, j), [jb EXCEPT ![j] = s])
<1>. DEFINE q2 == Enqueued(q, t, op, h, j)
            jb2 == [jb EXCEPT ![j] = s]
<1>1. \A u \in Thread : \A i \in 1..Len(q2[u]) :
        \/ i \in 1..Len(q[u]) /\ q2[u][i] = q[u][i]
        \/ u = t /\ i = Len(q[u]) + 1 /\ q2[u][i].by = j /\ q2[u][i].op = op
  <2>1. op \in {"start", "hibernate", "destroy", "purge"} /\ j \in Job \cup {NoJob, Shutdown}
    OBVIOUS
  <2>2. \A u \in Thread : \A i \in 1..Len(q2[u]) :
          \/ i \in 1..Len(q[u]) /\ q2[u][i] = q[u][i]
          \/ /\ u = t /\ i = Len(q[u]) + 1
             /\ q2[u][i] = [op |-> op, harness |-> h, by |-> j]
    BY <2>1, EnqueuedItems
  <2>. QED
    BY <2>2
<1>2. \A u \in Thread : \A i \in 1..Len(q[u]) : q[u][i].by # j
  BY IdleLoopHasNoTask
<1>3. \A k \in Job : jb2[k] = IF k = j THEN s ELSE jb[k]
  OBVIOUS
<1>. HIDE DEF q2, jb2
<1>4. LoopTasks(q2, jb2)
  <2>. USE DEF LoopTasks
  <2>1. \A u \in Thread : \A i \in 1..Len(q2[u]) :
          q2[u][i].by \in Job =>
            /\ jb2[q2[u][i].by].waiting
            /\ q2[u][i].op = "purge" => /\ jb2[q2[u][i].by].kind = "purge"
                                        /\ u \notin jb2[q2[u][i].by].except
    BY <1>1, <1>2, <1>3
  <2>2. \A u, v \in Thread : \A i \in 1..Len(q2[u]), k \in 1..Len(q2[v]) :
          q2[u][i].by \in Job /\ q2[u][i].by = q2[v][k].by => u = v /\ i = k
    <3>. SUFFICES ASSUME NEW u \in Thread, NEW v \in Thread,
                         NEW i \in 1..Len(q2[u]), NEW k \in 1..Len(q2[v]),
                         q2[u][i].by \in Job, q2[u][i].by = q2[v][k].by
                  PROVE  u = v /\ i = k
      OBVIOUS
    <3>1. CASE q2[u][i].by = j
      <4>1. u = t /\ i = Len(q[t]) + 1
        <5>1. ~(i \in 1..Len(q[u]) /\ q2[u][i] = q[u][i])
          BY <3>1, <1>2
        <5>2. u = t /\ i = Len(q[u]) + 1
          BY <5>1, <1>1
        <5>. QED
          BY <5>2
      <4>2. v = t /\ k = Len(q[t]) + 1
        <5>1. ~(k \in 1..Len(q[v]) /\ q2[v][k] = q[v][k])
          <6>1. q2[v][k].by = j
            BY <3>1
          <6>. QED
            BY <6>1, <1>2
        <5>2. v = t /\ k = Len(q[v]) + 1
          BY <5>1, <1>1
        <5>. QED
          BY <5>2
      <4>. QED
        BY <4>1, <4>2
    <3>2. CASE q2[u][i].by # j
      <4>1. i \in 1..Len(q[u]) /\ q2[u][i] = q[u][i]
        BY <3>2, <1>1
      <4>2. k \in 1..Len(q[v]) /\ q2[v][k] = q[v][k]
        BY <3>2, <1>1
      <4>. QED
        BY <4>1, <4>2
    <3>. QED
      BY <3>1, <3>2
  <2>3. /\ \A k \in Job : jb2[k].kind = "none" => ~jb2[k].waiting
        /\ \A k \in Job : jb2[k].kind = "purge" =>
             \A i \in 1..Len(jb2[k].victims) : jb2[k].victims[i] \notin jb2[k].except
    BY <1>3
  <2>. QED
    BY <2>1, <2>2, <2>3
<1>. QED
  BY <1>4 DEF q2, jb2

\* The head's release removes its task, which was its loop's only one.
LEMMA ReleaseKeepsLoops ==
    ASSUME NEW q \in [Thread -> Seq(Task)], NEW t \in Thread, q[t] # <<>>,
           NEW jb, LoopTasks(q, jb)
    PROVE  /\ LoopTasks([q EXCEPT ![t] = Tail(@)], jb)
           /\ Head(q[t]).by \in Job =>
                \A u \in Thread : \A i \in 1..Len([q EXCEPT ![t] = Tail(@)][u]) :
                  [q EXCEPT ![t] = Tail(@)][u][i].by # Head(q[t]).by
<1>. DEFINE q2 == [q EXCEPT ![t] = Tail(@)]
<1>1. \A u \in Thread : \A i \in 1..Len(q2[u]) :
        \/ u # t /\ i \in 1..Len(q[u]) /\ q2[u][i] = q[u][i]
        \/ u = t /\ i + 1 \in 1..Len(q[u]) /\ q2[u][i] = q[u][i + 1]
  <2>1. ASSUME NEW s \in Seq(Task), s # <<>>, NEW i \in 1..Len(Tail(s))
        PROVE  i + 1 \in 1..Len(s) /\ Tail(s)[i] = s[i + 1]
    BY <2>1
  <2>2. q2[t] = Tail(q[t]) /\ \A u \in Thread \ {t} : q2[u] = q[u]
    OBVIOUS
  <2>3. q[t] \in Seq(Task)
    OBVIOUS
  <2>. HIDE DEF q2
  <2>4. ASSUME NEW i \in 1..Len(q2[t])
        PROVE  i + 1 \in 1..Len(q[t]) /\ q2[t][i] = q[t][i + 1]
    BY <2>1, <2>2, <2>3
  <2>. QED
    BY <2>2, <2>4
<1>2. 1 \in 1..Len(q[t]) /\ Head(q[t]) = q[t][1]
  BY EmptySeq, HeadTailProperties
<1>3. \A u \in Thread : \A i \in 1..Len(q2[u]) : i \in Nat \ {0}
  OBVIOUS
<1>. HIDE DEF q2
<1>4. LoopTasks(q2, jb)
  <2>. USE DEF LoopTasks
  <2>1. ASSUME NEW u \in Thread, NEW i \in 1..Len(q2[u]), q2[u][i].by \in Job
        PROVE  /\ jb[q2[u][i].by].waiting
               /\ q2[u][i].op = "purge" => /\ jb[q2[u][i].by].kind = "purge"
                                           /\ u \notin jb[q2[u][i].by].except
    <3>1. PICK a \in 1..Len(q[u]) : q2[u][i] = q[u][a]
      BY <1>1
    <3>. QED
      BY <2>1, <3>1
  <2>2. ASSUME NEW u \in Thread, NEW v \in Thread,
               NEW i \in 1..Len(q2[u]), NEW k \in 1..Len(q2[v]),
               q2[u][i].by \in Job, q2[u][i].by = q2[v][k].by
        PROVE  u = v /\ i = k
    <3>1. PICK a \in 1..Len(q[u]) : /\ q2[u][i] = q[u][a]
                                    /\ a = IF u = t THEN i + 1 ELSE i
      BY <1>1
    <3>2. PICK b \in 1..Len(q[v]) : /\ q2[v][k] = q[v][b]
                                    /\ b = IF v = t THEN k + 1 ELSE k
      BY <1>1
    <3>3. u = v /\ a = b
      BY <2>2, <3>1, <3>2
    <3>. QED
      BY <1>3, <3>1, <3>2, <3>3
  <2>. QED
    BY <2>1, <2>2
<1>5. ASSUME Head(q[t]).by \in Job, NEW u \in Thread, NEW i \in 1..Len(q2[u]),
             q2[u][i].by = Head(q[t]).by
      PROVE  FALSE
  <2>1. PICK a \in 1..Len(q[u]) : q2[u][i] = q[u][a] /\ a = IF u = t THEN i + 1 ELSE i
    BY <1>1
  <2>2. u = t /\ a = 1
    BY <1>2, <1>5, <2>1 DEF LoopTasks
  <2>. QED
    BY <1>3, <2>1, <2>2
<1>. QED
  BY <1>4, <1>5 DEF q2

\* A reconciliation asks for one hibernation, or for none.
LEMMA ReconcileKeepsLoops ==
    ASSUME TypeOK, sessions' \in SUBSET Thread,
           NEW j \in Job, NEW goesOn \in BOOLEAN, NEW void \in BOOLEAN, NEW cap \in Caps,
           NEW from \in Nat, NEW queue \in [Thread -> Seq(Task)],
           LoopTasks(queue, job), goesOn => ~job[j].waiting,
           ReconcileFrom(j, goesOn, void, cap, from, queue)
    PROVE  LoopTasks(locks', job')
<1>1. PICK c \in {cap}, f \in {from} :
        \/ /\ job' = IF goesOn THEN [job EXCEPT ![j] = NoJobState] ELSE job
           /\ locks' = queue
        \/ \E k \in HarnessesOver(c, f)' :
             /\ goesOn \/ FreeJob(j)
             /\ \E vs \in OldestFirst(Excess(HarnessOrder[k], c))' :
                  /\ job' = [job EXCEPT ![j] =
                               [kind |-> "reconcile", void |-> void, cap |-> c,
                                next |-> k + 1, victims |-> Tail(vs), except |-> {},
                                waiting |-> TRUE]]
                  /\ locks' = Enqueued(queue, vs[1], "hibernate", DefaultHarness, j)
  BY DEF ReconcileFrom
<1>2. job \in [Job -> JobState]
  BY DEF TypeOK
<1>3. CASE job' = (IF goesOn THEN [job EXCEPT ![j] = NoJobState] ELSE job) /\ locks' = queue
  <2>1. CASE goesOn
    <3>1. \A u \in Thread : \A i \in 1..Len(queue[u]) : queue[u][i].by # j
      BY <2>1, IdleLoopHasNoTask
    <3>2. ~NoJobState.waiting /\ NoJobState.kind # "purge" /\ NoJobState \in JobState
      BY NoJobStateType DEF NoJobState
    <3>3. LoopTasks(queue, [job EXCEPT ![j] = NoJobState])
      BY <1>2, <3>1, <3>2, IdleLoopMoves
    <3>. QED
      BY <1>3, <2>1, <3>3
  <2>2. CASE ~goesOn
    BY <1>3, <2>2
  <2>. QED
    BY <2>1, <2>2
<1>4. ASSUME NEW k \in HarnessesOver(c, f)', goesOn \/ FreeJob(j),
             NEW vs \in OldestFirst(Excess(HarnessOrder[k], c))',
             job' = [job EXCEPT ![j] =
                       [kind |-> "reconcile", void |-> void, cap |-> c,
                        next |-> k + 1, victims |-> Tail(vs), except |-> {},
                        waiting |-> TRUE]],
             locks' = Enqueued(queue, vs[1], "hibernate", DefaultHarness, j)
      PROVE  LoopTasks(locks', job')
  <2>. DEFINE S == Excess(HarnessOrder[k], c)'
              s == [kind |-> "reconcile", void |-> void, cap |-> c, next |-> k + 1,
                    victims |-> Tail(vs), except |-> {}, waiting |-> TRUE]
  <2>1. k \in Nat /\ S # {}
    BY ConstantsAssumption DEF HarnessesOver
  <2>2. S \in SUBSET Thread
    BY DEF Excess, Active, Running
  <2>3. vs \in [1..Cardinality(S) -> S]
    BY DEF OldestFirst
  <2>4. vs[1] \in Thread /\ Tail(vs) \in Seq(Thread)
    BY <2>1, <2>2, <2>3, OrderingType
  <2>5. s \in JobState
    BY <2>1, <2>4 DEF JobState
  <2>6. ~job[j].waiting
    BY <1>4 DEF FreeJob, LoopTasks
  <2>7. s.waiting /\ s.kind = "reconcile"
    OBVIOUS
  <2>8. PICK v \in Thread : v = vs[1]
    BY <2>4
  <2>9. locks' = Enqueued(queue, v, "hibernate", DefaultHarness, j)
    BY <1>4, <2>8
  <2>10. job' = [job EXCEPT ![j] = s]
    BY <1>4
  <2>. HIDE DEF s, S
  <2>11. LoopTasks(Enqueued(queue, v, "hibernate", DefaultHarness, j), [job EXCEPT ![j] = s])
    BY <1>2, <2>5, <2>6, <2>7, DefaultHarnessType, LoopTaskJoins
  <2>. QED
    BY <2>9, <2>10, <2>11
<1>. QED
  BY <1>1, <1>3, <1>4

\* A loop that is entered asks for its first victim, or for nothing.
LEMMA AwaitLoopKeepsLoops ==
    ASSUME TypeOK, NEW j \in Job, LoopTasks(locks, job), ~job[j].waiting,
           NEW kind \in {"bulk", "purge"}, NEW vs \in Seq(Thread),
           NEW except \in SUBSET Thread, NEW op \in {"hibernate", "purge"},
           op = "purge" => kind = "purge",
           kind = "purge" => \A i \in 1..Len(vs) : vs[i] \notin except,
           AwaitLoop(j, kind, vs, except, op)
    PROVE  LoopTasks(locks', job')
<1>. DEFINE s == [kind |-> kind, void |-> FALSE, cap |-> SomeCap, next |-> 1,
                  victims |-> IF vs = <<>> THEN <<>> ELSE Tail(vs),
                  except |-> except, waiting |-> vs # <<>>]
<1>1. job \in [Job -> JobState] /\ locks \in [Thread -> Seq(Task)]
  BY DEF TypeOK
<1>2. job' = [job EXCEPT ![j] = s]
  BY DEF AwaitLoop
<1>3. s \in JobState
  <2>1. SomeCap \in Caps
    BY ConstantsAssumption DEF SomeCap
  <2>. QED
    BY <2>1 DEF JobState
<1>4. s.kind = kind /\ s.except = except /\ s.waiting = (vs # <<>>)
  OBVIOUS
<1>5. CASE vs = <<>>
  <2>1. locks' = locks /\ Len(s.victims) = 0 /\ ~s.waiting
    BY <1>5, <1>4 DEF AwaitLoop
  <2>2. \A u \in Thread : \A i \in 1..Len(locks[u]) : locks[u][i].by # j
    BY IdleLoopHasNoTask
  <2>. HIDE DEF s
  <2>3. s.kind = "purge" => \A i \in 1..Len(s.victims) : s.victims[i] \notin s.except
    BY <2>1
  <2>4. LoopTasks(locks, [job EXCEPT ![j] = s])
    BY <1>1, <1>3, <2>1, <2>2, <2>3, IdleLoopMoves
  <2>. QED
    BY <1>2, <2>1, <2>4
<1>6. CASE vs # <<>>
  <2>1. s.victims = Tail(vs)
    BY <1>6
  <2>2. /\ 1 \in 1..Len(vs) /\ vs[1] \in Thread
        /\ \A i \in 1..Len(Tail(vs)) : i + 1 \in 1..Len(vs) /\ Tail(vs)[i] = vs[i + 1]
    BY <1>6
  <2>3. PICK v \in Thread : v = vs[1]
    BY <2>2
  <2>4. locks' = Enqueued(locks, v, op, DefaultHarness, j)
    BY <1>6, <2>3 DEF AwaitLoop
  <2>. HIDE DEF s
  <2>5. s.kind = "purge" => \A i \in 1..Len(s.victims) : s.victims[i] \notin s.except
    BY <1>4, <2>1, <2>2
  <2>6. op = "purge" => s.kind = "purge" /\ v \notin s.except
    BY <1>4, <2>2, <2>3
  <2>7. s.waiting /\ s.kind # "none"
    BY <1>4, <1>6
  <2>8. LoopTasks(Enqueued(locks, v, op, DefaultHarness, j), [job EXCEPT ![j] = s])
    BY <1>1, <1>3, <2>5, <2>6, <2>7, DefaultHarnessType, LoopTaskJoins
  <2>. QED
    BY <1>2, <2>4, <2>8
<1>. QED
  BY <1>5, <1>6

\* A loop whose task is done awaits nothing, and only a hibernation adds to what it spares.
LEMMA SettleKeepsLoops ==
    ASSUME TypeOK, LoopTasks(locks, job), NEW t \in Thread, locks[t] # <<>>,
           NEW done \in BOOLEAN, job' = Settled(Head(locks[t]).by, t, done),
           locks' = Released(t)
    PROVE  LoopTasks(locks', job')
<1>. DEFINE by == Head(locks[t]).by
<1>1. job \in [Job -> JobState] /\ locks \in [Thread -> Seq(Task)]
  BY DEF TypeOK
<1>2. /\ LoopTasks(Released(t), job)
      /\ by \in Job => \A u \in Thread : \A i \in 1..Len(Released(t)[u]) :
                         Released(t)[u][i].by # by
  BY <1>1, ReleaseKeepsLoops DEF Released
<1>3. CASE by \in Job
  <2>. DEFINE s == IF job[by].kind = "reconcile" /\ ~done THEN NoJobState
                   ELSE [job[by] EXCEPT !.waiting = FALSE,
                                        !.except = IF job[by].kind = "bulk" /\ done
                                                   THEN @ \cup {t} ELSE @]
  <2>1. job' = [job EXCEPT ![by] = s]
    BY <1>1, <1>3 DEF Settled
  <2>2. s \in JobState /\ ~s.waiting
    <3>1. job[by] \in JobState
      BY <1>1, <1>3
    <3>. QED
      BY <3>1, NoJobStateType DEF JobState, NoJobState
  <2>3. s.kind = "purge" => /\ job[by].kind = "purge"
                            /\ s.victims = job[by].victims /\ s.except = job[by].except
    <3>1. job[by] \in JobState
      BY <1>1, <1>3
    <3>. QED
      BY <3>1 DEF JobState, NoJobState
  <2>4. job[by].kind = "purge" =>
          \A i \in 1..Len(job[by].victims) : job[by].victims[i] \notin job[by].except
    BY <1>3 DEF LoopTasks
  <2>. HIDE DEF s, by
  <2>5. s.kind = "purge" => \A i \in 1..Len(s.victims) : s.victims[i] \notin s.except
    BY <2>3, <2>4
  <2>6. LoopTasks(Released(t), [job EXCEPT ![by] = s])
    BY <1>1, <1>2, <1>3, <2>2, <2>5, IdleLoopMoves
  <2>. QED
    BY <2>1, <2>6
<1>4. CASE by \notin Job
  <2>1. job' = job
    BY <1>1, <1>4 DEF Settled
  <2>. QED
    BY <1>2, <2>1
<1>. QED
  BY <1>3, <1>4

\* A task that releases its lock and settles no loop.
LEMMA ReleasedKeepsLoops ==
    ASSUME TypeOK, LoopTasks(locks, job), NEW t \in Thread, locks[t] # <<>>
    PROVE  LoopTasks(Released(t), job)
BY ReleaseKeepsLoops DEF TypeOK, Released

\* A client's operation keeps the loops apart.
LEMMA ClientKeepsLoops ==
    ASSUME LInv, Client
    PROVE  LoopTasks(locks', job')
<1>. USE DEF LInv, IInv
<1>0. locks \in [Thread -> Seq(Task)]
  BY DEF TypeOK
<1>1. ASSUME NEW t \in Thread, NEW h \in Harness,
             NEW op \in {"start", "hibernate", "destroy"}, Request(t, op, h)
      PROVE  LoopTasks(locks', job')
  <2>1. LoopTasks(Enqueued(locks, t, op, h, NoJob), job)
    BY <1>0, ClientTaskJoins
  <2>. QED
    BY <1>1, <2>1 DEF Request
<1>2. ASSUME NEW t \in Thread, Interact(t) PROVE LoopTasks(locks', job')
  BY <1>2 DEF Interact
<1>3. ASSUME NEW j \in Job, NEW n \in Caps, SetMaxActiveSessions(n, j)
      PROVE  LoopTasks(locks', job')
  <2>1. /\ ReconcileFrom(j, FALSE, FALSE, n, 1, locks)
        /\ sessions' \in SUBSET Thread
    BY <1>3 DEF SetMaxActiveSessions, entryVars, TypeOK
  <2>. QED
    BY <1>0, <2>1, ReconcileKeepsLoops
<1>4. ASSUME NEW j \in Job, NEW ex \in SUBSET Thread, NEW hib \in BOOLEAN,
             PurgeInactive(ex, hib, j)
      PROVE  LoopTasks(locks', job')
  <2>1. PICK vs \in IF hib THEN OldestFirst(Running \ ex) ELSE {<<>>} :
          AwaitLoop(j, "bulk", vs, ex, "hibernate")
    BY <1>4 DEF PurgeInactive
  <2>2. vs \in Seq(Thread)
    <3>1. CASE hib
      BY <3>1, OrderingType DEF OldestFirst, Running, TypeOK
    <3>2. CASE ~hib
      BY <3>2
    <3>. QED
      BY <3>1, <3>2
  <2>3. ~job[j].waiting
    BY <1>4 DEF PurgeInactive, FreeJob, LoopTasks
  <2>. QED
    BY <2>1, <2>2, <2>3, AwaitLoopKeepsLoops
<1>5. ASSUME HibernateAll PROVE LoopTasks(locks', job')
  <2>. DEFINE task == [op |-> "hibernate", harness |-> DefaultHarness, by |-> Shutdown]
  <2>1. task \in Task /\ Shutdown \notin Job
    BY DefaultHarnessType, ConstantsAssumption DEF Task
  <2>2. ASSUME NEW s \in Seq(Task), NEW i \in 1..Len(Append(s, task))
        PROVE  \/ i \in 1..Len(s) /\ Append(s, task)[i] = s[i]
               \/ Append(s, task)[i].by \notin Job
    BY <2>1, <2>2
  <2>3. \A u \in Thread : \A i \in 1..Len(locks'[u]) :
          \/ i \in 1..Len(locks[u]) /\ locks'[u][i] = locks[u][i]
          \/ locks'[u][i].by \notin Job
    BY <1>0, <1>5, <2>2 DEF HibernateAll
  <2>4. job' = job
    BY <1>5 DEF HibernateAll
  <2>. QED
    BY <1>0, <2>3, <2>4, ForeignTasksJoin
<1>. QED
  BY <1>1, <1>2, <1>3, <1>4, <1>5, DefaultHarnessType DEF Client

\* A loop that goes on keeps to itself.
LEMMA ResumeKeepsLoops ==
    ASSUME LInv, NEW j \in Job, ResumeJob(j)
    PROVE  LoopTasks(locks', job')
<1>. USE DEF LInv, IInv
<1>1. /\ job \in [Job -> JobState] /\ job[j] \in JobState /\ ~job[j].waiting
      /\ locks \in [Thread -> Seq(Task)] /\ sessions' \in SUBSET Thread
  BY DEF TypeOK, ResumeJob, entryVars
<1>2. ASSUME NEW op \in {"hibernate", "purge"}, NextVictim(j, op),
             op = "purge" => job[j].kind = "purge", ~FreeJob(j)
      PROVE  LoopTasks(locks', job')
  <2>. DEFINE vs == job[j].victims
              s == [job[j] EXCEPT !.waiting = TRUE, !.victims = Tail(@)]
  <2>1. vs \in Seq(Thread) /\ vs # <<>>
    BY <1>1, <1>2 DEF JobState, NextVictim
  <2>2. /\ Head(vs) \in Thread /\ Tail(vs) \in Seq(Thread)
        /\ 1 \in 1..Len(vs) /\ Head(vs) = vs[1]
        /\ \A i \in 1..Len(Tail(vs)) : i + 1 \in 1..Len(vs) /\ Tail(vs)[i] = vs[i + 1]
    BY <2>1
  <2>3. job' = [job EXCEPT ![j] = s]
    BY <1>1, <1>2 DEF NextVictim, JobState
  <2>4. /\ s \in JobState /\ s.waiting /\ s.kind = job[j].kind
        /\ s.victims = Tail(vs) /\ s.except = job[j].except
    BY <1>1, <2>2 DEF JobState
  <2>5. PICK v \in Thread : v = Head(vs)
    BY <2>2
  <2>6. locks' = Enqueued(locks, v, op, DefaultHarness, j)
    BY <1>2, <2>5 DEF NextVictim
  <2>7. job[j].kind = "purge" => \A i \in 1..Len(vs) : vs[i] \notin job[j].except
    BY DEF LoopTasks
  <2>. HIDE DEF s, vs
  <2>8. s.kind = "purge" => \A i \in 1..Len(s.victims) : s.victims[i] \notin s.except
    BY <2>2, <2>4, <2>7
  <2>9. op = "purge" => s.kind = "purge" /\ v \notin s.except
    BY <1>2, <2>2, <2>4, <2>5, <2>7
  <2>10. s.kind # "none"
    BY <1>2, <2>4 DEF FreeJob
  <2>11. LoopTasks(Enqueued(locks, v, op, DefaultHarness, j), [job EXCEPT ![j] = s])
    BY <1>1, <2>4, <2>8, <2>9, <2>10, DefaultHarnessType, LoopTaskJoins
  <2>. QED
    BY <2>3, <2>6, <2>11
<1>3. CASE ReconcileFrom(j, TRUE, job[j].void, job[j].cap, job[j].next, locks)
  <2>1. job[j].void \in BOOLEAN /\ job[j].cap \in Caps /\ job[j].next \in Nat
    BY <1>1 DEF JobState
  <2>. QED
    BY <2>1, <1>1, <1>3, ReconcileKeepsLoops
<1>4. ASSUME NEW vs \in AnyOrder(PurgeCandidates(job[j].except)),
             AwaitLoop(j, "purge", vs, job[j].except, "purge")
      PROVE  LoopTasks(locks', job')
  <2>1. PurgeCandidates(job[j].except) \in SUBSET (Thread \ job[j].except)
    BY DEF PurgeCandidates, TypeOK
  <2>2. /\ vs \in [1..Cardinality(PurgeCandidates(job[j].except))
                     -> PurgeCandidates(job[j].except)]
        /\ job[j].except \in SUBSET Thread
    BY <1>1 DEF AnyOrder, JobState
  <2>3. vs \in Seq(Thread)
    BY <2>1, <2>2, OrderingType
  <2>4. \A i \in 1..Len(vs) : vs[i] \notin job[j].except
    <3>. DEFINE S == PurgeCandidates(job[j].except)
    <3>1. IsFiniteSet(S) /\ S \subseteq Thread
      BY <2>1, FS_Subset, ConstantsAssumption
    <3>2. Cardinality(S) \in Nat
      BY <3>1, FS_CardinalityType
    <3>3. \A i \in 1..Len(vs) : vs[i] \in S
      <4>. HIDE DEF S
      <4>1. vs \in [1..Cardinality(S) -> S]
        BY <2>2 DEF S
      <4>. QED
        BY <3>2, <4>1
    <3>. QED
      BY <2>1, <3>3
  <2>. QED
    BY <1>1, <1>4, <2>2, <2>3, <2>4, AwaitLoopKeepsLoops
<1>5. CASE job' = [job EXCEPT ![j] = NoJobState] /\ UNCHANGED locks
  <2>1. \A u \in Thread : \A i \in 1..Len(locks[u]) : locks[u][i].by # j
    BY <1>1, IdleLoopHasNoTask
  <2>2. ~NoJobState.waiting /\ NoJobState.kind # "purge" /\ NoJobState \in JobState
    BY NoJobStateType DEF NoJobState
  <2>3. LoopTasks(locks, [job EXCEPT ![j] = NoJobState])
    BY <1>1, <2>1, <2>2, IdleLoopMoves
  <2>. QED
    BY <1>5, <2>3
<1>. QED
  BY <1>2, <1>3, <1>4, <1>5 DEF ResumeJob

\* Every step under a lock keeps the loops apart and the statuses with the PTYs.
LEMMA LockStepKeepsLoops ==
    ASSUME LInv, NEW t \in Thread, LockStep(t)
    PROVE  LoopTasks(locks', job') /\ PtyMeansActive'
<1>. USE DEF LInv, IInv
<1>1. ASSUME BeginStart(t) PROVE LoopTasks(locks', job') /\ PtyMeansActive'
  BY <1>1 DEF BeginStart, WithoutProcess, PtyMeansActive, TypeOK
<1>2. ASSUME NEW p \in Proc, NEW j \in Job, FinishStart(t, p, j)
      PROVE  LoopTasks(locks', job') /\ PtyMeansActive'
  <2>1. locks[t] # <<>> /\ Released(t) \in [Thread -> Seq(Task)]
    BY <1>2, HelperTypes DEF FinishStart, Safety, StartIsExclusive, Holds
  <2>2. LoopTasks(Released(t), job)
    BY <2>1, ReleasedKeepsLoops
  <2>3. /\ ReconcileFrom(j, FALSE, TRUE, maxActive, 1, Released(t))
        /\ sessions' \in SUBSET Thread /\ maxActive \in Caps
    BY <1>2 DEF FinishStart, TypeOK
  <2>4. LoopTasks(locks', job')
    BY <2>1, <2>2, <2>3, ReconcileKeepsLoops
  <2>5. PtyMeansActive'
    BY <1>2 DEF FinishStart, PtyMeansActive, TypeOK
  <2>. QED
    BY <2>4, <2>5
<1>3. ASSUME FailStart(t) PROVE LoopTasks(locks', job') /\ PtyMeansActive'
  <2>1. locks[t] # <<>>
    BY <1>3 DEF FailStart, Safety, StartIsExclusive, Holds
  <2>2. LoopTasks(Released(t), job)
    BY <2>1, ReleasedKeepsLoops
  <2>. QED
    BY <1>3, <2>2 DEF FailStart, PtyMeansActive, entryVars
<1>4. ASSUME Hibernate(t) PROVE LoopTasks(locks', job') /\ PtyMeansActive'
  <2>1. LoopTasks(locks', job')
    BY <1>4, SettleKeepsLoops DEF Hibernate, Holds
  <2>2. PtyMeansActive'
    BY <1>4 DEF Hibernate, WithoutProcess, PtyMeansActive, TypeOK
  <2>. QED
    BY <2>1, <2>2
<1>5. ASSUME HibernateMissing(t) PROVE LoopTasks(locks', job') /\ PtyMeansActive'
  <2>1. LoopTasks(locks', job')
    BY <1>5, SettleKeepsLoops DEF HibernateMissing, Holds
  <2>2. PtyMeansActive'
    BY <1>5 DEF HibernateMissing, PtyMeansActive, entryVars
  <2>. QED
    BY <2>1, <2>2
<1>6. DropEntry(t) \/ UNCHANGED entryVars => PtyMeansActive'
  BY DEF DropEntry, PtyMeansActive, entryVars, TypeOK
<1>7. ASSUME Destroy(t) PROVE LoopTasks(locks', job') /\ PtyMeansActive'
  <2>1. LoopTasks(Released(t), job)
    BY <1>7, ReleasedKeepsLoops DEF Destroy, Holds
  <2>2. DropEntry(t) \/ UNCHANGED entryVars
    BY <1>7 DEF Destroy
  <2>. QED
    BY <1>6, <1>7, <2>1, <2>2 DEF Destroy
<1>8. ASSUME PurgeOne(t) PROVE LoopTasks(locks', job') /\ PtyMeansActive'
  <2>1. LoopTasks(locks', job')
    BY <1>8, SettleKeepsLoops DEF PurgeOne, Holds
  <2>2. DropEntry(t) \/ UNCHANGED entryVars
    BY <1>8 DEF PurgeOne
  <2>. QED
    BY <1>6, <2>1, <2>2
<1>. QED
  BY <1>1, <1>2, <1>3, <1>4, <1>5, <1>7, <1>8 DEF LockStep

\* Nothing waits before the first request.
LEMMA InitLInv == Init => LInv
<1>. SUFFICES ASSUME Init PROVE LInv
  OBVIOUS
<1>1. IInv /\ PtyMeansActive
  BY InitIInv DEF Init, PtyMeansActive
<1>2. \A u \in Thread : Len(locks[u]) = 0
  BY DEF Init
<1>3. \A j \in Job : ~job[j].waiting /\ job[j].kind = "none"
  BY DEF Init, NoJobState
<1>4. LoopTasks(locks, job)
  BY <1>2, <1>3 DEF LoopTasks
<1>. QED
  BY <1>1, <1>4 DEF LInv

\* Every step, and stuttering, keeps the loops apart.
LEMMA NextLInv == LInv /\ [Next]_vars => LInv'
<1>. SUFFICES ASSUME LInv, [Next]_vars PROVE LInv'
  OBVIOUS
<1>. DEFINE Kept == LoopTasks(locks', job') /\ PtyMeansActive'
<1>1. IInv /\ IInv'
  BY NextIInv DEF LInv
<1>2. UNCHANGED <<status, process>> => PtyMeansActive'
  BY DEF LInv, PtyMeansActive
<1>3. ASSUME Client PROVE Kept
  BY <1>1, <1>2, <1>3, ClientFrame, ClientKeepsLoops
<1>4. ASSUME NEW t \in Thread, LockStep(t) PROVE Kept
  BY <1>4, LockStepKeepsLoops
<1>5. ASSUME NEW j \in Job, ResumeJob(j) PROVE Kept
  <2>1. LoopTasks(locks', job')
    BY <1>5, ResumeKeepsLoops
  <2>2. UNCHANGED <<status, process>>
    BY <1>5 DEF ResumeJob, entryVars
  <2>. QED
    BY <1>2, <2>1, <2>2
<1>6. ASSUME \/ \E p \in Proc : ChildEnds(p) \/ OnExit(p) \/ KillTimer(p)
             \/ HibernateAllTimeout
             \/ Dispose
      PROVE  Kept
  <2>1. UNCHANGED <<locks, job>>
    BY <1>6 DEF ChildEnds, OnExit, KillTimer, HibernateAllTimeout, Dispose
  <2>2. PtyMeansActive'
    BY <1>6 DEF LInv, PtyMeansActive, ChildEnds, OnExit, KillTimer, HibernateAllTimeout,
                Dispose, WithoutProcess, entryVars
  <2>. QED
    BY <2>1, <2>2 DEF LInv
<1>7. ASSUME UNCHANGED vars PROVE Kept
  <2>1. UNCHANGED <<locks, job, status, process>>
    BY <1>7 DEF vars
  <2>. QED
    BY <1>2, <2>1 DEF LInv
<1>8. Kept
  BY <1>3, <1>4, <1>5, <1>6, <1>7 DEF Next
<1>. QED
  BY <1>1, <1>8 DEF LInv

\* A purge removes no session that holds a PTY by then, none its client excluded and none
\* its own request has just hibernated (purgeInactiveSessions, serverPurgeInactiveSessions).
THEOREM SpecPurgeSparesInUse == Spec => PurgeSparesInUse
<1>. DEFINE Spares == \A t \in sessions \ sessions' :
              Holds(t, "purge") /\ server' = server =>
                  /\ process[t] = NoProc
                  /\ \A j \in Job : Head(locks[t]).by = j => t \notin job[j].except
<1>1. ASSUME LInv, [Next]_vars PROVE [Spares]_vars
  <2>1. CASE UNCHANGED vars
    BY <2>1
  <2>2. CASE Next
    <3>1. ASSUME NEW t \in sessions \ sessions', Holds(t, "purge"), server' = server
          PROVE  /\ process[t] = NoProc
                 /\ \A j \in Job : Head(locks[t]).by = j => t \notin job[j].except
      <4>1. t \in Thread
        BY <1>1 DEF LInv, IInv, TypeOK
      <4>2. \A u \in Thread : LockStep(u) => u = t \/ sessions \ {u} \subseteq sessions'
        BY DEF LockStep, BeginStart, FinishStart, FailStart, Hibernate, HibernateMissing,
               Destroy, PurgeOne, DropEntry, entryVars
      <4>3. LockStep(t)
        <5>1. ASSUME NEW u \in Thread, LockStep(u) PROVE u = t
          BY <3>1, <4>2, <5>1
        <5>2. ASSUME Client PROVE FALSE
          BY <1>1, <3>1, <5>2, ClientFrame DEF LInv
        <5>3. ASSUME NEW j \in Job, ResumeJob(j) PROVE FALSE
          BY <3>1, <5>3 DEF ResumeJob, entryVars
        <5>4. ASSUME \/ \E p \in Proc : ChildEnds(p) \/ OnExit(p) \/ KillTimer(p)
                     \/ HibernateAllTimeout
                     \/ Dispose
              PROVE  FALSE
          BY <3>1, <5>4 DEF ChildEnds, OnExit, KillTimer, HibernateAllTimeout, Dispose,
                            entryVars
        <5>. QED
          BY <2>2, <5>1, <5>2, <5>3, <5>4 DEF Next
      <4>4. PurgeOne(t) /\ StillInactive(t)
        BY <3>1, <4>3 DEF LockStep, BeginStart, FinishStart, FailStart, Hibernate,
                          HibernateMissing, Destroy, PurgeOne, Holds, entryVars
      <4>5. process[t] = NoProc
        BY <1>1, <4>1, <4>4 DEF StillInactive, LInv, PtyMeansActive
      <4>6. 1 \in 1..Len(locks[t]) /\ Head(locks[t]) = locks[t][1]
        <5>1. locks[t] \in Seq(Task) /\ locks[t] # <<>>
          BY <1>1, <3>1, <4>1 DEF LInv, IInv, TypeOK, Holds
        <5>. QED
          BY <5>1, EmptySeq, HeadTailProperties
      <4>7. ASSUME NEW j \in Job, Head(locks[t]).by = j PROVE t \notin job[j].except
        BY <1>1, <3>1, <4>1, <4>6, <4>7 DEF LInv, LoopTasks, Holds
      <4>. QED
        BY <4>5, <4>7
    <3>. QED
      BY <3>1
  <2>. QED
    BY <1>1, <2>1, <2>2
<1>. HIDE DEF Spares
<1>2. Spec => []LInv
  BY InitLInv, NextLInv, PTL DEF Spec
<1>3. Spec => [][Spares]_vars
  BY <1>1, <1>2, PTL DEF Spec
<1>. QED
  BY <1>3 DEF PurgeSparesInUse, Spares

-----------------------------------------------------------------------------
(* The cap.  A reconciliation takes the sessions to hibernate from a snapshot  *)
(* of one harness after the other, while starts, exits, interactions and other *)
(* loops go on; so one must know of each harness that what exceeds the cap is  *)
(* being put to sleep, or that a loop with no higher cap has yet to come by.   *)

\* No two sessions were last used at the same time.
IdleDistinct == \A t, u \in sessions : idle[t] = idle[u] => t = u

\* The sessions that a task, or the loop that lists them, will put to sleep.
Queued(q) == {t \in Thread : \E i \in 1..Len(q[t]) : q[t][i].op = "hibernate"}
Listed(jb) ==
    {t \in Thread : \E j \in Job : /\ jb[j].kind = "reconcile"
                                   /\ \E i \in 1..Len(jb[j].victims) : jb[j].victims[i] = t}

\* A reconciliation with no higher cap comes by the harness.
ComesBy(k) ==
    \E j \in Job : job[j].kind = "reconcile" /\ job[j].cap <= maxActive /\ job[j].next <= k

Staying(k) == Active(HarnessOrder[k]) \ (Queued(locks) \cup Listed(job))

\* Each harness is within the cap but for what is being put to sleep.
CapFollows ==
    server = "up" =>
        \A k \in DOMAIN HarnessOrder : ComesBy(k) \/ Cardinality(Staying(k)) <= maxActive

CInv == LInv /\ IdleDistinct /\ CapFollows

\* A deleted victim ends its reconciliation before the other victims' turn.
CutShort ==
    \E t \in Thread, j \in Job :
        HibernateMissing(t) /\ Head(locks[t]).by = j /\ job[j].kind = "reconcile"

\* A non-empty set of numbers has a least.
LEMMA LeastNumber ==
    ASSUME NEW S \in SUBSET Nat, S # {}
    PROVE  \E m \in S : \A k \in S : m <= k
<1>. DEFINE R == {ss \in Nat \X Nat : ss[1] < ss[2]}
<1>1. IsWellFoundedOn(R, Nat)
  BY NatLessThanWellFounded DEF OpToRel
<1>2. \A k, m \in Nat : k < m => <<k, m>> \in R
  OBVIOUS
<1>. HIDE DEF R
<1>3. PICK m \in S : \A k \in S : ~(<<k, m>> \in R)
  BY <1>1, WFMin
<1>4. ASSUME NEW k \in S
      PROVE  m <= k
  <2>1. k \in Nat /\ m \in Nat
    OBVIOUS
  <2>2. ~(k < m)
    BY <2>1, <1>2, <1>3
  <2>. QED
    BY <2>1, <2>2
<1>. QED
  BY <1>4

\* Of the sessions that have fewer than cap more recently used ones, there are at most cap.
LEMMA MostRecentFew ==
    ASSUME NEW S \in SUBSET Thread, NEW r \in [Thread -> Nat], NEW cap \in Nat,
           \A t, u \in S : r[t] = r[u] => t = u
    PROVE  Cardinality({t \in S : ~(Cardinality({u \in S : r[u] < r[t]}) >= cap)}) <= cap
<1>. DEFINE Before(t) == {u \in S : r[u] < r[t]}
            rank(t) == Cardinality(Before(t))
            K == {t \in S : ~(rank(t) >= cap)}
<1>1. /\ IsFiniteSet(S)
      /\ \A t \in S : IsFiniteSet(Before(t)) /\ rank(t) \in Nat
  <2>1. IsFiniteSet(S)
    BY FS_Subset, ConstantsAssumption
  <2>2. ASSUME NEW t \in S PROVE IsFiniteSet(Before(t)) /\ rank(t) \in Nat
    <3>1. Before(t) \in SUBSET S
      OBVIOUS
    <3>. QED
      BY <2>1, <3>1, FS_Subset, FS_CardinalityType
  <2>. QED
    BY <2>1, <2>2
<1>2. K \in SUBSET S /\ \A t \in K : rank(t) < cap /\ rank(t) \in Nat
  BY <1>1
<1>3. IsFiniteSet(K)
  BY <1>1, <1>2, FS_Subset
<1>4. \A t, u \in S : r[t] \in Nat /\ r[u] \in Nat
  OBVIOUS
<1>5. ASSUME NEW t \in S, NEW u \in S, r[t] < r[u] PROVE rank(t) < rank(u)
  <2>1. Before(t) \cup {t} \in SUBSET Before(u) /\ t \notin Before(t)
    BY <1>4, <1>5
  <2>2. Cardinality(Before(t) \cup {t}) = rank(t) + 1
    BY <1>1, <2>1, FS_AddElement
  <2>3. Cardinality(Before(t) \cup {t}) <= rank(u)
    BY <1>1, <2>1, FS_Subset
  <2>4. rank(t) \in Nat /\ rank(u) \in Nat
    BY <1>1
  <2>. HIDE DEF rank
  <2>. QED
    BY <2>2, <2>3, <2>4
<1>6. CASE K = {}
  <2>1. Cardinality(K) = 0
    BY <1>6, FS_EmptySet
  <2>. QED
    BY <2>1
<1>7. CASE K # {}
  <2>. DEFINE D == {cap - rank(t) : t \in K}
  <2>1. D \in SUBSET Nat /\ D # {}
    <3>. HIDE DEF K, rank
    <3>. QED
      BY <1>2, <1>7
  <2>2. PICK n \in D : \A d \in D : n <= d
    <3>. HIDE DEF D
    <3>. QED
      BY <2>1, LeastNumber
  <2>3. PICK m \in K : n = cap - rank(m)
    OBVIOUS
  <2>4. ASSUME NEW t \in K PROVE rank(t) <= rank(m)
    <3>1. cap - rank(t) \in D
      OBVIOUS
    <3>2. cap - rank(m) <= cap - rank(t)
      BY <2>2, <2>3, <3>1
    <3>3. rank(t) \in Nat /\ rank(m) \in Nat
      BY <1>2
    <3>. HIDE DEF rank, K, D
    <3>. QED
      BY <3>2, <3>3
  <2>5. K \ {m} \in SUBSET Before(m)
    <3>1. ASSUME NEW t \in K, t # m PROVE r[t] < r[m]
      <4>1. t \in S /\ m \in S /\ r[t] \in Nat /\ r[m] \in Nat /\ r[t] # r[m]
        BY <1>2, <1>4, <3>1
      <4>2. rank(t) <= rank(m) /\ rank(t) \in Nat /\ rank(m) \in Nat
        BY <1>2, <2>4
      <4>3. ~(r[m] < r[t])
        <5>1. r[m] < r[t] => rank(m) < rank(t)
          <6>. HIDE DEF rank
          <6>. QED
            BY <4>1, <1>5
        <5>. HIDE DEF rank
        <5>. QED
          BY <4>2, <5>1
      <4>. QED
        BY <4>1, <4>3
    <3>. QED
      BY <1>2, <3>1
  <2>6. Cardinality(K \ {m}) = Cardinality(K) - 1
    <3>. HIDE DEF K
    <3>. QED
      BY <1>3, FS_RemoveElement
  <2>7. Cardinality(K \ {m}) <= rank(m)
    BY <1>1, <1>2, <2>5, FS_Subset
  <2>8. rank(m) < cap /\ rank(m) \in Nat /\ Cardinality(K) \in Nat
    BY <1>2, <1>3, FS_CardinalityType
  <2>. HIDE DEF K, rank
  <2>9. Cardinality(K) <= cap
    BY <2>6, <2>7, <2>8
  <2>. QED
    BY <2>9 DEF K, rank
<1>. QED
  BY <1>6, <1>7

\* An ordering of a set lists all of it.
LEMMA OrderingCovers ==
    ASSUME NEW S \in SUBSET Thread, NEW r \in [Thread -> Nat],
           NEW vs \in [1..Cardinality(S) -> S],
           \A a, b \in 1..Cardinality(S) : a < b => r[vs[a]] > r[vs[b]]
    PROVE  \A t \in S : \E i \in 1..Cardinality(S) : vs[i] = t
<1>. DEFINE n == Cardinality(S)
<1>1. IsFiniteSet(S) /\ n \in Nat
  BY FS_Subset, FS_CardinalityType, ConstantsAssumption
<1>2. IsFiniteSet(1..n) /\ Cardinality(1..n) = n
  BY <1>1, FS_Interval
<1>. HIDE DEF n
<1>3. \A a, b \in 1..n : vs[a] = vs[b] => a = b
  <2>. SUFFICES ASSUME NEW a \in 1..n, NEW b \in 1..n, vs[a] = vs[b] PROVE a = b
    OBVIOUS
  <2>1. ~(a < b) /\ ~(b < a)
    <3>1. vs[a] \in S /\ r[vs[a]] \in Nat
      BY DEF n
    <3>2. /\ a < b => r[vs[a]] > r[vs[b]]
          /\ b < a => r[vs[b]] > r[vs[a]]
      BY DEF n
    <3>. QED
      BY <3>1, <3>2
  <2>. QED
    BY <1>1, <2>1
<1>4. vs \in [1..n -> S]
  BY DEF n
<1>5. vs \in Injection(1..n, S)
  BY <1>3, <1>4, Fun_IsInj
<1>6. vs \in Surjection(1..n, S)
  BY <1>1, <1>2, <1>5, FS_Injection DEF n
<1>7. \A t \in S : \E i \in 1..n : vs[i] = t
  BY <1>6 DEF Surjection
<1>. QED
  BY <1>7 DEF n

\* A task that joins a queue takes nobody's hibernation away.
LEMMA EnqueuedQueued ==
    ASSUME NEW q \in [Thread -> Seq(Task)], NEW t \in Thread,
           NEW op \in {"start", "hibernate", "destroy", "purge"},
           NEW h \in Harness, NEW by \in Job \cup {NoJob, Shutdown}
    PROVE  /\ Queued(q) \subseteq Queued(Enqueued(q, t, op, h, by))
           /\ op = "hibernate" => t \in Queued(Enqueued(q, t, op, h, by))
<1>. DEFINE task == [op |-> op, harness |-> h, by |-> by]
            q2 == Enqueued(q, t, op, h, by)
<1>1. task \in Task /\ task.op = op
  BY DEF Task
<1>2. \A u \in Thread : q2[u] = IF u = t THEN Append(q[u], task) ELSE q[u]
  BY DEF Enqueued
<1>. HIDE DEF task, q2
<1>3. ASSUME NEW s \in Seq(Task)
      PROVE  /\ \A i \in 1..Len(s) : i \in 1..Len(Append(s, task)) /\ Append(s, task)[i] = s[i]
             /\ Len(s) + 1 \in 1..Len(Append(s, task))
             /\ Append(s, task)[Len(s) + 1] = task
  BY <1>1, <1>3
<1>4. ASSUME NEW u \in Queued(q) PROVE u \in Queued(q2)
  BY <1>2, <1>3, <1>4 DEF Queued
<1>5. ASSUME op = "hibernate" PROVE t \in Queued(q2)
  <2>1. /\ Len(q[t]) + 1 \in 1..Len(q2[t])
        /\ q2[t][Len(q[t]) + 1].op = "hibernate"
    BY <1>1, <1>2, <1>3, <1>5
  <2>. QED
    BY <2>1 DEF Queued
<1>. QED
  BY <1>4, <1>5 DEF q2

\* The head's release takes at most its own thread's hibernation away.
LEMMA ReleasedQueued ==
    ASSUME NEW q \in [Thread -> Seq(Task)], NEW t \in Thread, q[t] # <<>>
    PROVE  \A u \in Queued(q) :
             \/ u \in Queued([q EXCEPT ![t] = Tail(@)])
             \/ u = t /\ Head(q[t]).op = "hibernate"
<1>. DEFINE q2 == [q EXCEPT ![t] = Tail(@)]
<1>. SUFFICES ASSUME NEW u \in Queued(q)
              PROVE  u \in Queued(q2) \/ (u = t /\ Head(q[t]).op = "hibernate")
  OBVIOUS
<1>1. PICK i \in 1..Len(q[u]) : q[u][i].op = "hibernate"
  BY DEF Queued
<1>2. u \in Thread /\ q[u] \in Seq(Task) /\ q[t] \in Seq(Task)
  BY DEF Queued
<1>3. CASE u # t
  <2>1. q2[u] = q[u]
    BY <1>2, <1>3
  <2>. QED
    BY <1>1, <1>2, <2>1 DEF Queued
<1>4. CASE u = t /\ i = 1
  BY <1>1, <1>2, <1>4
<1>5. CASE u = t /\ i # 1
  <2>1. q2[u] = Tail(q[u])
    BY <1>2, <1>5
  <2>2. i - 1 \in 1..Len(Tail(q[u])) /\ Tail(q[u])[i - 1] = q[u][i]
    BY <1>1, <1>2, <1>5
  <2>. HIDE DEF q2
  <2>. QED
    BY <1>1, <1>2, <2>1, <2>2 DEF Queued
<1>. QED
  BY <1>3, <1>4, <1>5

\* A reconciliation leaves each harness it has still to look at within the cap, but for
\* what it puts to sleep, or comes by later.
LEMMA ReconcileCovers ==
    ASSUME TypeOK, TypeOK', IdleDistinct',
           NEW j \in Job, NEW goesOn \in BOOLEAN, NEW void \in BOOLEAN, NEW cap \in Caps,
           NEW from \in Nat, NEW queue \in [Thread -> Seq(Task)],
           ReconcileFrom(j, goesOn, void, cap, from, queue), cap <= maxActive',
           NEW k \in DOMAIN HarnessOrder, from <= k
    PROVE  ComesBy(k)' \/ Cardinality(Staying(k)') <= maxActive'
<1>1. PICK c \in {cap}, f \in {from} :
        \/ /\ HarnessesOver(c, f)' = {}
           /\ locks' = queue
        \/ \E n \in HarnessesOver(c, f)' :
             /\ \A i \in HarnessesOver(c, f)' : n <= i
             /\ \E vs \in OldestFirst(Excess(HarnessOrder[n], c))' :
                  /\ job' = [job EXCEPT ![j] =
                               [kind |-> "reconcile", void |-> void, cap |-> c,
                                next |-> n + 1, victims |-> Tail(vs), except |-> {},
                                waiting |-> TRUE]]
                  /\ locks' = Enqueued(queue, vs[1], "hibernate", DefaultHarness, j)
  BY DEF ReconcileFrom
<1>2. /\ cap \in Nat /\ maxActive' \in Nat /\ k \in Nat /\ k <= Len(HarnessOrder)
      /\ Len(HarnessOrder) \in Nat
  BY ConstantsAssumption DEF TypeOK
<1>3. k \in f..Len(HarnessOrder)
  BY <1>2
<1>4. ASSUME NEW n \in DOMAIN HarnessOrder
      PROVE  LET S == Active(HarnessOrder[n])' IN
             /\ S \in SUBSET Thread
             /\ IsFiniteSet(S)
             /\ Cardinality(S \ Excess(HarnessOrder[n], c)') <= cap
  <2>. DEFINE S == Active(HarnessOrder[n])'
  <2>1. S \in SUBSET Thread /\ S \subseteq sessions'
    BY DEF Active, Running, TypeOK
  <2>2. IsFiniteSet(S)
    BY <2>1, FS_Subset, ConstantsAssumption
  <2>3. idle' \in [Thread -> Nat]
    BY DEF TypeOK
  <2>4. \A t, u \in S : idle'[t] = idle'[u] => t = u
    BY <2>1 DEF IdleDistinct
  <2>5. S \ Excess(HarnessOrder[n], c)' =
          {t \in S : ~(Cardinality({u \in S : idle'[u] < idle'[t]}) >= cap)}
    BY DEF Excess
  <2>. HIDE DEF S
  <2>6. Cardinality({t \in S : ~(Cardinality({u \in S : idle'[u] < idle'[t]}) >= cap)}) <= cap
    BY <1>2, <2>1, <2>3, <2>4, MostRecentFew
  <2>. QED
    BY <2>1, <2>2, <2>5, <2>6 DEF S
<1>5. ASSUME Excess(HarnessOrder[k], c)' \subseteq (Queued(locks) \cup Listed(job))'
      PROVE  Cardinality(Staying(k)') <= maxActive'
  <2>. DEFINE A == Active(HarnessOrder[k])'
              X == Excess(HarnessOrder[k], c)'
  <2>1. IsFiniteSet(A) /\ Cardinality(A \ X) <= cap
    BY <1>4
  <2>2. Staying(k)' \in SUBSET (A \ X)
    BY <1>5 DEF Staying
  <2>. HIDE DEF A, X
  <2>3. IsFiniteSet(A \ X)
    BY <2>1, FS_Difference
  <2>4. /\ Cardinality(Staying(k)') <= Cardinality(A \ X)
        /\ Cardinality(A \ X) \in Nat
        /\ Cardinality(Staying(k)') \in Nat
    <3>. DEFINE T == Staying(k)'
    <3>1. T \in SUBSET (A \ X)
      BY <2>2
    <3>. HIDE DEF T
    <3>2. IsFiniteSet(T) /\ Cardinality(T) <= Cardinality(A \ X)
      BY <2>3, <3>1, FS_Subset
    <3>. QED
      BY <2>3, <3>2, FS_CardinalityType DEF T
  <2>. QED
    BY <1>2, <2>1, <2>4
<1>6. CASE Excess(HarnessOrder[k], c)' = {}
  BY <1>5, <1>6
<1>7. ASSUME NEW n \in HarnessesOver(c, f)', \A i \in HarnessesOver(c, f)' : n <= i,
             NEW vs \in OldestFirst(Excess(HarnessOrder[n], c))',
             job' = [job EXCEPT ![j] =
                       [kind |-> "reconcile", void |-> void, cap |-> c,
                        next |-> n + 1, victims |-> Tail(vs), except |-> {},
                        waiting |-> TRUE]],
             locks' = Enqueued(queue, vs[1], "hibernate", DefaultHarness, j),
             Excess(HarnessOrder[k], c)' # {}
      PROVE  ComesBy(k)' \/ Cardinality(Staying(k)') <= maxActive'
  <2>1. n <= k /\ n \in Nat
    <3>1. k \in HarnessesOver(c, f)' /\ n \in f..Len(HarnessOrder)
      BY <1>3, <1>7 DEF HarnessesOver
    <3>2. n <= k
      BY <1>7, <3>1
    <3>. QED
      BY <1>2, <3>1, <3>2
  <2>2. /\ job'[j].kind = "reconcile" /\ job'[j].cap = c /\ job'[j].next = n + 1
        /\ job'[j].victims = Tail(vs)
    BY <1>7 DEF TypeOK
  <2>3. CASE n < k
    <3>1. job'[j].cap <= maxActive' /\ job'[j].next <= k
      BY <1>2, <2>1, <2>2, <2>3
    <3>. QED
      BY <2>2, <3>1 DEF ComesBy
  <2>4. CASE n = k
    <3>. DEFINE S == Excess(HarnessOrder[k], c)'
    <3>1. S \in SUBSET Thread /\ S # {}
      BY <1>7, <2>4 DEF Excess, Active, Running, TypeOK
    <3>2. /\ vs \in [1..Cardinality(S) -> S]
          /\ \A a, b \in 1..Cardinality(S) : a < b => idle'[vs[a]] > idle'[vs[b]]
      BY <1>7, <2>4 DEF OldestFirst
    <3>3. idle' \in [Thread -> Nat]
      BY DEF TypeOK
    <3>. HIDE DEF S
    <3>4. \A t \in S : \E i \in 1..Cardinality(S) : vs[i] = t
      BY <3>1, <3>2, <3>3, OrderingCovers
    <3>5. vs \in Seq(Thread) /\ vs # <<>> /\ vs[1] \in Thread
      BY <3>1, <3>2, OrderingType
    <3>6. Cardinality(S) \in Nat /\ Len(vs) = Cardinality(S)
      <4>1. IsFiniteSet(S)
        BY <3>1, FS_Subset, ConstantsAssumption
      <4>2. Cardinality(S) \in Nat
        BY <4>1, FS_CardinalityType
      <4>. QED
        BY <3>2, <4>2
    <3>7. \A i \in 2..Len(vs) : i - 1 \in 1..Len(Tail(vs)) /\ Tail(vs)[i - 1] = vs[i]
      BY <3>5
    <3>8. vs[1] \in Queued(locks')
      <4>1. PICK v \in Thread : v = vs[1]
        BY <3>5
      <4>2. v \in Queued(Enqueued(queue, v, "hibernate", DefaultHarness, j))
        BY DefaultHarnessType, EnqueuedQueued
      <4>. QED
        BY <1>7, <4>1, <4>2
    <3>9. \A t \in S : t \in Queued(locks') \/ t \in Listed(job')
      <4>. SUFFICES ASSUME NEW t \in S PROVE t \in Queued(locks') \/ t \in Listed(job')
        OBVIOUS
      <4>1. PICK i \in 1..Len(vs) : vs[i] = t
        BY <3>4, <3>6
      <4>2. CASE i = 1
        BY <3>8, <4>1, <4>2
      <4>3. CASE i # 1
        <5>1. i \in 2..Len(vs)
          BY <3>6, <4>3
        <5>2. i - 1 \in 1..Len(job'[j].victims) /\ job'[j].victims[i - 1] = t
          BY <2>2, <3>7, <4>1, <5>1
        <5>3. t \in Thread
          BY <3>1
        <5>. QED
          BY <2>2, <5>2, <5>3 DEF Listed
      <4>. QED
        BY <4>2, <4>3
    <3>10. S \subseteq Queued(locks') \cup Listed(job')
      BY <3>9
    <3>. QED
      BY <1>5, <3>10 DEF S
  <2>. QED
    BY <1>2, <2>1, <2>3, <2>4
<1>8. HarnessesOver(c, f)' = {} => Excess(HarnessOrder[k], c)' = {}
  BY <1>3 DEF HarnessesOver
<1>. QED
  BY <1>1, <1>6, <1>7, <1>8

\* What only shrinks a harness, or puts sessions to sleep, and ends no reconciliation.
LEMMA CapFrame ==
    ASSUME TypeOK, TypeOK', CapFollows, server' = "up" => server = "up",
           maxActive' = maxActive,
           \A h \in Harness : Active(h)' \subseteq Active(h),
           \A h \in Harness : \A t \in Active(h)' :
             t \in Queued(locks) \cup Listed(job) => t \in Queued(locks') \cup Listed(job'),
           \A j \in Job : job[j].kind = "reconcile" =>
             /\ job'[j].kind = "reconcile"
             /\ job'[j].cap = job[j].cap /\ job'[j].next = job[j].next
    PROVE  CapFollows'
<1>. SUFFICES ASSUME server' = "up", NEW k \in DOMAIN HarnessOrder
              PROVE  ComesBy(k)' \/ Cardinality(Staying(k)') <= maxActive'
  BY DEF CapFollows
<1>1. ComesBy(k) \/ Cardinality(Staying(k)) <= maxActive
  BY DEF CapFollows
<1>2. CASE ComesBy(k)
  BY <1>2 DEF ComesBy
<1>3. CASE Cardinality(Staying(k)) <= maxActive
  <2>1. HarnessOrder[k] \in Harness
    BY DEF Harness
  <2>2. Staying(k)' \in SUBSET Staying(k)
    BY <2>1 DEF Staying
  <2>3. IsFiniteSet(Staying(k))
    <3>1. Staying(k) \in SUBSET Thread
      BY DEF Staying, Active, Running, TypeOK
    <3>. QED
      BY <3>1, FS_Subset, ConstantsAssumption
  <2>4. /\ Cardinality(Staying(k)') <= Cardinality(Staying(k))
        /\ Cardinality(Staying(k)) \in Nat /\ Cardinality(Staying(k)') \in Nat
    <3>. DEFINE S == Staying(k)
                T == Staying(k)'
    <3>1. IsFiniteSet(S) /\ T \in SUBSET S
      BY <2>2, <2>3
    <3>. HIDE DEF S, T
    <3>2. IsFiniteSet(T) /\ Cardinality(T) <= Cardinality(S)
      BY <3>1, FS_Subset
    <3>3. Cardinality(S) \in Nat /\ Cardinality(T) \in Nat
      BY <3>1, <3>2, FS_CardinalityType
    <3>. QED
      BY <3>2, <3>3 DEF S, T
  <2>5. maxActive \in Nat
    BY ConstantsAssumption DEF TypeOK
  <2>. QED
    BY <1>3, <2>4, <2>5
<1>. QED
  BY <1>1, <1>2, <1>3

\* Moving up, or down, what is on one side of a number keeps numbers apart.
LEMMA ShiftDistinct ==
    ASSUME NEW a \in Nat, NEW b \in Nat, NEW n \in Nat, a # n, b # n
    PROVE  /\ (IF a < n THEN a + 1 ELSE a) = (IF b < n THEN b + 1 ELSE b) => a = b
           /\ (IF a > n THEN a - 1 ELSE a) = (IF b > n THEN b - 1 ELSE b) => a = b
OBVIOUS

\* A session that is used becomes the least idle, and the order of the others stays.
LEMMA TouchedDistinct ==
    ASSUME TypeOK, IdleDistinct, NEW t \in Thread, idle' = Touched(t),
           sessions' = sessions \cup {t}
    PROVE  IdleDistinct'
<1>1. sessions \in SUBSET Thread /\ idle \in [Thread -> Nat]
  BY DEF TypeOK
<1>2. \A u \in Thread :
        idle'[u] = IF u = t THEN 0
                   ELSE IF u \in sessions /\ (t \notin sessions \/ idle[u] < idle[t])
                        THEN idle[u] + 1 ELSE idle[u]
  BY DEF Touched
<1>3. ASSUME NEW u \in sessions, u # t PROVE idle'[u] > 0
  <2>1. idle[u] \in Nat /\ idle[t] \in Nat /\ u \in Thread
    BY <1>1
  <2>2. t \in sessions => idle[u] # idle[t]
    BY <1>3 DEF IdleDistinct
  <2>. QED
    BY <1>2, <1>3, <2>1, <2>2
<1>4. ASSUME NEW u \in sessions, NEW v \in sessions, u # t, v # t, idle'[u] = idle'[v]
      PROVE  u = v
  <2>1. /\ idle[u] \in Nat /\ idle[v] \in Nat /\ idle[t] \in Nat
        /\ u \in Thread /\ v \in Thread
    BY <1>1
  <2>2. t \in sessions => idle[u] # idle[t] /\ idle[v] # idle[t]
    BY <1>4 DEF IdleDistinct
  <2>3. /\ idle'[u] = IF t \notin sessions \/ idle[u] < idle[t] THEN idle[u] + 1 ELSE idle[u]
        /\ idle'[v] = IF t \notin sessions \/ idle[v] < idle[t] THEN idle[v] + 1 ELSE idle[v]
    BY <1>2, <1>4, <2>1
  <2>4. CASE t \in sessions
    <3>1. idle[u] = idle[v]
      BY <1>4, <2>1, <2>2, <2>3, <2>4, ShiftDistinct
    <3>. QED
      BY <3>1 DEF IdleDistinct
  <2>5. CASE t \notin sessions
    <3>1. idle[u] + 1 = idle[v] + 1
      BY <1>4, <2>3, <2>5
    <3>2. idle[u] = idle[v]
      BY <2>1, <3>1
    <3>. QED
      BY <3>2 DEF IdleDistinct
  <2>. QED
    BY <2>4, <2>5
<1>5. idle'[t] = 0
  BY <1>2
<1>6. ASSUME NEW u \in sessions', NEW v \in sessions', idle'[u] = idle'[v] PROVE u = v
  <2>1. CASE u = t /\ v # t
    <3>1. v \in sessions /\ idle'[v] > 0 /\ idle'[v] = 0
      BY <1>3, <1>5, <1>6, <2>1
    <3>2. idle'[v] \in Nat
      BY <1>1, <1>2, <3>1
    <3>. QED
      BY <3>1, <3>2
  <2>2. CASE u # t /\ v = t
    <3>1. u \in sessions /\ idle'[u] > 0 /\ idle'[u] = 0
      BY <1>3, <1>5, <1>6, <2>2
    <3>2. idle'[u] \in Nat
      BY <1>1, <1>2, <3>1
    <3>. QED
      BY <3>1, <3>2
  <2>3. CASE u # t /\ v # t
    BY <1>4, <1>6, <2>3
  <2>. QED
    BY <2>1, <2>2, <2>3
<1>. QED
  BY <1>6 DEF IdleDistinct

\* The order of the sessions stays when one is forgotten.
LEMMA ForgottenDistinct ==
    ASSUME TypeOK, IdleDistinct, NEW t \in sessions, DropEntry(t)
    PROVE  IdleDistinct'
<1>1. sessions \in SUBSET Thread /\ idle \in [Thread -> Nat] /\ t \in Thread
  BY DEF TypeOK
<1>2. /\ sessions' = sessions \ {t}
      /\ \A u \in Thread :
           idle'[u] = IF u = t THEN 0
                      ELSE IF u \in sessions /\ idle[u] > idle[t] THEN idle[u] - 1 ELSE idle[u]
  BY DEF DropEntry, Forgotten
<1>3. ASSUME NEW u \in sessions', NEW v \in sessions', idle'[u] = idle'[v] PROVE u = v
  <2>1. /\ idle[u] \in Nat /\ idle[v] \in Nat /\ idle[t] \in Nat
        /\ u \in Thread /\ v \in Thread /\ u \in sessions /\ v \in sessions /\ u # t /\ v # t
    BY <1>1, <1>2
  <2>2. idle[u] # idle[t] /\ idle[v] # idle[t]
    BY <2>1 DEF IdleDistinct
  <2>3. /\ idle'[u] = IF idle[u] > idle[t] THEN idle[u] - 1 ELSE idle[u]
        /\ idle'[v] = IF idle[v] > idle[t] THEN idle[v] - 1 ELSE idle[v]
    BY <1>2, <2>1
  <2>4. idle[u] = idle[v]
    BY <1>3, <2>1, <2>2, <2>3, ShiftDistinct
  <2>. QED
    BY <2>1, <2>4 DEF IdleDistinct
<1>. QED
  BY <1>3 DEF IdleDistinct

\* No step makes two sessions equally idle.
LEMMA NextDistinct ==
    ASSUME LInv, IdleDistinct, [Next]_vars
    PROVE  IdleDistinct'
<1>. USE DEF LInv, IInv
<1>1. UNCHANGED <<sessions, idle>> => IdleDistinct'
  BY DEF IdleDistinct
<1>2. ASSUME NEW t \in Thread, Interact(t) PROVE IdleDistinct'
  <2>1. t \in sessions /\ idle' = Touched(t) /\ sessions' = sessions
    BY <1>2 DEF Interact, Running
  <2>2. sessions' = sessions \cup {t}
    BY <2>1
  <2>. QED
    BY <2>1, <2>2, TouchedDistinct
<1>3. ASSUME NEW t \in Thread, BeginStart(t) PROVE IdleDistinct'
  BY <1>3, TouchedDistinct DEF BeginStart
<1>4. ASSUME NEW t \in Thread, Destroy(t) \/ PurgeOne(t) PROVE IdleDistinct'
  BY <1>1, <1>4, ForgottenDistinct DEF Destroy, PurgeOne, StillInactive, entryVars
<1>5. ASSUME Dispose PROVE IdleDistinct'
  BY <1>5 DEF Dispose, IdleDistinct
<1>6. ASSUME NEW t \in Thread,
             \/ \E p \in Proc, j \in Job : FinishStart(t, p, j)
             \/ FailStart(t) \/ Hibernate(t) \/ HibernateMissing(t)
      PROVE  UNCHANGED <<sessions, idle>>
  BY <1>6 DEF FinishStart, FailStart, Hibernate, HibernateMissing, entryVars
<1>7. ASSUME Client PROVE UNCHANGED <<sessions, idle>> \/ \E t \in Thread : Interact(t)
  BY <1>7 DEF Client, Request, SetMaxActiveSessions, PurgeInactive, HibernateAll, entryVars
<1>8. ASSUME \/ \E j \in Job : ResumeJob(j)
             \/ \E p \in Proc : ChildEnds(p) \/ OnExit(p) \/ KillTimer(p)
             \/ HibernateAllTimeout
             \/ UNCHANGED vars
      PROVE  UNCHANGED <<sessions, idle>>
  BY <1>8 DEF ResumeJob, ChildEnds, OnExit, KillTimer, HibernateAllTimeout, vars, entryVars
<1>9. CASE \E t \in Thread : LockStep(t)
  BY <1>1, <1>3, <1>4, <1>6, <1>9 DEF LockStep
<1>. QED
  BY <1>1, <1>2, <1>5, <1>7, <1>8, <1>9 DEF Next

\* Entries that keep their state are as active as before.
LEMMA ActiveSame ==
    ASSUME UNCHANGED <<sessions, status, process, harness>>
    PROVE  \A h \in Harness : Active(h)' = Active(h)
BY DEF Active, Running

\* A loop that enters or goes on with other work takes nobody's hibernation away.
LEMMA AwaitLoopCap ==
    ASSUME TypeOK, NEW j \in Job, job[j].kind # "reconcile", NEW kind \in {"bulk", "purge"},
           NEW vs \in Seq(Thread), NEW except, NEW op \in {"hibernate", "purge"},
           AwaitLoop(j, kind, vs, except, op)
    PROVE  /\ Queued(locks) \subseteq Queued(locks')
           /\ \A i \in Job : job[i].kind = "reconcile" => job'[i] = job[i]
<1>1. locks \in [Thread -> Seq(Task)] /\ job \in [Job -> JobState]
  BY DEF TypeOK
<1>2. CASE vs = <<>>
  BY <1>1, <1>2 DEF AwaitLoop
<1>3. CASE vs # <<>>
  <2>1. PICK v \in Thread : v = vs[1]
    BY <1>3
  <2>2. locks' = Enqueued(locks, v, op, DefaultHarness, j)
    BY <1>3, <2>1 DEF AwaitLoop
  <2>3. Queued(locks) \subseteq Queued(Enqueued(locks, v, op, DefaultHarness, j))
    BY <1>1, DefaultHarnessType, EnqueuedQueued
  <2>. QED
    BY <1>1, <2>2, <2>3 DEF AwaitLoop
<1>. QED
  BY <1>2, <1>3

\* A client's operation, one that lowers the cap included.
LEMMA ClientCap ==
    ASSUME CInv, TypeOK', IdleDistinct', Client
    PROVE  CapFollows'
<1>. USE DEF CInv, LInv, IInv
<1>1. locks \in [Thread -> Seq(Task)] /\ job \in [Job -> JobState]
  BY DEF TypeOK
<1>2. ASSUME NEW t \in Thread, NEW h \in Harness,
             NEW op \in {"start", "hibernate", "destroy"}, Request(t, op, h)
      PROVE  CapFollows'
  <2>1. Queued(locks) \subseteq Queued(Enqueued(locks, t, op, h, NoJob))
    BY <1>1, EnqueuedQueued
  <2>2. /\ locks' = Enqueued(locks, t, op, h, NoJob)
        /\ UNCHANGED <<sessions, status, process, harness, job, maxActive, server>>
    BY <1>2 DEF Request, entryVars
  <2>3. Queued(locks) \subseteq Queued(locks') /\ Listed(job') = Listed(job)
    BY <2>1, <2>2
  <2>. QED
    BY <2>2, <2>3, ActiveSame, CapFrame
<1>3. ASSUME NEW t \in Thread, Interact(t) PROVE CapFollows'
  <2>1. UNCHANGED <<sessions, status, process, harness, job, locks, maxActive, server>>
    BY <1>3 DEF Interact
  <2>. QED
    BY <2>1, ActiveSame, CapFrame
<1>4. ASSUME NEW j \in Job, NEW n \in Caps, SetMaxActiveSessions(n, j)
      PROVE  CapFollows'
  <2>1. ReconcileFrom(j, FALSE, FALSE, n, 1, locks) /\ maxActive' = n
    BY <1>4 DEF SetMaxActiveSessions
  <2>2. n <= maxActive'
    BY <2>1, ConstantsAssumption
  <2>3. ASSUME NEW k \in DOMAIN HarnessOrder
        PROVE  ComesBy(k)' \/ Cardinality(Staying(k)') <= maxActive'
    <3>1. 1 <= k
      BY ConstantsAssumption
    <3>. QED
      BY <1>1, <2>1, <2>2, <3>1, ReconcileCovers
  <2>. QED
    BY <2>3 DEF CapFollows
<1>5. ASSUME NEW j \in Job, NEW ex \in SUBSET Thread, NEW hib \in BOOLEAN,
             PurgeInactive(ex, hib, j)
      PROVE  CapFollows'
  <2>1. PICK vs \in IF hib THEN OldestFirst(Running \ ex) ELSE {<<>>} :
          AwaitLoop(j, "bulk", vs, ex, "hibernate")
    BY <1>5 DEF PurgeInactive
  <2>2. vs \in Seq(Thread)
    <3>1. CASE hib
      BY <3>1, OrderingType DEF OldestFirst, Running, TypeOK
    <3>2. CASE ~hib
      BY <3>2
    <3>. QED
      BY <3>1, <3>2
  <2>3. job[j].kind # "reconcile"
    BY <1>5 DEF PurgeInactive, FreeJob
  <2>4. /\ Queued(locks) \subseteq Queued(locks')
        /\ \A i \in Job : job[i].kind = "reconcile" => job'[i] = job[i]
    BY <2>1, <2>2, <2>3, AwaitLoopCap
  <2>5. Listed(job) \subseteq Listed(job')
    BY <2>4 DEF Listed
  <2>6. UNCHANGED <<sessions, status, process, harness, maxActive, server>>
    BY <1>5 DEF PurgeInactive, entryVars
  <2>. QED
    BY <2>4, <2>5, <2>6, ActiveSame, CapFrame
<1>6. ASSUME HibernateAll PROVE CapFollows'
  BY <1>6 DEF HibernateAll, CapFollows
<1>. QED
  BY <1>2, <1>3, <1>4, <1>5, <1>6, DefaultHarnessType DEF Client

\* A loop's task that is done ends no reconciliation, unless its victim was deleted.
LEMMA SettledCap ==
    ASSUME TypeOK, NEW t \in Thread, NEW by, NEW done \in BOOLEAN,
           done \/ by \notin Job \/ job[by].kind # "reconcile"
    PROVE  \A j \in Job : job[j].kind = "reconcile" =>
             /\ Settled(by, t, done)[j].kind = "reconcile"
             /\ Settled(by, t, done)[j].cap = job[j].cap
             /\ Settled(by, t, done)[j].next = job[j].next
             /\ Settled(by, t, done)[j].victims = job[j].victims
<1>. SUFFICES ASSUME NEW j \in Job, job[j].kind = "reconcile"
              PROVE  /\ Settled(by, t, done)[j].kind = "reconcile"
                     /\ Settled(by, t, done)[j].cap = job[j].cap
                     /\ Settled(by, t, done)[j].next = job[j].next
                     /\ Settled(by, t, done)[j].victims = job[j].victims
  OBVIOUS
<1>1. job[j] \in JobState
  BY DEF TypeOK
<1>2. CASE j # by
  BY <1>2 DEF Settled
<1>3. CASE j = by
  <2>1. Settled(by, t, done)[j] =
          [job[j] EXCEPT !.waiting = FALSE,
                         !.except = IF job[j].kind = "bulk" /\ done THEN @ \cup {t} ELSE @]
    BY <1>3 DEF Settled
  <2>. QED
    BY <1>1, <2>1 DEF JobState
<1>. QED
  BY <1>2, <1>3

\* Every step under a lock: only a start adds to a harness, and it reconciles.
LEMMA LockStepCap ==
    ASSUME CInv, TypeOK', IdleDistinct', NEW t \in Thread, LockStep(t), ~CutShort
    PROVE  CapFollows'
<1>. USE DEF CInv, LInv, IInv
<1>1. locks \in [Thread -> Seq(Task)] /\ job \in [Job -> JobState] /\ sessions \in SUBSET Thread
  BY DEF TypeOK
<1>2. ASSUME locks[t] # <<>>, locks' = Released(t)
      PROVE  \A u \in Queued(locks) :
               u \in Queued(locks') \/ (u = t /\ Head(locks[t]).op = "hibernate")
  BY <1>1, <1>2, ReleasedQueued DEF Released
<1>3. ASSUME BeginStart(t) PROVE CapFollows'
  <2>1. \A h \in Harness : Active(h)' \subseteq Active(h)
    BY <1>3 DEF BeginStart, WithoutProcess, Active, Running, TypeOK
  <2>2. UNCHANGED <<locks, job, maxActive, server>>
    BY <1>3 DEF BeginStart
  <2>. QED
    BY <2>1, <2>2, CapFrame
<1>4. ASSUME NEW p \in Proc, NEW j \in Job, FinishStart(t, p, j) PROVE CapFollows'
  <2>1. Released(t) \in [Thread -> Seq(Task)]
    BY <1>4, HelperTypes DEF FinishStart, Safety, StartIsExclusive, Holds
  <2>2. ReconcileFrom(j, FALSE, TRUE, maxActive, 1, Released(t)) /\ maxActive' = maxActive
    BY <1>4 DEF FinishStart
  <2>3. maxActive \in Caps /\ maxActive <= maxActive'
    BY <2>2, ConstantsAssumption DEF TypeOK
  <2>4. ASSUME NEW k \in DOMAIN HarnessOrder
        PROVE  ComesBy(k)' \/ Cardinality(Staying(k)') <= maxActive'
    <3>1. 1 <= k
      BY ConstantsAssumption
    <3>. QED
      BY <2>1, <2>2, <2>3, <3>1, ReconcileCovers
  <2>. QED
    BY <2>4 DEF CapFollows
<1>5. ASSUME FailStart(t) PROVE CapFollows'
  <2>1. locks[t] # <<>> /\ Head(locks[t]).op = "start"
    BY <1>5 DEF FailStart, Safety, StartIsExclusive, Holds
  <2>2. /\ UNCHANGED <<sessions, status, process, harness, job, maxActive, server>>
        /\ locks' = Released(t)
    BY <1>5 DEF FailStart, entryVars
  <2>3. Queued(locks) \subseteq Queued(locks')
    BY <1>2, <2>1, <2>2
  <2>. QED
    BY <2>2, <2>3, ActiveSame, CapFrame
<1>6. ASSUME Hibernate(t) PROVE CapFollows'
  <2>1. /\ locks[t] # <<>> /\ locks' = Released(t) /\ UNCHANGED <<maxActive, server>>
        /\ job' = Settled(Head(locks[t]).by, t, TRUE)
    BY <1>6 DEF Hibernate, Holds
  <2>2. \A h \in Harness : Active(h)' \subseteq Active(h) /\ t \notin Active(h)'
    BY <1>6 DEF Hibernate, WithoutProcess, Active, Running, TypeOK
  <2>3. \A j \in Job : job[j].kind = "reconcile" =>
          /\ job'[j].kind = "reconcile" /\ job'[j].cap = job[j].cap
          /\ job'[j].next = job[j].next /\ job'[j].victims = job[j].victims
    BY <2>1, SettledCap
  <2>4. Listed(job) \subseteq Listed(job')
    BY <2>3 DEF Listed
  <2>5. \A h \in Harness : \A u \in Active(h)' :
          u \in Queued(locks) \cup Listed(job) => u \in Queued(locks') \cup Listed(job')
    BY <1>2, <2>1, <2>2, <2>4
  <2>. QED
    BY <2>1, <2>2, <2>3, <2>5, CapFrame
<1>7. ASSUME HibernateMissing(t) PROVE CapFollows'
  <2>1. /\ locks[t] # <<>> /\ locks' = Released(t) /\ t \notin sessions
        /\ job' = Settled(Head(locks[t]).by, t, FALSE)
        /\ UNCHANGED <<sessions, status, process, harness, maxActive>>
        /\ server' = "up" => server = "up"
    BY <1>7 DEF HibernateMissing, Holds, entryVars
  <2>2. Head(locks[t]).by \notin Job \/ job[Head(locks[t]).by].kind # "reconcile"
    BY <1>7 DEF CutShort
  <2>3. \A j \in Job : job[j].kind = "reconcile" =>
          /\ job'[j].kind = "reconcile" /\ job'[j].cap = job[j].cap
          /\ job'[j].next = job[j].next /\ job'[j].victims = job[j].victims
    <3>. DEFINE by == Head(locks[t]).by
    <3>1. (by \notin Job \/ job[by].kind # "reconcile") /\ job' = Settled(by, t, FALSE)
      BY <2>1, <2>2
    <3>. HIDE DEF by
    <3>2. FALSE \/ by \notin Job \/ job[by].kind # "reconcile"
      BY <3>1
    <3>3. \A j \in Job : job[j].kind = "reconcile" =>
            /\ Settled(by, t, FALSE)[j].kind = "reconcile"
            /\ Settled(by, t, FALSE)[j].cap = job[j].cap
            /\ Settled(by, t, FALSE)[j].next = job[j].next
            /\ Settled(by, t, FALSE)[j].victims = job[j].victims
      BY <3>2, SettledCap
    <3>. QED
      BY <3>1, <3>3
  <2>4. Listed(job) \subseteq Listed(job')
    BY <2>3 DEF Listed
  <2>5. \A h \in Harness : Active(h)' = Active(h) /\ t \notin Active(h)'
    BY <2>1 DEF Active, Running
  <2>6. \A h \in Harness : \A u \in Active(h)' :
          u \in Queued(locks) \cup Listed(job) => u \in Queued(locks') \cup Listed(job')
    BY <1>2, <2>1, <2>4, <2>5
  <2>. QED
    BY <2>1, <2>3, <2>5, <2>6, CapFrame
<1>8. DropEntry(t) \/ UNCHANGED entryVars => \A h \in Harness : Active(h)' \subseteq Active(h)
  BY DEF DropEntry, entryVars, Active, Running, TypeOK
<1>9. ASSUME Destroy(t) PROVE CapFollows'
  <2>1. locks[t] # <<>> /\ Head(locks[t]).op = "destroy" /\ locks' = Released(t)
    BY <1>9 DEF Destroy, Holds
  <2>2. UNCHANGED <<job, maxActive, server>> /\ (DropEntry(t) \/ UNCHANGED entryVars)
    BY <1>9 DEF Destroy
  <2>3. Queued(locks) \subseteq Queued(locks')
    BY <1>2, <2>1
  <2>. QED
    BY <1>8, <2>2, <2>3, CapFrame
<1>10. ASSUME PurgeOne(t) PROVE CapFollows'
  <2>1. /\ locks[t] # <<>> /\ Head(locks[t]).op = "purge" /\ locks' = Released(t)
        /\ job' = Settled(Head(locks[t]).by, t, TRUE)
    BY <1>10 DEF PurgeOne, Holds
  <2>2. UNCHANGED <<maxActive, server>> /\ (DropEntry(t) \/ UNCHANGED entryVars)
    BY <1>10 DEF PurgeOne
  <2>3. \A j \in Job : job[j].kind = "reconcile" =>
          /\ job'[j].kind = "reconcile" /\ job'[j].cap = job[j].cap
          /\ job'[j].next = job[j].next /\ job'[j].victims = job[j].victims
    BY <2>1, SettledCap
  <2>4. Listed(job) \subseteq Listed(job') /\ Queued(locks) \subseteq Queued(locks')
    BY <1>2, <2>1, <2>3 DEF Listed
  <2>. QED
    BY <1>8, <2>2, <2>3, <2>4, CapFrame
<1>. QED
  BY <1>3, <1>4, <1>5, <1>6, <1>7, <1>9, <1>10 DEF LockStep

\* A loop that goes on: what it no longer lists is queued, and what it has passed stays
\* within the cap.
LEMMA ResumeCap ==
    ASSUME CInv, TypeOK', IdleDistinct', NEW j \in Job, ResumeJob(j)
    PROVE  CapFollows'
<1>. USE DEF CInv, LInv, IInv
<1>1. /\ locks \in [Thread -> Seq(Task)] /\ job \in [Job -> JobState] /\ job[j] \in JobState
      /\ maxActive \in Nat
  BY ConstantsAssumption DEF TypeOK
<1>2. UNCHANGED <<sessions, status, process, harness, maxActive, server>>
  BY DEF ResumeJob, entryVars
<1>3. ASSUME /\ Queued(locks) \cup Listed(job) \subseteq Queued(locks') \cup Listed(job')
             /\ \A i \in Job : job[i].kind = "reconcile" =>
                  /\ job'[i].kind = "reconcile"
                  /\ job'[i].cap = job[i].cap /\ job'[i].next = job[i].next
      PROVE  CapFollows'
  <2>1. \A h \in Harness : Active(h)' = Active(h)
    BY <1>2, ActiveSame
  <2>. QED
    BY <1>2, <1>3, <2>1, CapFrame
<1>4. ASSUME NEW op \in {"hibernate", "purge"}, NextVictim(j, op),
             job[j].kind = "reconcile" => op = "hibernate"
      PROVE  CapFollows'
  <2>. DEFINE vs == job[j].victims
              s == [job[j] EXCEPT !.waiting = TRUE, !.victims = Tail(@)]
  <2>1. vs \in Seq(Thread) /\ vs # <<>>
    BY <1>1, <1>4 DEF JobState, NextVictim
  <2>2. /\ Head(vs) \in Thread /\ Tail(vs) \in Seq(Thread) /\ Head(vs) = vs[1]
        /\ \A i \in 1..Len(vs) :
             i = 1 \/ (i - 1 \in 1..Len(Tail(vs)) /\ Tail(vs)[i - 1] = vs[i])
    BY <2>1
  <2>3. job' = [job EXCEPT ![j] = s]
    BY <1>1, <1>4 DEF NextVictim, JobState
  <2>4. /\ s.kind = job[j].kind /\ s.cap = job[j].cap /\ s.next = job[j].next
        /\ s.victims = Tail(vs)
    BY <1>1 DEF JobState
  <2>5. PICK v \in Thread : v = Head(vs)
    BY <2>2
  <2>6. locks' = Enqueued(locks, v, op, DefaultHarness, j)
    BY <1>4, <2>5 DEF NextVictim
  <2>7. /\ Queued(locks) \subseteq Queued(locks')
        /\ op = "hibernate" => v \in Queued(locks')
    <3>1. /\ Queued(locks) \subseteq Queued(Enqueued(locks, v, op, DefaultHarness, j))
          /\ op = "hibernate" => v \in Queued(Enqueued(locks, v, op, DefaultHarness, j))
      BY <1>1, DefaultHarnessType, EnqueuedQueued
    <3>. QED
      BY <2>6, <3>1
  <2>. HIDE DEF s
  <2>8. \A i \in Job : job'[i] = IF i = j THEN s ELSE job[i]
    BY <1>1, <2>3
  <2>9. ASSUME NEW t \in Listed(job) PROVE t \in Queued(locks') \cup Listed(job')
    <3>1. PICK n \in Job : /\ job[n].kind = "reconcile"
                           /\ \E i \in 1..Len(job[n].victims) : job[n].victims[i] = t
      BY DEF Listed
    <3>2. t \in Thread
      BY DEF Listed
    <3>3. CASE n # j
      <4>1. job'[n] = job[n]
        BY <2>8, <3>3
      <4>. QED
        BY <3>1, <3>2, <4>1 DEF Listed
    <3>4. CASE n = j
      <4>1. PICK i \in 1..Len(vs) : vs[i] = t
        BY <3>1, <3>4
      <4>2. CASE i = 1
        BY <1>4, <2>2, <2>5, <2>7, <3>1, <3>4, <4>1, <4>2
      <4>3. CASE i # 1
        <5>1. i - 1 \in 1..Len(s.victims) /\ s.victims[i - 1] = t
          BY <2>2, <2>4, <4>1, <4>3
        <5>2. job'[j] = s /\ s.kind = "reconcile"
          BY <2>4, <2>8, <3>1, <3>4
        <5>. QED
          BY <3>2, <5>1, <5>2 DEF Listed
      <4>. QED
        BY <4>2, <4>3
    <3>. QED
      BY <3>3, <3>4
  <2>10. \A i \in Job : job[i].kind = "reconcile" =>
           /\ job'[i].kind = "reconcile"
           /\ job'[i].cap = job[i].cap /\ job'[i].next = job[i].next
    BY <2>4, <2>8
  <2>. QED
    BY <1>3, <2>7, <2>9, <2>10
<1>5. ASSUME job[j].kind = "reconcile", job[j].victims = <<>>,
             ReconcileFrom(j, TRUE, job[j].void, job[j].cap, job[j].next, locks)
      PROVE  CapFollows'
  <2>. SUFFICES ASSUME server' = "up", NEW k \in DOMAIN HarnessOrder
                PROVE  ComesBy(k)' \/ Cardinality(Staying(k)') <= maxActive'
    BY DEF CapFollows
  <2>1. job[j].void \in BOOLEAN /\ job[j].cap \in Caps /\ job[j].next \in Nat /\ k \in Nat
    BY <1>1, ConstantsAssumption DEF JobState
  <2>2. PICK c \in {job[j].cap}, f \in {job[j].next} :
          \/ /\ job' = [job EXCEPT ![j] = NoJobState]
             /\ locks' = locks
          \/ \E n \in HarnessesOver(c, f)' :
               \E vs \in OldestFirst(Excess(HarnessOrder[n], c))' :
                 /\ job' = [job EXCEPT ![j] =
                              [kind |-> "reconcile", void |-> job[j].void, cap |-> c,
                               next |-> n + 1, victims |-> Tail(vs), except |-> {},
                               waiting |-> TRUE]]
                 /\ locks' = Enqueued(locks, vs[1], "hibernate", DefaultHarness, j)
    BY <1>5 DEF ReconcileFrom
  <2>3. \A i \in Job : i # j => job'[i] = job[i]
    BY <1>1, <2>2
  <2>4. Queued(locks) \subseteq Queued(locks')
    <3>1. ASSUME NEW n \in HarnessesOver(c, f)',
                 NEW vs \in OldestFirst(Excess(HarnessOrder[n], c))',
                 locks' = Enqueued(locks, vs[1], "hibernate", DefaultHarness, j)
          PROVE  Queued(locks) \subseteq Queued(locks')
      <4>. DEFINE S == Excess(HarnessOrder[n], c)'
      <4>1. S \in SUBSET Thread /\ S # {}
        BY DEF HarnessesOver, Excess, Active, Running, TypeOK
      <4>2. vs \in [1..Cardinality(S) -> S]
        BY DEF OldestFirst
      <4>. HIDE DEF S
      <4>3. PICK v \in Thread : v = vs[1]
        BY <4>1, <4>2, OrderingType
      <4>4. Queued(locks) \subseteq Queued(Enqueued(locks, v, "hibernate", DefaultHarness, j))
        BY <1>1, DefaultHarnessType, EnqueuedQueued
      <4>. QED
        BY <3>1, <4>3, <4>4
    <3>. QED
      BY <2>2, <3>1
  <2>5. Listed(job) \subseteq Listed(job')
    <3>1. ASSUME NEW n \in Job, NEW i \in 1..Len(job[n].victims) PROVE n # j
      <4>1. Len(<<>>) = 0
        OBVIOUS
      <4>. QED
        BY <1>5, <3>1, <4>1
    <3>. QED
      BY <2>3, <3>1 DEF Listed
  <2>6. server = "up"
    BY <1>2
  <2>7. CASE job[j].cap <= maxActive /\ job[j].next <= k
    <3>1. job[j].cap <= maxActive'
      BY <1>2, <2>7
    <3>. QED
      BY <1>1, <1>5, <2>1, <2>7, <3>1, ReconcileCovers
  <2>8. CASE ~(job[j].cap <= maxActive /\ job[j].next <= k)
    <3>1. CASE ComesBy(k)
      <4>1. PICK i \in Job : /\ job[i].kind = "reconcile"
                             /\ job[i].cap <= maxActive /\ job[i].next <= k
        BY <3>1 DEF ComesBy
      <4>2. i # j
        BY <2>8, <4>1
      <4>. QED
        BY <1>2, <2>3, <4>1, <4>2 DEF ComesBy
    <3>2. CASE Cardinality(Staying(k)) <= maxActive
      <4>. DEFINE S == Staying(k)
                  T == Staying(k)'
      <4>1. T \in SUBSET S
        <5>1. Active(HarnessOrder[k])' = Active(HarnessOrder[k])
          BY <1>2 DEF Active, Running
        <5>. QED
          BY <2>4, <2>5, <5>1 DEF Staying
      <4>2. IsFiniteSet(S)
        <5>1. S \in SUBSET Thread
          BY DEF Staying, Active, Running, TypeOK
        <5>. QED
          BY <5>1, FS_Subset, ConstantsAssumption
      <4>3. maxActive' = maxActive /\ Cardinality(S) <= maxActive
        BY <1>2, <3>2
      <4>. HIDE DEF S, T
      <4>4. IsFiniteSet(T) /\ Cardinality(T) <= Cardinality(S)
        BY <4>1, <4>2, FS_Subset
      <4>5. Cardinality(S) \in Nat /\ Cardinality(T) \in Nat
        BY <4>2, <4>4, FS_CardinalityType
      <4>6. Cardinality(T) <= maxActive'
        BY <1>1, <4>3, <4>4, <4>5
      <4>. QED
        BY <4>6 DEF T
    <3>. QED
      BY <2>6, <3>1, <3>2 DEF CapFollows
  <2>. QED
    BY <2>7, <2>8
<1>6. ASSUME job[j].kind = "bulk", NEW vs \in AnyOrder(PurgeCandidates(job[j].except)),
             AwaitLoop(j, "purge", vs, job[j].except, "purge")
      PROVE  CapFollows'
  <2>1. vs \in Seq(Thread)
    <3>1. PurgeCandidates(job[j].except) \in SUBSET Thread
      BY DEF PurgeCandidates, TypeOK
    <3>. QED
      BY <3>1, OrderingType DEF AnyOrder
  <2>2. job[j].kind # "reconcile"
    BY <1>6
  <2>3. /\ Queued(locks) \subseteq Queued(locks')
        /\ \A i \in Job : job[i].kind = "reconcile" => job'[i] = job[i]
    BY <1>6, <2>1, <2>2, AwaitLoopCap
  <2>4. Listed(job) \subseteq Listed(job')
    BY <2>3 DEF Listed
  <2>. QED
    BY <1>3, <2>3, <2>4
<1>7. ASSUME job[j].kind = "purge", job' = [job EXCEPT ![j] = NoJobState], UNCHANGED locks
      PROVE  CapFollows'
  <2>1. \A i \in Job : job[i].kind = "reconcile" => job'[i] = job[i]
    BY <1>1, <1>7
  <2>2. Listed(job) \subseteq Listed(job')
    BY <2>1 DEF Listed
  <2>. QED
    BY <1>3, <1>7, <2>1, <2>2
<1>8. CASE job[j].kind = "reconcile"
  BY <1>4, <1>5, <1>8 DEF ResumeJob
<1>9. CASE job[j].kind = "bulk"
  BY <1>4, <1>6, <1>9 DEF ResumeJob
<1>10. CASE job[j].kind = "purge"
  BY <1>4, <1>7, <1>10 DEF ResumeJob
<1>. QED
  BY <1>8, <1>9, <1>10 DEF ResumeJob

\* Exits, timers and the end of the server only take sessions away.
LEMMA ProcessStepCap ==
    ASSUME CInv, TypeOK',
           \/ \E p \in Proc : ChildEnds(p) \/ OnExit(p) \/ KillTimer(p)
           \/ HibernateAllTimeout
           \/ Dispose
           \/ UNCHANGED vars
    PROVE  CapFollows'
<1>. USE DEF CInv, LInv, IInv
<1>1. ASSUME UNCHANGED <<locks, job, maxActive, server>>,
             \A h \in Harness : Active(h)' \subseteq Active(h)
      PROVE  CapFollows'
  BY <1>1, CapFrame
<1>2. ASSUME NEW p \in Proc, OnExit(p) PROVE CapFollows'
  <2>1. \A h \in Harness : Active(h)' \subseteq Active(h)
    BY <1>2 DEF OnExit, WithoutProcess, Active, Running, TypeOK
  <2>. QED
    BY <1>1, <1>2, <2>1 DEF OnExit
<1>3. ASSUME HibernateAllTimeout PROVE CapFollows'
  <2>1. \A h \in Harness : Active(h)' \subseteq Active(h)
    BY <1>3 DEF HibernateAllTimeout, WithoutProcess, Active, Running, TypeOK
  <2>. QED
    BY <1>1, <1>3, <2>1 DEF HibernateAllTimeout
<1>4. ASSUME Dispose PROVE CapFollows'
  BY <1>4 DEF Dispose, CapFollows
<1>5. ASSUME (\E p \in Proc : ChildEnds(p) \/ KillTimer(p)) \/ UNCHANGED vars
      PROVE  CapFollows'
  <2>1. UNCHANGED <<sessions, status, process, harness, locks, job, maxActive, server>>
    BY <1>5 DEF ChildEnds, KillTimer, vars, entryVars
  <2>. QED
    BY <1>1, <2>1, ActiveSame
<1>. QED
  BY <1>2, <1>3, <1>4, <1>5

\* No harness is over the cap before the first request.
LEMMA InitCInv == Init => CInv
<1>. SUFFICES ASSUME Init PROVE CInv
  OBVIOUS
<1>1. LInv
  BY InitLInv
<1>2. IdleDistinct
  BY DEF Init, IdleDistinct
<1>3. ASSUME NEW k \in DOMAIN HarnessOrder PROVE Cardinality(Staying(k)) <= maxActive
  <2>1. Staying(k) = {}
    BY DEF Init, Staying, Active, Running
  <2>2. Cardinality(Staying(k)) = 0
    BY <2>1, FS_EmptySet
  <2>3. maxActive \in Nat
    BY ConstantsAssumption DEF Init
  <2>. QED
    BY <2>2, <2>3
<1>. QED
  BY <1>1, <1>2, <1>3 DEF CInv, CapFollows

\* Every step but one that cuts a reconciliation short.
LEMMA NextCInv == CInv /\ [Next]_vars /\ [~CutShort]_vars => CInv'
<1>. SUFFICES ASSUME CInv, [Next]_vars, [~CutShort]_vars PROVE CInv'
  OBVIOUS
<1>1. LInv'
  BY NextLInv DEF CInv
<1>2. IdleDistinct'
  BY NextDistinct DEF CInv
<1>3. TypeOK'
  BY <1>1 DEF LInv, IInv
<1>4. ASSUME NEW t \in Thread, LockStep(t) PROVE CapFollows'
  <2>1. CASE ~CutShort
    BY <1>2, <1>3, <1>4, <2>1, LockStepCap
  <2>2. CASE UNCHANGED vars
    BY <1>3, <2>2, ProcessStepCap
  <2>. QED
    BY <2>1, <2>2
<1>5. CapFollows'
  BY <1>2, <1>3, <1>4, ClientCap, ResumeCap, ProcessStepCap DEF Next
<1>. QED
  BY <1>1, <1>2, <1>5 DEF CInv

\* At rest no harness runs more sessions than the cap, however starts, changes of the cap,
\* interactions, exits and other loops cross its reconciliations, as long as no
\* reconciliation is cut short by the deletion of a session it had chosen
\* (reconcileActiveSessions, whose loop ends with the rejection of hibernateSession).
THEOREM SpecCapAtRest == Spec /\ [][~CutShort]_vars => []CapAtRest
<1>1. CInv => CapAtRest
  <2>. SUFFICES ASSUME CInv, AtRest, NEW h \in Harness
                PROVE  Cardinality(Active(h)) <= maxActive
    BY DEF CapAtRest
  <2>1. PICK k \in DOMAIN HarnessOrder : h = HarnessOrder[k]
    BY DEF Harness
  <2>2. ~ComesBy(k) /\ Listed(job) = {}
    BY DEF AtRest, FreeJob, ComesBy, Listed
  <2>3. Queued(locks) = {}
    <3>1. \A t \in Thread : Len(locks[t]) = 0
      BY DEF AtRest
    <3>. QED
      BY <3>1 DEF Queued
  <2>4. Staying(k) = Active(h)
    BY <2>1, <2>2, <2>3 DEF Staying
  <2>. QED
    BY <2>2, <2>4 DEF CInv, CapFollows, AtRest
<1>. QED
  BY <1>1, InitCInv, NextCInv, PTL DEF Spec
=============================================================================
