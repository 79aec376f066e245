------------------------- MODULE PiSessionManagerProofs -------------------------
(* No process of a Pi session is forgotten, the initial prompt of a terminal goes *)
(* into it first and once, and what is held of a session is true at rest and      *)
(* while it is stopped, for any number of starts, calls and processes.            *)
EXTENDS PiSessionManager, SequenceTheorems, TLAPS

Pcs == {"idle", "queued", "preparing", "spawning", "waiting", "ready", "rejected", "prompting",
        "submit", "cleanup", "failed", "ok", "error"}
Ops == Lifecycle \cup {"start", "submit", "cleanup", "refresh", "reading"}
Tasks == [op : Ops, id : Nat]
Texts == {"prompt", "input"}
StartStates == [pc : Pcs, mode : Modes, prompt : BOOLEAN, proc : Nat]
Entries == [status : {"none", "new", "active", "dormant"}, mode : Modes, proc : Nat, pending : Nat,
            nonce : Nat, file : Nat, shown : BOOLEAN, watch : BOOLEAN]
Procs == [mode : Modes, alive : BOOLEAN, told : BOOLEAN, signalled : BOOLEAN, timer : BOOLEAN,
          ready : BOOLEAN, file : Nat, got : Seq(Texts)]
Left == [kinds : [Starts -> [mode : Modes, prompt : BOOLEAN]], lifecycle : SUBSET Lifecycle,
         inputs : Nat, calls : Nat]

Shape ==
    /\ entry \in Entries /\ entry.proc \in 0 .. Len(procs)
    /\ queue \in Seq(Tasks)
    /\ starts \in [Starts -> StartStates] /\ \A s \in Starts : starts[s].proc \in 0 .. Len(procs)
    /\ procs \in Seq(Procs)
    /\ left \in Left

\* A start that has stopped the old process and has not spawned its own has the lock, and
\* the session no process.
Exclusive ==
    \A s \in Starts : starts[s].pc \in {"preparing", "spawning"} =>
        queue # <<>> /\ Head(queue) = Task("start", s) /\ entry.proc = None

\* A start that will submit its prompt, or clean up, waits for the lock once.
QueuedOnce ==
    \A i \in 1 .. Len(queue) : queue[i].op \in {"submit", "cleanup"} =>
        /\ queue[i].id \in Starts /\ starts[queue[i].id].pc = queue[i].op
        /\ \A j \in 1 .. Len(queue) : queue[j] = queue[i] => i = j

\* Each launch is of one start.
Launched ==
    /\ \A s \in Starts :
        /\ starts[s].pc \in {"idle", "queued", "preparing", "spawning"} => starts[s].proc = None
        /\ starts[s].pc \in {"waiting", "ready", "rejected", "submit", "cleanup"} => starts[s].proc # None
        /\ starts[s].pc = "prompting" => starts[s].mode = "rpc"
    /\ \A s, t \in Starts : starts[s].proc = starts[t].proc /\ starts[s].proc # None => s = t

\* A terminal whose prompt is still to come accepts no input.
Pending ==
    \A s \in Starts :
        /\ starts[s].mode = "terminal" /\ starts[s].prompt
        /\ starts[s].pc # "ok" /\ starts[s].proc # None /\ starts[s].proc = entry.proc
        => entry.pending = entry.proc

IInv ==
    /\ Shape /\ Exclusive /\ QueuedOnce /\ Launched /\ Pending
    /\ NoStrayProcess /\ PromptGoesFirst

-----------------------------------------------------------------------------
(* What keeps the parts of the invariant.                                      *)

\* A start keeps its launch, and neither comes nor ceases to be ok, but in the RPC mode.
SameStart(s) ==
    /\ starts'[s].proc = starts[s].proc
    /\ starts[s].proc # None =>
        /\ starts'[s].mode = starts[s].mode /\ starts'[s].prompt = starts[s].prompt
        /\ starts[s].mode = "rpc" \/ (starts'[s].pc = "ok" <=> starts[s].pc = "ok")

\* A step that spawns nothing and writes nothing into a process keeps who owns the
\* processes and what they got.
LEMMA Frame ==
    ASSUME IInv, Shape', Len(procs') = Len(procs),
           \A l \in 1 .. Len(procs) :
              /\ procs'[l].got = procs[l].got
              /\ procs'[l].alive /\ ~procs'[l].signalled =>
                    procs[l].alive /\ ~procs[l].signalled /\ entry'.proc = entry.proc,
           (entry'.proc = entry.proc /\ entry'.pending = entry.pending) \/ entry'.proc = None,
           \A s \in Starts : SameStart(s)
    PROVE  NoStrayProcess' /\ PromptGoesFirst' /\ Pending'
<1>1. DOMAIN procs = 1 .. Len(procs) /\ DOMAIN procs' = 1 .. Len(procs)
  BY DEF IInv, Shape
<1>2. NoStrayProcess'
  BY <1>1 DEF IInv, NoStrayProcess
<1>3. ASSUME NEW s \in Starts, starts'[s].mode = "terminal", starts'[s].prompt, starts'[s].proc # None
      PROVE  /\ starts[s].mode = "terminal" /\ starts[s].prompt /\ starts[s].proc = starts'[s].proc
             /\ starts'[s].pc = "ok" <=> starts[s].pc = "ok"
             /\ starts[s].proc \in 1 .. Len(procs)
             /\ procs'[starts'[s].proc].got = procs[starts[s].proc].got
  <2>1. SameStart(s) /\ starts[s].proc \in 0 .. Len(procs)
    BY DEF IInv, Shape
  <2>2. starts[s].proc \in 1 .. Len(procs)
    BY <1>3, <2>1 DEF SameStart, None, IInv, Shape
  <2>. QED
    BY <1>3, <2>1, <2>2 DEF SameStart
<1>4. PromptGoesFirst'
  BY <1>3 DEF IInv, PromptGoesFirst
<1>5. Pending'
  BY <1>3 DEF IInv, Pending
<1>. QED
  BY <1>2, <1>4, <1>5

\* Launches stay with their starts.
LEMMA LaunchedKept ==
    ASSUME IInv,
           \A s \in Starts :
              /\ starts'[s].proc = starts[s].proc
              /\ starts'[s].pc \in {"idle", "queued", "preparing", "spawning"} => starts[s].proc = None
              /\ starts'[s].pc \in {"waiting", "ready", "rejected", "submit", "cleanup"} => starts[s].proc # None
              /\ starts'[s].pc = "prompting" => starts'[s].mode = "rpc"
    PROVE  Launched'
  BY DEF IInv, Launched

\* A start between stop and spawn keeps the lock: others only join the queue.
LEMMA ExclusiveKept ==
    ASSUME IInv, queue' \in Seq(Tasks),
           entry'.proc = entry.proc \/ entry'.proc = None,
           \A s \in Starts : starts'[s].pc \in {"preparing", "spawning"} =>
                             starts[s].pc \in {"preparing", "spawning"},
           \/ queue' = queue
           \/ \E task \in Tasks : queue' = Append(queue, task)
           \/ queue # <<>> /\ \A s \in Starts : Head(queue) = Task("start", s) =>
                                  starts'[s].pc \notin {"preparing", "spawning"}
    PROVE  Exclusive'
<1>1. SUFFICES ASSUME NEW s \in Starts, starts'[s].pc \in {"preparing", "spawning"}
               PROVE  queue' # <<>> /\ Head(queue') = Task("start", s) /\ entry'.proc = None
  BY DEF Exclusive
<1>2. queue \in Seq(Tasks) /\ queue # <<>> /\ Head(queue) = Task("start", s) /\ entry.proc = None
  BY <1>1 DEF IInv, Shape, Exclusive
<1>3. queue' = queue \/ \E task \in Tasks : queue' = Append(queue, task)
  BY <1>1, <1>2
<1>4. ASSUME NEW task \in Tasks, queue' = Append(queue, task)
      PROVE  queue' # <<>> /\ Head(queue') = Head(queue)
  BY <1>2, <1>4
<1>. QED
  BY <1>2, <1>3, <1>4

\* Who waits in the queue to submit or to clean up is who will, and waits once.
LEMMA QueueStays ==
    ASSUME IInv, queue' = queue,
           \A s \in Starts : starts[s].pc \in {"submit", "cleanup"} => starts'[s].pc = starts[s].pc
    PROVE  QueuedOnce'
  BY DEF IInv, QueuedOnce

LEMMA QueueJoined ==
    ASSUME IInv, NEW task \in Tasks, queue' = Append(queue, task),
           \A s \in Starts : starts[s].pc \in {"submit", "cleanup"} => starts'[s].pc = starts[s].pc,
           task.op \in {"submit", "cleanup"} =>
              /\ task.id \in Starts /\ starts'[task.id].pc = task.op
              /\ starts[task.id].pc \notin {"submit", "cleanup"}
    PROVE  QueuedOnce'
<1>1. queue \in Seq(Tasks)
  BY DEF IInv, Shape
<1>2. /\ Len(queue') = Len(queue) + 1 /\ queue'[Len(queue) + 1] = task
      /\ \A i \in 1 .. Len(queue) : queue'[i] = queue[i]
  BY <1>1, AppendProperties
<1>3. \A i \in 1 .. Len(queue') : i \in 1 .. Len(queue) \/ i = Len(queue) + 1
  BY <1>1, <1>2
<1>. QED
  BY <1>1, <1>2, <1>3 DEF IInv, QueuedOnce

LEMMA QueueLeft ==
    ASSUME IInv, queue # <<>>, queue' = Tail(queue),
           \A s \in Starts : starts[s].pc \in {"submit", "cleanup"} =>
              starts'[s].pc = starts[s].pc \/ Head(queue) = Task(starts[s].pc, s)
    PROVE  QueuedOnce'
<1>1. queue \in Seq(Tasks) /\ Len(queue) \in Nat /\ Len(queue) > 0
  BY DEF IInv, Shape
<1>2. /\ Len(queue') = Len(queue) - 1 /\ Head(queue) = queue[1]
      /\ \A i \in 1 .. Len(queue') : queue'[i] = queue[i + 1]
  BY <1>1
<1>3. SUFFICES ASSUME NEW i \in 1 .. Len(queue'), queue'[i].op \in {"submit", "cleanup"}
               PROVE  /\ queue'[i].id \in Starts /\ starts'[queue'[i].id].pc = queue'[i].op
                      /\ \A j \in 1 .. Len(queue') : queue'[j] = queue'[i] => i = j
  BY DEF QueuedOnce
<1>4. i + 1 \in 1 .. Len(queue) /\ queue'[i] = queue[i + 1] /\ 1 \in 1 .. Len(queue) /\ i + 1 # 1
  BY <1>1, <1>2
<1>5. /\ queue[i + 1].id \in Starts /\ starts[queue[i + 1].id].pc = queue[i + 1].op
      /\ \A j \in 1 .. Len(queue) : queue[j] = queue[i + 1] => i + 1 = j
  BY <1>3, <1>4 DEF IInv, QueuedOnce
<1>6. queue[i + 1] = Task(queue[i + 1].op, queue[i + 1].id)
  <2>1. queue[i + 1] \in Tasks
    BY <1>1, <1>4
  <2>2. \A r \in [op : Ops, id : Nat] : r = [op |-> r.op, id |-> r.id]
    OBVIOUS
  <2>. QED
    BY <2>1, <2>2 DEF Tasks, Task
<1>7. Head(queue) # Task(queue[i + 1].op, queue[i + 1].id)
  BY <1>2, <1>4, <1>5, <1>6
<1>8. starts'[queue'[i].id].pc = queue'[i].op
  BY <1>3, <1>4, <1>5, <1>7
<1>9. ASSUME NEW j \in 1 .. Len(queue'), queue'[j] = queue'[i] PROVE i = j
  <2>1. j + 1 \in 1 .. Len(queue) /\ queue[j + 1] = queue[i + 1]
    BY <1>1, <1>2, <1>9
  <2>. QED
    BY <1>5, <2>1
<1>. QED
  BY <1>4, <1>5, <1>8, <1>9

\* Joining the queue for anything else.
LEMMA LockJoined ==
    ASSUME IInv, NEW op \in Ops \ {"submit", "cleanup"}, NEW id \in Nat,
           queue' = Append(queue, Task(op, id)), entry'.proc = entry.proc \/ entry'.proc = None,
           \A s \in Starts : \/ starts'[s].pc = starts[s].pc
                             \/ {starts'[s].pc, starts[s].pc} \cap {"preparing", "spawning", "submit", "cleanup"} = {}
    PROVE  queue' \in Seq(Tasks) /\ Exclusive' /\ QueuedOnce'
<1>1. queue \in Seq(Tasks) /\ Task(op, id) \in Tasks
  BY DEF IInv, Shape, Task, Tasks
<1>2. queue' \in Seq(Tasks)
  BY <1>1
<1>3. Exclusive'
  BY <1>1, <1>2, ExclusiveKept
<1>4. Task(op, id).op \notin {"submit", "cleanup"}
  BY DEF Task
<1>5. QueuedOnce'
  BY <1>1, <1>4, QueueJoined
<1>. QED
  BY <1>2, <1>3, <1>5

\* Its holder leaves the lock, to whoever is next.
LEMMA LockLeft ==
    ASSUME IInv, queue # <<>>, queue' = Unlock, entry'.proc = entry.proc \/ entry'.proc = None,
           \A s \in Starts :
              \/ starts'[s].pc = starts[s].pc /\ Head(queue) # Task("start", s)
              \/ {starts'[s].pc, starts[s].pc} \cap {"preparing", "spawning", "submit", "cleanup"} = {}
              \/ /\ starts'[s].pc \notin {"preparing", "spawning", "submit", "cleanup"}
                 /\ Head(queue) = Task(starts[s].pc, s) \/ starts[s].pc \notin {"submit", "cleanup"}
    PROVE  queue' \in Seq(Tasks) /\ Exclusive' /\ QueuedOnce'
<1>1. queue \in Seq(Tasks) /\ queue' = Tail(queue)
  BY DEF IInv, Shape, Unlock
<1>2. queue' \in Seq(Tasks)
  BY <1>1
<1>3. \A s \in Starts : Head(queue) = Task("start", s) => starts'[s].pc \notin {"preparing", "spawning"}
  OBVIOUS
<1>4. Exclusive'
  BY <1>2, <1>3, ExclusiveKept
<1>5. QueuedOnce'
  BY <1>1, QueueLeft
<1>. QED
  BY <1>2, <1>4, <1>5

\* A step that leaves the queue as it is.
LEMMA LockStays ==
    ASSUME IInv, queue' = queue, entry'.proc = entry.proc \/ entry'.proc = None,
           \A s \in Starts :
              /\ starts'[s].pc \in {"preparing", "spawning"} => starts[s].pc \in {"preparing", "spawning"}
              /\ starts[s].pc \in {"submit", "cleanup"} => starts'[s].pc = starts[s].pc
    PROVE  queue' \in Seq(Tasks) /\ Exclusive' /\ QueuedOnce'
<1>1. queue' \in Seq(Tasks)
  BY DEF IInv, Shape
<1>. QED
  BY <1>1, ExclusiveKept, QueueStays

-----------------------------------------------------------------------------
(* What stopProcess does.                                                      *)

\* Whoever waits for readiness or for the answer to its prompt is refused, and nobody else.
LEMMA StartsStoppedShape ==
    ASSUME Shape, NEW e \in Entries
    PROVE  /\ StartsStopped(starts, e) \in [Starts -> StartStates]
           /\ \A s \in Starts :
                LET settled == StartsStopped(starts, e)[s] IN
                /\ settled.proc = starts[s].proc /\ settled.mode = starts[s].mode
                /\ settled.prompt = starts[s].prompt
                /\ \/ settled.pc = starts[s].pc
                   \/ starts[s].pc = "waiting" /\ settled.pc = "rejected"
                   \/ starts[s].pc = "prompting" /\ settled.pc = "failed"
<1>1. starts \in [Starts -> StartStates]
  BY DEF Shape
<1>. DEFINE Rejected(s) == IF starts[s].pc = "waiting" /\ starts[s].proc = e.proc /\ starts[s].proc = e.nonce
                           THEN [starts[s] EXCEPT !.pc = "rejected"] ELSE starts[s]
            Stopped(s) == IF Rejected(s).pc = "prompting" THEN [Rejected(s) EXCEPT !.pc = "failed"] ELSE Rejected(s)
<1>2. StartsStopped(starts, e) = [s \in Starts |-> Stopped(s)]
  BY DEF StartsStopped, PromptRejected, ReadinessRejected
<1>3. ASSUME NEW s \in Starts
      PROVE  /\ Stopped(s) \in StartStates
             /\ Stopped(s).proc = starts[s].proc /\ Stopped(s).mode = starts[s].mode
             /\ Stopped(s).prompt = starts[s].prompt
             /\ \/ Stopped(s).pc = starts[s].pc
                \/ starts[s].pc = "waiting" /\ Stopped(s).pc = "rejected"
                \/ starts[s].pc = "prompting" /\ Stopped(s).pc = "failed"
  BY <1>1 DEF StartStates, Pcs
<1>. QED
  BY <1>2, <1>3

\* The session's process is told to end, so that none is left that was not.
LEMMA ProcsStoppedShape ==
    ASSUME Shape, NoStrayProcess, procs' \in ProcsStopped
    PROVE  /\ procs' \in Seq(Procs) /\ Len(procs') = Len(procs)
           /\ \A l \in 1 .. Len(procs) :
                procs'[l].got = procs[l].got /\ (procs'[l].alive => procs'[l].signalled)
<1>1. procs \in Seq(Procs) /\ DOMAIN procs = 1 .. Len(procs) /\ entry.proc \in 0 .. Len(procs)
  BY DEF Shape
<1>2. CASE entry.proc = None
  <2>1. procs' = procs
    BY <1>2 DEF ProcsStopped
  <2>2. \A l \in 1 .. Len(procs) : procs[l].alive => procs[l].signalled
    BY <1>1, <1>2 DEF NoStrayProcess, None, Procs
  <2>. QED
    BY <1>1, <2>1, <2>2
<1>3. CASE entry.proc # None
  <2>0. PICK armed \in BOOLEAN :
              procs' = [procs EXCEPT ![entry.proc].signalled = TRUE, ![entry.proc].timer = armed]
    BY <1>3 DEF ProcsStopped
  <2>. DEFINE told == [procs[entry.proc] EXCEPT !.signalled = TRUE, !.timer = armed]
  <2>1. entry.proc \in 1 .. Len(procs) /\ procs[entry.proc] \in Procs
    BY <1>1, <1>3 DEF None
  <2>2. told \in Procs /\ told.got = procs[entry.proc].got /\ told.signalled
    BY <2>1 DEF Procs
  <2>3. procs' = [procs EXCEPT ![entry.proc] = told]
    BY <1>1, <2>0, <2>1 DEF Procs
  <2>. HIDE DEF told
  <2>4. /\ procs' \in Seq(Procs) /\ Len(procs') = Len(procs)
        /\ \A l \in 1 .. Len(procs) : procs'[l] = IF l = entry.proc THEN told ELSE procs[l]
    BY <1>1, <2>1, <2>2, <2>3, ExceptSeq
  <2>5. \A l \in 1 .. Len(procs) : l # entry.proc => (procs[l].alive => procs[l].signalled)
    BY <1>1 DEF NoStrayProcess, Procs
  <2>. QED
    BY <2>2, <2>4, <2>5
<1>. QED
  BY <1>2, <1>3

\* One process changes what it is, and not what it got.
LEMMA ProcChanges ==
    ASSUME Shape, NEW l \in 1 .. Len(procs), NEW p \in Procs, procs' = [procs EXCEPT ![l] = p]
    PROVE  /\ procs' \in Seq(Procs) /\ Len(procs') = Len(procs)
           /\ \A m \in 1 .. Len(procs) : procs'[m] = IF m = l THEN p ELSE procs[m]
<1>1. procs \in Seq(Procs)
  BY DEF Shape
<1>. QED
  BY <1>1, ExceptSeq

\* An entry that is let go of.
LEMMA UnlinkedShape ==
    ASSUME NEW e \in Entries
    PROVE  Unlinked(e) \in Entries /\ Unlinked(e).proc = None /\ Unlinked(e).file = e.file
           /\ \A status \in {"none", "new", "active", "dormant"} :
                /\ [Unlinked(e) EXCEPT !.status = status] \in Entries
                /\ [Unlinked(e) EXCEPT !.status = status].proc = None
           /\ \A mode \in Modes :
                /\ [Unlinked(e) EXCEPT !.status = "active", !.mode = mode] \in Entries
                /\ [Unlinked(e) EXCEPT !.status = "active", !.mode = mode].proc = None
  BY DEF Unlinked, Entries, None

-----------------------------------------------------------------------------
(* The steps.                                                                  *)

\* A start goes on: nothing but where it is changes.
LEMMA StartMoves ==
    ASSUME Shape, NEW s \in Starts, NEW pc \in Pcs, starts' = [starts EXCEPT ![s].pc = pc]
    PROVE  /\ starts' \in [Starts -> StartStates]
           /\ \A t \in Starts :
                /\ starts'[t].proc = starts[t].proc /\ starts'[t].mode = starts[t].mode
                /\ starts'[t].prompt = starts[t].prompt
                /\ starts'[t].pc = IF t = s THEN pc ELSE starts[t].pc
  BY DEF Shape, StartStates

\* A step that leaves the session and its processes alone.
LEMMA Quiet ==
    ASSUME IInv, entry'.proc = entry.proc, entry'.pending = entry.pending, entry' \in Entries,
           procs' = procs, left' = left, queue' \in Seq(Tasks), starts' \in [Starts -> StartStates],
           \A s \in Starts : starts'[s].proc = starts[s].proc /\ SameStart(s)
    PROVE  Shape' /\ NoStrayProcess' /\ PromptGoesFirst' /\ Pending'
<1>1. Shape'
  BY DEF IInv, Shape
<1>. QED
  BY <1>1, Frame

\* A step that stops the session's process.
LEMMA Stop ==
    ASSUME IInv, entry' \in Entries, entry'.proc = None,
           procs' \in ProcsStopped, left' = left, queue' \in Seq(Tasks), starts' \in [Starts -> StartStates],
           \A s \in Starts : starts'[s].proc = starts[s].proc /\ SameStart(s)
    PROVE  Shape' /\ NoStrayProcess' /\ PromptGoesFirst' /\ Pending'
<1>1. /\ procs' \in Seq(Procs) /\ Len(procs') = Len(procs)
      /\ \A l \in 1 .. Len(procs) :
            procs'[l].got = procs[l].got /\ (procs'[l].alive => procs'[l].signalled)
  BY ProcsStoppedShape DEF IInv
<1>2. entry'.proc \in 0 .. Len(procs')
  BY <1>1 DEF IInv, Shape, None
<1>3. Shape'
  BY <1>1, <1>2 DEF IInv, Shape
<1>. QED
  BY <1>1, <1>3, Frame

\* The calls that ask for the lock.
LEMMA RequestIInv ==
    ASSUME IInv,
           \/ \E s \in Starts : RequestStart(s)
           \/ \E op \in Lifecycle : Request(op)
           \/ \E launch \in DOMAIN procs : ScheduleRefresh(launch)
    PROVE  IInv'
<1>1. ASSUME NEW s \in Starts, RequestStart(s) PROVE IInv'
  <2>1. starts[s].pc = "idle" /\ starts[s].proc = None
    BY <1>1 DEF RequestStart, IInv, Launched
  <2>2. left.kinds[s].mode \in Modes /\ left.kinds[s].prompt \in BOOLEAN
    BY DEF IInv, Shape, Left
  <2>3. starts' = [starts EXCEPT ![s] = [pc |-> "queued", mode |-> left.kinds[s].mode,
                                          prompt |-> left.kinds[s].prompt, proc |-> None]]
    BY <1>1 DEF RequestStart
  <2>4. /\ starts' \in [Starts -> StartStates]
        /\ starts'[s].pc = "queued" /\ starts'[s].proc = None
        /\ \A t \in Starts : t # s => starts'[t] = starts[t]
    BY <2>2, <2>3 DEF IInv, Shape, StartStates, Pcs, None
  <2>5. queue' = Append(queue, Task("start", s)) /\ UNCHANGED <<entry, procs, left>>
    BY <1>1 DEF RequestStart
  <2>6. queue' \in Seq(Tasks) /\ Exclusive' /\ QueuedOnce'
    <3>1. s \in Nat /\ "start" \in Ops \ {"submit", "cleanup"}
      BY DEF Starts, Ops
    <3>2. \A t \in Starts : \/ starts'[t].pc = starts[t].pc
                            \/ {starts'[t].pc, starts[t].pc} \cap {"preparing", "spawning", "submit", "cleanup"} = {}
      BY <2>1, <2>4
    <3>. QED
      BY <2>5, <3>1, <3>2, LockJoined
  <2>7. \A t \in Starts : starts'[t].proc = starts[t].proc /\ SameStart(t)
    BY <2>1, <2>4 DEF SameStart
  <2>8. Launched'
    <3>1. \A t \in Starts : t # s => starts'[t].pc = starts[t].pc /\ starts'[t].mode = starts[t].mode
      BY <2>4
    <3>. QED
      BY <2>1, <2>4, <2>7, <3>1, LaunchedKept DEF IInv, Launched
  <2>9. entry' \in Entries
    BY <2>5 DEF IInv, Shape
  <2>. QED
    BY <2>4, <2>5, <2>6, <2>7, <2>8, <2>9, Quiet DEF IInv
<1>2. ASSUME NEW op \in Lifecycle \cup {"refresh"}, NEW id \in Nat,
             queue' = Append(queue, Task(op, id)), UNCHANGED <<entry, starts, procs>>, left' \in Left
      PROVE  IInv'
  <2>1. op \in Ops \ {"submit", "cleanup"}
    BY DEF Ops, Lifecycle
  <2>2. queue' \in Seq(Tasks) /\ Exclusive' /\ QueuedOnce'
    BY <1>2, <2>1, LockJoined
  <2>3. Shape'
    BY <1>2, <2>2 DEF IInv, Shape
  <2>. QED
    BY <1>2, <2>2, <2>3 DEF IInv, Launched, Pending, NoStrayProcess, PromptGoesFirst
<1>3. ASSUME NEW op \in Lifecycle, Request(op) PROVE IInv'
  <2>1. left' \in Left
    BY <1>3 DEF Request, IInv, Shape, Left
  <2>. QED
    BY <1>2, <1>3, <2>1 DEF Request, None
<1>4. ASSUME NEW launch \in DOMAIN procs, ScheduleRefresh(launch) PROVE IInv'
  <2>1. launch \in Nat /\ left' \in Left
    BY <1>4 DEF ScheduleRefresh, IInv, Shape
  <2>. QED
    BY <1>2, <1>4, <2>1 DEF ScheduleRefresh
<1>. QED
  BY <1>1, <1>3, <1>4

\* A spawn by the holder of the lock: there is no other process, and the new one is the
\* session's, whose prompt is pending if it is to get one.
LEMMA Spawned ==
    ASSUME IInv, NEW s \in Starts, Holds("start", s), starts[s].pc = "spawning",
           NEW p \in Procs, p.got = <<>>, procs' = Append(procs, p),
           entry' \in Entries, entry'.proc = Len(procs) + 1,
           starts' \in [Starts -> StartStates], left' = left, queue' \in {queue, Unlock},
           starts'[s].proc = Len(procs) + 1, starts'[s].mode = starts[s].mode,
           starts'[s].pc \in {"waiting", "ok", "prompting"},
           starts[s].mode = "rpc" \/ starts'[s].pc # "prompting",
           starts'[s].mode = "terminal" /\ starts'[s].prompt =>
              starts'[s].pc = "waiting" /\ entry'.pending = entry'.proc,
           \A t \in Starts \ {s} :
              /\ starts'[t].proc = starts[t].proc /\ starts'[t].mode = starts[t].mode
              /\ starts'[t].prompt = starts[t].prompt
              /\ starts'[t].pc = starts[t].pc \/ (starts[t].pc = "waiting" /\ starts'[t].pc = "rejected")
    PROVE  IInv'
<1>1. /\ queue \in Seq(Tasks) /\ queue # <<>> /\ Head(queue) = Task("start", s)
      /\ entry.proc = None /\ Len(procs) \in Nat /\ procs \in Seq(Procs)
      /\ \A t \in Starts : starts[t].proc \in 0 .. Len(procs)
  BY DEF IInv, Shape, Exclusive, Holds
<1>2. /\ procs' \in Seq(Procs) /\ Len(procs') = Len(procs) + 1 /\ procs'[Len(procs) + 1] = p
      /\ \A l \in 1 .. Len(procs) : procs'[l] = procs[l]
      /\ DOMAIN procs' = 1 .. Len(procs) + 1 /\ DOMAIN procs = 1 .. Len(procs)
  BY <1>1, AppendProperties
<1>3. \A t \in Starts : starts'[t].proc \in 0 .. Len(procs) + 1
  BY <1>1
<1>4. queue' \in Seq(Tasks)
  <2>1. Tail(queue) \in Seq(Tasks)
    BY <1>1
  <2>. QED
    BY <1>1, <2>1 DEF Unlock
<1>5. Shape'
  BY <1>1, <1>2, <1>3, <1>4 DEF IInv, Shape
<1>6. NoStrayProcess'
  <2>1. \A l \in 1 .. Len(procs) : ~(procs[l].alive /\ ~procs[l].signalled)
    BY <1>1, <1>2 DEF IInv, NoStrayProcess, None
  <2>. QED
    BY <1>1, <1>2, <2>1 DEF NoStrayProcess
<1>7. PromptGoesFirst'
  <2>1. SUFFICES ASSUME NEW t \in Starts, starts'[t].mode = "terminal", starts'[t].prompt, starts'[t].proc # None
                 PROVE  LET got == procs'[starts'[t].proc].got IN
                        /\ starts'[t].pc = "ok" => got # <<>> /\ Head(got) = "prompt"
                        /\ starts'[t].pc # "ok" => got = <<>>
                        /\ \A i \in 2 .. Len(got) : got[i] # "prompt"
    BY DEF PromptGoesFirst
  <2>2. CASE t = s
    <3>1. procs'[starts'[t].proc].got = <<>> /\ starts'[t].pc = "waiting"
      BY <1>2, <2>1, <2>2
    <3>. QED
      BY <3>1
  <2>3. CASE t # s
    <3>1. /\ starts[t].mode = "terminal" /\ starts[t].prompt /\ starts[t].proc # None
          /\ starts'[t].proc = starts[t].proc /\ (starts'[t].pc = "ok" <=> starts[t].pc = "ok")
      BY <2>1, <2>3
    <3>2. procs'[starts'[t].proc] = procs[starts[t].proc]
      BY <1>1, <1>2, <3>1 DEF None
    <3>. QED
      BY <3>1, <3>2 DEF IInv, PromptGoesFirst
  <2>. QED
    BY <2>2, <2>3
<1>8. Pending'
  <2>1. \A t \in Starts \ {s} : starts'[t].proc # entry'.proc
    BY <1>1
  <2>. QED
    BY <2>1 DEF Pending
<1>9. Launched'
  <2>1. \A t \in Starts \ {s} : starts'[t].proc # starts'[s].proc
    BY <1>1
  <2>2. starts'[s].proc # None
    BY <1>1 DEF None
  <2>3. \A t, u \in Starts : starts'[t].proc = starts'[u].proc /\ starts'[t].proc # None => t = u
    BY <2>1 DEF IInv, Launched
  <2>4. ASSUME NEW t \in Starts
        PROVE  /\ starts'[t].pc \in {"idle", "queued", "preparing", "spawning"} => starts'[t].proc = None
               /\ starts'[t].pc \in {"waiting", "ready", "rejected", "submit", "cleanup"} => starts'[t].proc # None
               /\ starts'[t].pc = "prompting" => starts'[t].mode = "rpc"
    <3>1. CASE t = s
      BY <2>2, <3>1
    <3>2. CASE t # s
      BY <3>2 DEF IInv, Launched
    <3>. QED
      BY <3>1, <3>2
  <2>. QED
    BY <2>3, <2>4 DEF Launched
<1>10. Exclusive'
  <2>1. ASSUME NEW t \in Starts, starts'[t].pc \in {"preparing", "spawning"} PROVE FALSE
    <3>1. t # s /\ starts[t].pc \in {"preparing", "spawning"}
      BY <2>1
    <3>2. Task("start", t) = Task("start", s)
      BY <1>1, <3>1 DEF IInv, Exclusive
    <3>. QED
      BY <3>1, <3>2 DEF Task
  <2>. QED
    BY <2>1 DEF Exclusive
<1>11. QueuedOnce'
  <2>1. \A t \in Starts : starts[t].pc \in {"submit", "cleanup"} => starts'[t].pc = starts[t].pc
    OBVIOUS
  <2>. QED
    BY <1>1, <2>1, QueueStays, QueueLeft DEF Unlock
<1>. QED
  BY <1>5, <1>6, <1>7, <1>8, <1>9, <1>10, <1>11 DEF IInv

\* The steps of a start that stops what runs, up to its own process.
LEMMA BeginIInv == ASSUME IInv, NEW s \in Starts, BeginStart(s) PROVE IInv'
<1>. DEFINE settled == IF entry.proc = None THEN starts ELSE StartsStopped(starts, entry)
<1>1. /\ queue # <<>> /\ Head(queue) = Task("start", s) /\ starts[s].pc = "queued" /\ starts[s].proc = None
      /\ entry \in Entries /\ starts \in [Starts -> StartStates] /\ starts[s].mode \in Modes
  BY DEF BeginStart, Holds, IInv, Shape, Launched, StartStates
<1>2. /\ settled \in [Starts -> StartStates]
      /\ \A t \in Starts :
           /\ settled[t].proc = starts[t].proc /\ settled[t].mode = starts[t].mode
           /\ settled[t].prompt = starts[t].prompt
           /\ \/ settled[t].pc = starts[t].pc
              \/ starts[t].pc = "waiting" /\ settled[t].pc = "rejected"
              \/ starts[t].pc = "prompting" /\ settled[t].pc = "failed"
  BY <1>1, StartsStoppedShape DEF IInv
<1>3. starts' = [settled EXCEPT ![s].pc = "preparing"]
  BY DEF BeginStart
<1>. HIDE DEF settled
<1>4. /\ starts' \in [Starts -> StartStates] /\ starts'[s].pc = "preparing"
      /\ starts'[s].proc = None
      /\ \A t \in Starts \ {s} : starts'[t] = settled[t]
  BY <1>1, <1>2, <1>3 DEF StartStates, Pcs
<1>5. \A t \in Starts : starts'[t].proc = starts[t].proc /\ SameStart(t)
  BY <1>1, <1>2, <1>4 DEF SameStart
<1>6. /\ entry' \in Entries /\ entry'.proc = None
      /\ procs' \in ProcsStopped /\ left' = left /\ queue' = queue /\ queue' \in Seq(Tasks)
  <2>1. entry' = [Unlinked(entry) EXCEPT !.status = "active", !.mode = starts[s].mode]
    BY DEF BeginStart
  <2>2. entry' \in Entries /\ entry'.proc = None
    BY <1>1, <2>1, UnlinkedShape
  <2>. QED
    BY <2>2 DEF BeginStart, IInv, Shape
<1>7. Shape' /\ NoStrayProcess' /\ PromptGoesFirst' /\ Pending'
  BY <1>4, <1>5, <1>6, Stop
<1>8. Exclusive'
  <2>1. ASSUME NEW t \in Starts \ {s}, starts'[t].pc \in {"preparing", "spawning"} PROVE FALSE
    <3>1. starts[t].pc \in {"preparing", "spawning"}
      BY <1>2, <1>4, <2>1
    <3>. QED
      BY <1>1, <3>1 DEF IInv, Exclusive, Task
  <2>. QED
    BY <1>1, <1>6, <2>1 DEF Exclusive
<1>9. QueuedOnce'
  BY <1>1, <1>2, <1>4, <1>6, QueueStays
<1>10. Launched'
  <2>1. ASSUME NEW t \in Starts
        PROVE  /\ starts'[t].pc \in {"idle", "queued", "preparing", "spawning"} => starts[t].proc = None
               /\ starts'[t].pc \in {"waiting", "ready", "rejected", "submit", "cleanup"} => starts[t].proc # None
               /\ starts'[t].pc = "prompting" => starts'[t].mode = "rpc"
    <3>1. CASE t = s
      BY <1>1, <1>4, <3>1
    <3>2. CASE t # s
      BY <1>2, <1>4, <3>2 DEF IInv, Launched
    <3>. QED
      BY <3>1, <3>2
  <2>. QED
    BY <1>5, <2>1, LaunchedKept
<1>. QED
  BY <1>7, <1>8, <1>9, <1>10 DEF IInv

\* A start that fails, or that is answered, before it has let go of the lock.
LEMMA StartEndsIInv ==
    ASSUME IInv, NEW s \in Starts,
           PrepareStart(s) \/ FailToPrepare(s) \/ FailToSpawn(s) \/ AnswerPrompt(s) \/ LosePrompt(s)
    PROVE  IInv'
<1>1. /\ queue # <<>> /\ Head(queue) = Task("start", s) /\ queue \in Seq(Tasks)
      /\ starts[s].pc \in {"preparing", "spawning", "prompting"}
      /\ procs' = procs /\ left' = left
  BY DEF PrepareStart, FailToPrepare, FailToSpawn, AnswerPrompt, LosePrompt, Holds, IInv, Shape
<1>2. /\ starts[s].pc = "preparing" \/ starts[s].pc = "spawning" => entry.proc = None /\ starts[s].proc = None
      /\ starts[s].pc = "prompting" => starts[s].mode = "rpc"
  BY DEF IInv, Exclusive, Launched
<1>3. PICK pc \in {"spawning", "failed", "error", "ok"} :
        /\ starts' = [starts EXCEPT ![s].pc = pc]
        /\ pc = "spawning" => starts[s].pc = "preparing" /\ queue' = queue
        /\ pc = "failed" => queue' = queue
        /\ pc = "ok" => starts[s].pc = "prompting" /\ queue' = Unlock
        /\ pc = "error" => queue' = Unlock
  BY DEF PrepareStart, FailToPrepare, FailToSpawn, AnswerPrompt, LosePrompt
<1>4. /\ starts' \in [Starts -> StartStates]
      /\ \A t \in Starts :
           /\ starts'[t].proc = starts[t].proc /\ starts'[t].mode = starts[t].mode
           /\ starts'[t].prompt = starts[t].prompt
           /\ starts'[t].pc = IF t = s THEN pc ELSE starts[t].pc
  <2>1. pc \in Pcs
    BY DEF Pcs
  <2>. QED
    BY <1>3, <2>1, StartMoves DEF IInv
<1>5. \A t \in Starts : starts'[t].proc = starts[t].proc /\ SameStart(t)
  BY <1>1, <1>2, <1>3, <1>4 DEF SameStart
<1>6. /\ entry' \in Entries /\ entry'.proc = entry.proc /\ entry'.pending = entry.pending
  <2>1. CASE entry' = entry
    BY <2>1 DEF IInv, Shape
  <2>2. CASE PrepareStart(s)
    <3>1. PICK file \in {None, entry.file} :
            entry' = [entry EXCEPT !.file = file, !.nonce = Next_Launch, !.watch = (file # None),
                                   !.shown = (file # None)]
      BY <2>2 DEF PrepareStart
    <3>2. file \in Nat /\ Next_Launch \in Nat
      BY DEF IInv, Shape, Entries, None, Next_Launch
    <3>. QED
      BY <3>1, <3>2 DEF IInv, Shape, Entries
  <2>. QED
    BY <2>1, <2>2 DEF FailToPrepare, FailToSpawn, AnswerPrompt, LosePrompt
<1>7. queue' \in Seq(Tasks) /\ Exclusive' /\ QueuedOnce'
  <2>1. CASE queue' = queue /\ pc \in {"spawning", "failed"}
    <3>1. \A t \in Starts :
             /\ starts'[t].pc \in {"preparing", "spawning"} => starts[t].pc \in {"preparing", "spawning"}
             /\ starts[t].pc \in {"submit", "cleanup"} => starts'[t].pc = starts[t].pc
      BY <1>1, <1>3, <1>4, <2>1
    <3>. QED
      BY <1>6, <2>1, <3>1, LockStays
  <2>2. CASE queue' = Unlock /\ pc \in {"error", "ok"}
    <3>1. ASSUME NEW t \in Starts, t # s PROVE starts'[t].pc = starts[t].pc /\ Head(queue) # Task("start", t)
      BY <1>1, <1>4, <3>1 DEF Task
    <3>2. /\ starts'[s].pc \notin {"preparing", "spawning", "submit", "cleanup"}
          /\ starts[s].pc \notin {"submit", "cleanup"}
      BY <1>1, <1>4, <2>2
    <3>. QED
      BY <1>1, <1>6, <2>2, <3>1, <3>2, LockLeft
  <2>. QED
    BY <1>3, <2>1, <2>2
<1>8. Shape' /\ NoStrayProcess' /\ PromptGoesFirst' /\ Pending'
  BY <1>1, <1>4, <1>5, <1>6, <1>7, Quiet
<1>9. Launched'
  <2>1. ASSUME NEW t \in Starts
        PROVE  /\ starts'[t].pc \in {"idle", "queued", "preparing", "spawning"} => starts[t].proc = None
               /\ starts'[t].pc \in {"waiting", "ready", "rejected", "submit", "cleanup"} => starts[t].proc # None
               /\ starts'[t].pc = "prompting" => starts'[t].mode = "rpc"
    <3>1. CASE t = s
      BY <1>2, <1>3, <1>4, <3>1
    <3>2. CASE t # s
      BY <1>4, <3>2 DEF IInv, Launched
    <3>. QED
      BY <3>1, <3>2
  <2>. QED
    BY <1>5, <2>1, LaunchedKept
<1>. QED
  BY <1>7, <1>8, <1>9 DEF IInv

\* What is spawned is a process that got nothing yet.
LEMMA ProcessType ==
    ASSUME IInv, NEW mode \in Modes, NEW alive \in BOOLEAN
    PROVE  Process(mode, alive) \in Procs /\ Process(mode, alive).got = <<>>
<1>1. entry.file \in Nat /\ <<>> \in Seq(Texts)
  BY DEF IInv, Shape, Entries
<1>. QED
  BY <1>1 DEF Process, Procs

\* The two ways to spawn.
LEMMA SpawnIInv == ASSUME IInv, NEW s \in Starts, SpawnTerminal(s) \/ SpawnRpc(s) PROVE IInv'
<1>1. /\ Holds("start", s) /\ starts[s].pc = "spawning" /\ left' = left
      /\ entry \in Entries /\ starts \in [Starts -> StartStates] /\ Next_Launch = Len(procs) + 1
      /\ Next_Launch \in Nat
  <2>1. Len(procs) \in Nat /\ entry \in Entries /\ starts \in [Starts -> StartStates]
    BY DEF IInv, Shape
  <2>2. Holds("start", s) /\ starts[s].pc = "spawning" /\ left' = left
    BY DEF SpawnTerminal, SpawnRpc
  <2>. QED
    BY <2>1, <2>2 DEF Next_Launch
<1>2. CASE SpawnTerminal(s)
  <2>1. starts[s].mode = "terminal" /\ "terminal" \in Modes /\ TRUE \in BOOLEAN
    BY <1>2 DEF SpawnTerminal, Modes
  <2>2. procs' = Append(procs, Process("terminal", TRUE)) /\ queue' = Unlock
    BY <1>2 DEF SpawnTerminal
  <2>3. Process("terminal", TRUE) \in Procs /\ Process("terminal", TRUE).got = <<>>
    BY <2>1, ProcessType
  <2>4. /\ entry' \in Entries /\ entry'.proc = Len(procs) + 1
        /\ starts[s].prompt => entry'.pending = entry'.proc
    BY <1>1, <1>2 DEF SpawnTerminal, Entries, None
  <2>. DEFINE Moved(t) == IF t = s THEN [starts[s] EXCEPT !.proc = Next_Launch, !.pc = IF starts[s].prompt THEN "waiting" ELSE "ok"]
                          ELSE IF starts[s].prompt /\ starts[t].pc = "waiting" THEN [starts[t] EXCEPT !.pc = "rejected"]
                          ELSE starts[t]
  <2>5. starts' = [t \in Starts |-> Moved(t)]
    BY <1>2 DEF SpawnTerminal
  <2>6. /\ Moved(s) \in StartStates /\ Moved(s).proc = Next_Launch /\ Moved(s).mode = starts[s].mode
        /\ Moved(s).pc = IF starts[s].prompt THEN "waiting" ELSE "ok"
        /\ Moved(s).prompt = starts[s].prompt
    BY <1>1 DEF StartStates, Pcs
  <2>7. ASSUME NEW t \in Starts \ {s}
        PROVE  /\ Moved(t) \in StartStates /\ Moved(t).proc = starts[t].proc /\ Moved(t).mode = starts[t].mode
               /\ Moved(t).prompt = starts[t].prompt
               /\ Moved(t).pc = starts[t].pc \/ (starts[t].pc = "waiting" /\ Moved(t).pc = "rejected")
    BY <1>1 DEF StartStates, Pcs
  <2>. HIDE DEF Moved
  <2>8. starts' \in [Starts -> StartStates] /\ \A t \in Starts : starts'[t] = Moved(t)
    BY <2>5, <2>6, <2>7
  <2>9. /\ starts'[s].proc = Len(procs) + 1 /\ starts'[s].mode = starts[s].mode
        /\ starts'[s].pc \in {"waiting", "ok", "prompting"} /\ starts'[s].pc # "prompting"
        /\ starts'[s].prompt => starts'[s].pc = "waiting" /\ entry'.pending = entry'.proc
    BY <1>1, <2>4, <2>6, <2>8
  <2>10. \A t \in Starts \ {s} :
            /\ starts'[t].proc = starts[t].proc /\ starts'[t].mode = starts[t].mode
            /\ starts'[t].prompt = starts[t].prompt
            /\ starts'[t].pc = starts[t].pc \/ (starts[t].pc = "waiting" /\ starts'[t].pc = "rejected")
    BY <2>7, <2>8
  <2>11. queue' \in {queue, Unlock} /\ entry' \in Entries /\ entry'.proc = Len(procs) + 1
    BY <2>2, <2>4
  <2>. QED
    BY <1>1, <2>2, <2>3, <2>8, <2>9, <2>10, <2>11, Spawned
<1>3. CASE SpawnRpc(s)
  <2>1. PICK alive \in BOOLEAN : procs' = Append(procs, Process("rpc", alive))
    BY <1>3 DEF SpawnRpc
  <2>2. Process("rpc", alive) \in Procs /\ Process("rpc", alive).got = <<>>
    BY ProcessType DEF Modes
  <2>3. starts[s].mode = "rpc" /\ queue' \in {queue, Unlock} /\ entry' = [entry EXCEPT !.proc = Next_Launch]
    BY <1>3 DEF SpawnRpc
  <2>4. entry' \in Entries /\ entry'.proc = Len(procs) + 1
    BY <1>1, <2>3 DEF Entries
  <2>5. PICK pc \in {"prompting", "ok"} :
          starts' = [starts EXCEPT ![s] = [starts[s] EXCEPT !.proc = Next_Launch, !.pc = pc]]
    BY <1>3, <1>1 DEF SpawnRpc, StartStates
  <2>6. /\ starts' \in [Starts -> StartStates] /\ starts'[s].proc = Next_Launch
        /\ starts'[s].mode = starts[s].mode /\ starts'[s].pc = pc
        /\ \A t \in Starts \ {s} : starts'[t] = starts[t]
    BY <1>1, <2>5 DEF StartStates, Pcs
  <2>. QED
    BY <1>1, <2>1, <2>2, <2>3, <2>4, <2>6, Spawned
<1>. QED
  BY <1>2, <1>3

\* A stop by the holder of the lock, who may be a start that ends with an error.
LEMMA StopIInv ==
    ASSUME IInv, entry' \in Entries, entry'.proc = None, procs' \in ProcsStopped, left' = left,
           queue # <<>>, queue' = Unlock,
           \/ \E s \in Starts : /\ starts' = [StartsStopped(starts, entry) EXCEPT ![s].pc = "error"]
                                /\ \/ starts[s].pc = "failed" /\ Head(queue) = Task("start", s)
                                   \/ Head(queue) = Task("cleanup", s)
           \/ starts' = StartsStopped(starts, entry) /\ \A s \in Starts : Head(queue) # Task("start", s)
    PROVE  IInv'
<1>1. /\ StartsStopped(starts, entry) \in [Starts -> StartStates]
      /\ \A s \in Starts :
           LET settled == StartsStopped(starts, entry)[s] IN
           /\ settled.proc = starts[s].proc /\ settled.mode = starts[s].mode
           /\ settled.prompt = starts[s].prompt
           /\ \/ settled.pc = starts[s].pc
              \/ starts[s].pc = "waiting" /\ settled.pc = "rejected"
              \/ starts[s].pc = "prompting" /\ settled.pc = "failed"
  BY StartsStoppedShape DEF IInv, Shape
<1>2. /\ starts' \in [Starts -> StartStates]
      /\ \A t \in Starts :
           /\ starts'[t].proc = starts[t].proc /\ starts'[t].mode = starts[t].mode
           /\ starts'[t].prompt = starts[t].prompt
           /\ \/ starts'[t].pc = starts[t].pc /\ Head(queue) # Task("start", t)
              \/ starts[t].pc = "waiting" /\ starts'[t].pc = "rejected"
              \/ starts[t].pc = "prompting" /\ starts'[t].pc = "failed"
              \/ /\ starts'[t].pc = "error"
                 /\ starts[t].pc = "failed" \/ Head(queue) = Task("cleanup", t)
  <2>1. CASE starts' = StartsStopped(starts, entry) /\ \A s \in Starts : Head(queue) # Task("start", s)
    BY <1>1, <2>1
  <2>2. ASSUME NEW s \in Starts, starts' = [StartsStopped(starts, entry) EXCEPT ![s].pc = "error"],
               \/ starts[s].pc = "failed" /\ Head(queue) = Task("start", s)
               \/ Head(queue) = Task("cleanup", s)
        PROVE  <1>2!1 /\ <1>2!2
    <3>. DEFINE settled == StartsStopped(starts, entry)
    <3>1. settled \in [Starts -> StartStates]
      BY <1>1
    <3>. HIDE DEF settled
    <3>2. /\ starts' \in [Starts -> StartStates]
          /\ \A t \in Starts : t # s => starts'[t] = settled[t]
          /\ starts'[s].proc = settled[s].proc /\ starts'[s].mode = settled[s].mode
          /\ starts'[s].prompt = settled[s].prompt /\ starts'[s].pc = "error"
      BY <2>2, <3>1 DEF StartStates, Pcs, settled
    <3>3. \A t \in Starts : t # s => Head(queue) # Task("start", t)
      BY <2>2 DEF Task
    <3>. QED
      BY <1>1, <2>2, <3>2, <3>3 DEF settled
  <2>. QED
    BY <2>1, <2>2
<1>3. queue' \in Seq(Tasks) /\ Exclusive' /\ QueuedOnce'
  <2>1. \A s \in Starts :
          \/ starts'[s].pc = starts[s].pc /\ Head(queue) # Task("start", s)
          \/ {starts'[s].pc, starts[s].pc} \cap {"preparing", "spawning", "submit", "cleanup"} = {}
          \/ /\ starts'[s].pc \notin {"preparing", "spawning", "submit", "cleanup"}
             /\ Head(queue) = Task(starts[s].pc, s) \/ starts[s].pc \notin {"submit", "cleanup"}
    <3>1. ASSUME NEW s \in Starts, Head(queue) = Task("cleanup", s) PROVE starts[s].pc = "cleanup"
      <4>1. /\ queue \in Seq(Tasks) /\ Len(queue) \in Nat /\ Len(queue) > 0 /\ Head(queue) = queue[1]
        BY DEF IInv, Shape
      <4>. QED
        BY <3>1, <4>1 DEF IInv, QueuedOnce, Task
    <3>. QED
      BY <1>2, <3>1
  <2>. QED
    BY <2>1, LockLeft
<1>4. \A t \in Starts : starts'[t].proc = starts[t].proc /\ SameStart(t)
  <2>1. ASSUME NEW s \in Starts, Head(queue) = Task("cleanup", s) PROVE starts[s].pc = "cleanup"
    <3>1. /\ queue \in Seq(Tasks) /\ Len(queue) \in Nat /\ Len(queue) > 0 /\ Head(queue) = queue[1]
      BY DEF IInv, Shape
    <3>. QED
      BY <2>1, <3>1 DEF IInv, QueuedOnce, Task
  <2>. QED
    BY <1>2, <2>1 DEF SameStart
<1>5. Shape' /\ NoStrayProcess' /\ PromptGoesFirst' /\ Pending'
  BY <1>2, <1>3, <1>4, Stop
<1>6. Launched'
  <2>1. \A t \in Starts :
          /\ starts'[t].pc \in {"idle", "queued", "preparing", "spawning"} => starts[t].proc = None
          /\ starts'[t].pc \in {"waiting", "ready", "rejected", "submit", "cleanup"} => starts[t].proc # None
          /\ starts'[t].pc = "prompting" => starts'[t].mode = "rpc"
    BY <1>2 DEF IInv, Launched
  <2>. QED
    BY <1>2, <2>1, LaunchedKept
<1>. QED
  BY <1>3, <1>5, <1>6 DEF IInv

\* Whoever submits or cleans up under the lock is where the queue says.
LEMMA HeadIsQueued ==
    ASSUME IInv, NEW s \in Starts, NEW op \in {"submit", "cleanup"}, Holds(op, s)
    PROVE  queue # <<>> /\ Head(queue) = Task(op, s) /\ starts[s].pc = op /\ starts[s].proc # None
<1>1. queue \in Seq(Tasks) /\ queue # <<>> /\ Head(queue) = Task(op, s)
  BY DEF Holds, IInv, Shape
<1>2. 1 \in 1 .. Len(queue) /\ Head(queue) = queue[1]
  BY <1>1
<1>3. starts[s].pc = op
  BY <1>1, <1>2 DEF IInv, QueuedOnce, Task
<1>. QED
  BY <1>1, <1>3 DEF IInv, Launched

\* A holder leaves the lock with nothing done but where its start is, or what is shown.
LEMMA LeaveIInv ==
    ASSUME IInv, entry' \in Entries, entry'.proc = entry.proc, entry'.pending = entry.pending,
           procs' = procs, left' = left, queue # <<>>, queue' = Unlock,
           starts' \in [Starts -> StartStates],
           \A s \in Starts :
              /\ starts'[s].proc = starts[s].proc /\ starts'[s].mode = starts[s].mode
              /\ starts'[s].prompt = starts[s].prompt
              /\ Head(queue) # Task("start", s)
              /\ \/ starts'[s].pc = starts[s].pc
                 \/ starts[s].pc = "waiting" /\ starts'[s].pc = "ready"
                 \/ /\ starts[s].pc \in {"submit", "cleanup"} /\ starts'[s].pc \in {"rejected", "error"}
                    /\ Head(queue) = Task(starts[s].pc, s)
    PROVE  IInv'
<1>1. queue' \in Seq(Tasks) /\ Exclusive' /\ QueuedOnce'
  <2>1. \A s \in Starts :
          \/ starts'[s].pc = starts[s].pc /\ Head(queue) # Task("start", s)
          \/ {starts'[s].pc, starts[s].pc} \cap {"preparing", "spawning", "submit", "cleanup"} = {}
          \/ /\ starts'[s].pc \notin {"preparing", "spawning", "submit", "cleanup"}
             /\ Head(queue) = Task(starts[s].pc, s) \/ starts[s].pc \notin {"submit", "cleanup"}
    OBVIOUS
  <2>. QED
    BY <2>1, LockLeft
<1>2. \A s \in Starts : starts'[s].proc = starts[s].proc /\ SameStart(s)
  BY DEF SameStart
<1>3. Shape' /\ NoStrayProcess' /\ PromptGoesFirst' /\ Pending'
  BY <1>1, <1>2, Quiet
<1>4. Launched'
  <2>1. \A s \in Starts :
          /\ starts'[s].pc \in {"idle", "queued", "preparing", "spawning"} => starts[s].proc = None
          /\ starts'[s].pc \in {"waiting", "ready", "rejected", "submit", "cleanup"} => starts[s].proc # None
          /\ starts'[s].pc = "prompting" => starts'[s].mode = "rpc"
    BY DEF IInv, Launched
  <2>. QED
    BY <2>1, LaunchedKept
<1>. QED
  BY <1>1, <1>3, <1>4 DEF IInv

\* The catch of a start, which stops the process it spawned, if it did.
LEMMA CatchIInv == ASSUME IInv, NEW s \in Starts, CatchStart(s) PROVE IInv'
<1>1. entry \in Entries
  BY DEF IInv, Shape
<1>2. entry' \in Entries /\ entry'.proc = None
  <2>1. CASE entry.proc # None
    BY <1>1, <2>1, UnlinkedShape DEF CatchStart, AfterCatch
  <2>2. CASE entry.proc = None
    BY <1>1, <2>2 DEF CatchStart, AfterCatch, Entries, None
  <2>. QED
    BY <2>1, <2>2
<1>3. /\ procs' \in ProcsStopped /\ left' = left /\ queue' = Unlock
      /\ starts' = [StartsStopped(starts, entry) EXCEPT ![s].pc = "error"]
      /\ queue # <<>> /\ starts[s].pc = "failed" /\ Head(queue) = Task("start", s)
  BY DEF CatchStart, Holds
<1>. QED
  BY <1>2, <1>3, StopIInv

\* The second phase of a terminal start, but for its submission.
LEMMA SecondPhaseIInv ==
    ASSUME IInv, NEW s \in Starts, TimeOutReadiness(s) \/ Resume(s) \/ SubmitFails(s) \/ CleanUp(s)
    PROVE  IInv'
<1>a. queue \in Seq(Tasks) /\ starts \in [Starts -> StartStates] /\ entry \in Entries
  BY DEF IInv, Shape
<1>1. CASE TimeOutReadiness(s)
  <2>1. /\ starts[s].pc = "waiting" /\ starts' = [starts EXCEPT ![s].pc = "rejected"]
        /\ UNCHANGED <<entry, queue, procs, left>>
    BY <1>1 DEF TimeOutReadiness
  <2>2. /\ starts' \in [Starts -> StartStates]
        /\ \A t \in Starts :
             /\ starts'[t].proc = starts[t].proc /\ starts'[t].mode = starts[t].mode
             /\ starts'[t].prompt = starts[t].prompt
             /\ starts'[t].pc = IF t = s THEN "rejected" ELSE starts[t].pc
    BY <2>1, StartMoves DEF IInv, Pcs
  <2>3. \A t \in Starts : starts'[t].proc = starts[t].proc /\ SameStart(t)
    BY <2>1, <2>2 DEF SameStart
  <2>4. queue' \in Seq(Tasks) /\ Exclusive' /\ QueuedOnce'
    BY <2>1, <2>2, LockStays
  <2>5. Shape' /\ NoStrayProcess' /\ PromptGoesFirst' /\ Pending'
    BY <1>a, <2>1, <2>2, <2>3, <2>4, Quiet
  <2>6. Launched'
    BY <2>1, <2>2, LaunchedKept DEF IInv, Launched
  <2>. QED
    BY <2>4, <2>5, <2>6 DEF IInv
<1>2. CASE Resume(s)
  <2>1. PICK op \in {"submit", "cleanup"} :
          /\ starts' = [starts EXCEPT ![s].pc = op] /\ queue' = Append(queue, Task(op, s))
          /\ starts[s].pc \in {"ready", "rejected"} /\ UNCHANGED <<entry, procs, left>>
    BY <1>2 DEF Resume
  <2>2. /\ starts' \in [Starts -> StartStates]
        /\ \A t \in Starts :
             /\ starts'[t].proc = starts[t].proc /\ starts'[t].mode = starts[t].mode
             /\ starts'[t].prompt = starts[t].prompt
             /\ starts'[t].pc = IF t = s THEN op ELSE starts[t].pc
    <3>1. op \in Pcs
      BY DEF Pcs
    <3>. QED
      BY <2>1, <3>1, StartMoves DEF IInv
  <2>3. \A t \in Starts : starts'[t].proc = starts[t].proc /\ SameStart(t)
    BY <2>1, <2>2 DEF SameStart
  <2>4. Task(op, s) \in Tasks /\ Task(op, s).op = op /\ Task(op, s).id = s
    BY DEF Task, Tasks, Ops, Starts
  <2>5. queue' \in Seq(Tasks)
    BY <1>a, <2>1, <2>4
  <2>6. Exclusive'
    BY <2>1, <2>2, <2>4, <2>5, ExclusiveKept
  <2>7. QueuedOnce'
    BY <2>1, <2>2, <2>4, QueueJoined
  <2>8. Shape' /\ NoStrayProcess' /\ PromptGoesFirst' /\ Pending'
    BY <1>a, <2>1, <2>2, <2>3, <2>5, Quiet
  <2>9. Launched'
    BY <2>1, <2>2, LaunchedKept DEF IInv, Launched
  <2>. QED
    BY <2>6, <2>7, <2>8, <2>9 DEF IInv
<1>3. ASSUME NEW op \in {"submit", "cleanup"}, NEW pc \in {"rejected", "error"}, Holds(op, s),
             starts' = [starts EXCEPT ![s].pc = pc], queue' = Unlock, UNCHANGED <<entry, procs, left>>
      PROVE  IInv'
  <2>1. queue # <<>> /\ Head(queue) = Task(op, s) /\ starts[s].pc = op
    BY <1>3, HeadIsQueued
  <2>2. /\ starts' \in [Starts -> StartStates]
        /\ \A t \in Starts :
             /\ starts'[t].proc = starts[t].proc /\ starts'[t].mode = starts[t].mode
             /\ starts'[t].prompt = starts[t].prompt
             /\ starts'[t].pc = IF t = s THEN pc ELSE starts[t].pc
    <3>1. pc \in Pcs
      BY DEF Pcs
    <3>. QED
      BY <1>3, <3>1, StartMoves DEF IInv
  <2>3. \A t \in Starts : Head(queue) # Task("start", t)
    BY <2>1 DEF Task
  <2>. QED
    BY <1>3, <1>a, <2>1, <2>2, <2>3, LeaveIInv
<1>4. CASE SubmitFails(s)
  BY <1>3, <1>4 DEF SubmitFails
<1>5. CASE CleanUp(s)
  <2>1. CASE IsCurrent(s)
    <3>1. entry' = [Unlinked(entry) EXCEPT !.status = "new"]
      BY <1>5, <2>1 DEF CleanUp
    <3>2. entry' \in Entries /\ entry'.proc = None
      BY <1>a, <3>1, UnlinkedShape
    <3>3. queue # <<>> /\ Head(queue) = Task("cleanup", s)
      BY <1>5, HeadIsQueued DEF CleanUp
    <3>4. /\ procs' \in ProcsStopped /\ left' = left /\ queue' = Unlock
          /\ starts' = [StartsStopped(starts, entry) EXCEPT ![s].pc = "error"]
      BY <1>5, <2>1 DEF CleanUp
    <3>. QED
      BY <3>2, <3>3, <3>4, StopIInv
  <2>2. CASE ~IsCurrent(s)
    BY <1>3, <1>5, <2>2 DEF CleanUp
  <2>. QED
    BY <2>1, <2>2
<1>. QED
  BY <1>1, <1>2, <1>4, <1>5

\* What a process gets goes to the end of what it got.
LEMMA Gets ==
    ASSUME IInv, NEW text \in Texts, entry.proc # None,
           procs' = [procs EXCEPT ![entry.proc].got = Append(@, text)]
    PROVE  /\ entry.proc \in 1 .. Len(procs) /\ procs' \in Seq(Procs) /\ Len(procs') = Len(procs)
           /\ procs[entry.proc].got \in Seq(Texts)
           /\ procs'[entry.proc].got = Append(procs[entry.proc].got, text)
           /\ \A l \in 1 .. Len(procs) :
                /\ l # entry.proc => procs'[l] = procs[l]
                /\ procs'[l].alive = procs[l].alive /\ procs'[l].signalled = procs[l].signalled
<1>. DEFINE p == [procs[entry.proc] EXCEPT !.got = Append(procs[entry.proc].got, text)]
<1>1. entry.proc \in 1 .. Len(procs) /\ procs \in Seq(Procs)
  BY DEF IInv, Shape, None
<1>2. procs[entry.proc] \in Procs /\ procs[entry.proc].got \in Seq(Texts)
  <2>1. procs[entry.proc] \in Procs
    BY <1>1
  <2>. QED
    BY <2>1 DEF Procs
<1>3. Append(procs[entry.proc].got, text) \in Seq(Texts)
  BY <1>2
<1>4. /\ p \in Procs /\ p.got = Append(procs[entry.proc].got, text)
      /\ p.alive = procs[entry.proc].alive /\ p.signalled = procs[entry.proc].signalled
  BY <1>2, <1>3 DEF Procs
<1>5. procs' = [procs EXCEPT ![entry.proc] = p]
  BY <1>1
<1>. HIDE DEF p
<1>6. /\ procs' \in Seq(Procs) /\ Len(procs') = Len(procs)
      /\ \A m \in 1 .. Len(procs) : procs'[m] = IF m = entry.proc THEN p ELSE procs[m]
  BY <1>1, <1>4, <1>5, ProcChanges DEF IInv
<1>. QED
  BY <1>1, <1>2, <1>4, <1>6

\* The prompt goes into a process that got nothing, for nothing was accepted before it.
LEMMA SubmitIInv == ASSUME IInv, NEW s \in Starts, SubmitPrompt(s) PROVE IInv'
<1>1. /\ queue # <<>> /\ Head(queue) = Task("submit", s) /\ starts[s].pc = "submit"
      /\ starts[s].proc # None /\ entry.proc = starts[s].proc
  <2>1. Holds("submit", s)
    BY DEF SubmitPrompt
  <2>. QED
    BY <2>1, HeadIsQueued DEF SubmitPrompt, IsCurrent
<1>2. /\ entry' = [entry EXCEPT !.pending = None, !.shown = TRUE] /\ queue' = Unlock /\ left' = left
      /\ starts' = [starts EXCEPT ![s].pc = "ok"]
      /\ procs' = [procs EXCEPT ![entry.proc].got = Append(@, "prompt")]
  BY DEF SubmitPrompt
<1>3. /\ entry.proc \in 1 .. Len(procs) /\ procs' \in Seq(Procs) /\ Len(procs') = Len(procs)
      /\ procs[entry.proc].got \in Seq(Texts)
      /\ procs'[entry.proc].got = Append(procs[entry.proc].got, "prompt")
      /\ \A l \in 1 .. Len(procs) :
           /\ l # entry.proc => procs'[l] = procs[l]
           /\ procs'[l].alive = procs[l].alive /\ procs'[l].signalled = procs[l].signalled
  BY <1>1, <1>2, Gets DEF Texts
<1>4. /\ starts' \in [Starts -> StartStates]
      /\ \A t \in Starts :
           /\ starts'[t].proc = starts[t].proc /\ starts'[t].mode = starts[t].mode
           /\ starts'[t].prompt = starts[t].prompt
           /\ starts'[t].pc = IF t = s THEN "ok" ELSE starts[t].pc
  BY <1>2, StartMoves DEF IInv, Pcs
<1>5. entry' \in Entries /\ entry'.proc = entry.proc
  BY <1>2 DEF IInv, Shape, Entries, None
<1>6. queue' \in Seq(Tasks) /\ Exclusive' /\ QueuedOnce'
  <2>1. \A t \in Starts \ {s} : starts'[t].pc = starts[t].pc /\ Head(queue) # Task("start", t)
    BY <1>1, <1>4 DEF Task
  <2>2. /\ starts'[s].pc \notin {"preparing", "spawning", "submit", "cleanup"}
        /\ Head(queue) = Task(starts[s].pc, s)
    BY <1>1, <1>4
  <2>. QED
    BY <1>1, <1>2, <1>5, <2>1, <2>2, LockLeft
<1>7. Shape'
  BY <1>2, <1>3, <1>4, <1>5, <1>6 DEF IInv, Shape
<1>8. NoStrayProcess'
  <2>1. DOMAIN procs' = 1 .. Len(procs) /\ DOMAIN procs = 1 .. Len(procs)
    BY <1>3 DEF IInv, Shape
  <2>. QED
    BY <1>3, <1>5, <2>1 DEF IInv, NoStrayProcess
<1>9. \A t \in Starts \ {s} : starts[t].proc # entry.proc
  BY <1>1 DEF IInv, Launched
<1>10. PromptGoesFirst'
  <2>1. SUFFICES ASSUME NEW t \in Starts, starts'[t].mode = "terminal", starts'[t].prompt, starts'[t].proc # None
                 PROVE  LET got == procs'[starts'[t].proc].got IN
                        /\ starts'[t].pc = "ok" => got # <<>> /\ Head(got) = "prompt"
                        /\ starts'[t].pc # "ok" => got = <<>>
                        /\ \A i \in 2 .. Len(got) : got[i] # "prompt"
    BY DEF PromptGoesFirst
  <2>2. CASE t = s
    <3>1. procs[entry.proc].got = <<>>
      BY <1>1, <1>4, <2>1, <2>2 DEF IInv, PromptGoesFirst
    <3>2. procs'[starts'[t].proc].got = <<"prompt">> /\ starts'[t].pc = "ok"
      BY <1>1, <1>3, <1>4, <2>2, <3>1
    <3>. QED
      BY <3>2
  <2>3. CASE t # s
    <3>1. /\ starts[t].mode = "terminal" /\ starts[t].prompt /\ starts[t].proc # None
          /\ starts'[t].proc = starts[t].proc /\ starts'[t].pc = starts[t].pc
      BY <1>4, <2>1, <2>3
    <3>2. procs'[starts'[t].proc] = procs[starts[t].proc]
      BY <1>3, <1>9, <2>3, <3>1 DEF None, IInv, Shape
    <3>. QED
      BY <3>1, <3>2 DEF IInv, PromptGoesFirst
  <2>. QED
    BY <2>2, <2>3
<1>11. Pending'
  BY <1>4, <1>5, <1>9 DEF Pending
<1>12. Launched'
  BY <1>1, <1>4, LaunchedKept DEF IInv, Launched
<1>. QED
  BY <1>6, <1>7, <1>8, <1>10, <1>11, <1>12 DEF IInv

\* Input is only accepted after the prompt.
LEMMA WriteIInv == ASSUME IInv, Write PROVE IInv'
<1>1. /\ entry.proc # None /\ entry.pending # entry.proc
      /\ procs' = [procs EXCEPT ![entry.proc].got = Append(@, "input")]
      /\ UNCHANGED <<entry, queue, starts>>
  BY DEF Write, AcceptsInput
<1>2. /\ entry.proc \in 1 .. Len(procs) /\ procs' \in Seq(Procs) /\ Len(procs') = Len(procs)
      /\ procs[entry.proc].got \in Seq(Texts)
      /\ procs'[entry.proc].got = Append(procs[entry.proc].got, "input")
      /\ \A l \in 1 .. Len(procs) :
           /\ l # entry.proc => procs'[l] = procs[l]
           /\ procs'[l].alive = procs[l].alive /\ procs'[l].signalled = procs[l].signalled
  BY <1>1, Gets DEF Texts
<1>3. left' \in Left
  <2>1. left' = [left EXCEPT !.inputs = left.inputs - 1] /\ left.inputs > 0
    BY DEF Write, Use
  <2>2. left \in Left /\ left.inputs - 1 \in Nat
    BY <2>1 DEF IInv, Shape, Left
  <2>. QED
    BY <2>1, <2>2 DEF Left
<1>4. Shape'
  BY <1>1, <1>2, <1>3 DEF IInv, Shape
<1>5. NoStrayProcess'
  <2>1. DOMAIN procs' = 1 .. Len(procs) /\ DOMAIN procs = 1 .. Len(procs)
    BY <1>2 DEF IInv, Shape
  <2>. QED
    BY <1>1, <1>2, <2>1 DEF IInv, NoStrayProcess
<1>6. PromptGoesFirst'
  <2>1. SUFFICES ASSUME NEW t \in Starts, starts[t].mode = "terminal", starts[t].prompt, starts[t].proc # None
                 PROVE  LET got == procs'[starts[t].proc].got IN
                        /\ starts[t].pc = "ok" => got # <<>> /\ Head(got) = "prompt"
                        /\ starts[t].pc # "ok" => got = <<>>
                        /\ \A i \in 2 .. Len(got) : got[i] # "prompt"
    BY <1>1 DEF PromptGoesFirst
  <2>2. CASE starts[t].proc = entry.proc
    <3>. DEFINE got == procs[entry.proc].got
                got1 == procs'[entry.proc].got
    <3>1. starts[t].pc = "ok"
      BY <1>1, <2>1, <2>2 DEF IInv, Pending
    <3>2. got # <<>> /\ Head(got) = "prompt" /\ (\A i \in 2 .. Len(got) : got[i] # "prompt") /\ got \in Seq(Texts)
      BY <1>2, <2>1, <2>2, <3>1 DEF IInv, PromptGoesFirst
    <3>3. /\ got1 # <<>> /\ Len(got1) = Len(got) + 1 /\ got1[Len(got) + 1] = "input"
          /\ \A i \in 1 .. Len(got) : got1[i] = got[i]
      <4>1. got1 = Append(got, "input") /\ "input" \in Texts
        BY <1>2 DEF Texts
      <4>. HIDE DEF got, got1
      <4>. QED
        BY <3>2, <4>1, AppendProperties
    <3>. HIDE DEF got, got1
    <3>4. Head(got1) = "prompt"
      BY <3>2, <3>3
    <3>5. \A i \in 2 .. Len(got1) : got1[i] # "prompt"
      BY <3>2, <3>3
    <3>. QED
      BY <2>2, <3>1, <3>3, <3>4, <3>5 DEF got1
  <2>3. CASE starts[t].proc # entry.proc
    <3>1. procs'[starts[t].proc] = procs[starts[t].proc]
      BY <1>2, <2>1, <2>3 DEF IInv, Shape, None
    <3>. QED
      BY <2>1, <3>1 DEF IInv, PromptGoesFirst
  <2>. QED
    BY <2>2, <2>3
<1>. QED
  BY <1>1, <1>4, <1>5, <1>6 DEF IInv, Exclusive, QueuedOnce, Launched, Pending

\* The lifecycle calls stop the process, or have nothing to stop.
LEMMA LifecycleIInv == ASSUME IInv, Hibernate \/ Remove \/ NotifyPromptSubmitted PROVE IInv'
<1>1. entry \in Entries /\ starts \in [Starts -> StartStates]
  BY DEF IInv, Shape
<1>2. /\ queue # <<>> /\ queue' = Unlock /\ left' = left
      /\ \A s \in Starts : Head(queue) # Task("start", s)
  BY DEF Hibernate, Remove, NotifyPromptSubmitted, Holds, Task
<1>3. CASE entry' \in Entries /\ entry'.proc = None /\ procs' \in ProcsStopped /\ starts' = StartsStopped(starts, entry)
  BY <1>2, <1>3, StopIInv
<1>4. CASE UNCHANGED <<entry, starts, procs>>
  BY <1>1, <1>2, <1>4, LeaveIInv
<1>5. CASE Hibernate
  <2>1. [Unlinked(entry) EXCEPT !.status = "dormant"] \in Entries
        /\ [Unlinked(entry) EXCEPT !.status = "dormant"].proc = None
    BY <1>1, UnlinkedShape
  <2>. QED
    BY <1>3, <1>4, <1>5, <2>1 DEF Hibernate, StopEntry
<1>6. CASE Remove
  <2>1. Absent \in Entries /\ Absent.proc = None
    BY DEF Absent, Entries, Modes, None
  <2>. QED
    BY <1>3, <1>4, <1>6, <2>1 DEF Remove, StopEntry
<1>7. CASE NotifyPromptSubmitted
  <2>1. entry' \in Entries /\ entry'.proc = entry.proc /\ entry'.pending = entry.pending
    BY <1>1, <1>7 DEF NotifyPromptSubmitted, Entries
  <2>2. starts' = starts /\ procs' = procs
    BY <1>7 DEF NotifyPromptSubmitted
  <2>. QED
    BY <1>1, <1>2, <2>1, <2>2, LeaveIInv
<1>. QED
  BY <1>5, <1>6, <1>7

\* A refresh keeps its place at the head of the queue while it reads.
LEMMA RefreshIInv == ASSUME IInv, NEW launch \in DOMAIN procs, Refresh(launch) \/ ApplyRefresh(launch) PROVE IInv'
<1>1. /\ entry \in Entries /\ starts \in [Starts -> StartStates] /\ queue \in Seq(Tasks)
      /\ procs[launch] \in Procs /\ launch \in Nat
  BY DEF IInv, Shape
<1>2. /\ queue # <<>> /\ left' = left /\ procs' = procs /\ Head(queue) \in {Task("refresh", launch), Task("reading", launch)}
      /\ \A s \in Starts : Head(queue) # Task("start", s)
  BY DEF Refresh, ApplyRefresh, Holds, Task
<1>3. CASE Refresh(launch)
  <2>1. CASE queue' = Unlock
    BY <1>1, <1>2, <1>3, <2>1, LeaveIInv DEF Refresh
  <2>2. CASE queue' = <<Task("reading", launch)>> \o Tail(queue)
    <3>1. UNCHANGED <<entry, starts, procs, left>>
      BY <1>3 DEF Refresh
    <3>2. Task("reading", launch) \in Tasks /\ Tail(queue) \in Seq(Tasks) /\ Len(queue) \in Nat /\ Len(queue) > 0
      BY <1>1, <1>2 DEF Task, Tasks, Ops
    <3>3. /\ queue' \in Seq(Tasks) /\ Len(queue') = Len(queue) /\ queue'[1] = Task("reading", launch)
          /\ \A i \in 2 .. Len(queue) : queue'[i] = queue[i]
      BY <1>1, <1>2, <2>2, <3>2
    <3>4. Exclusive'
      BY <1>2, <3>1 DEF IInv, Exclusive
    <3>5. QueuedOnce'
      <4>1. queue'[1].op = "reading"
        BY <3>3 DEF Task
      <4>2. \A i \in 1 .. Len(queue') : i = 1 \/ i \in 2 .. Len(queue)
        BY <3>2, <3>3
      <4>3. \A i \in 1 .. Len(queue') : queue'[i].op \in {"submit", "cleanup"} =>
               i \in 2 .. Len(queue) /\ i \in 1 .. Len(queue) /\ queue'[i] = queue[i]
        BY <3>2, <3>3, <4>1, <4>2
      <4>. QED
        BY <3>1, <3>3, <4>3 DEF IInv, QueuedOnce
    <3>6. Shape'
      BY <3>1, <3>3 DEF IInv, Shape
    <3>. QED
      BY <3>1, <3>4, <3>5, <3>6 DEF IInv, Launched, Pending, NoStrayProcess, PromptGoesFirst
  <2>. QED
    BY <1>3, <2>1, <2>2 DEF Refresh
<1>4. CASE ApplyRefresh(launch)
  <2>1. queue' = Unlock
    BY <1>4 DEF ApplyRefresh
  <2>2. CASE SameNonce(launch)
    <3>. DEFINE file == procs[launch].file
                Told(s) == IF starts[s].pc = "waiting" /\ starts[s].proc = launch /\ entry.proc = launch
                           THEN [starts[s] EXCEPT !.pc = "ready"] ELSE starts[s]
    <3>1. starts' = [s \in Starts |-> Told(s)]
      BY <1>4, <2>2 DEF ApplyRefresh
    <3>2. ASSUME NEW s \in Starts
          PROVE  /\ Told(s) \in StartStates
                 /\ Told(s).proc = starts[s].proc /\ Told(s).mode = starts[s].mode
                 /\ Told(s).prompt = starts[s].prompt
                 /\ Told(s).pc = starts[s].pc \/ (starts[s].pc = "waiting" /\ Told(s).pc = "ready")
      BY <1>1 DEF StartStates, Pcs
    <3>3. entry' = [entry EXCEPT !.file = file, !.shown = TRUE,
                                 !.watch = IF file = entry.file THEN entry.watch ELSE file # None]
      BY <1>4, <2>2 DEF ApplyRefresh
    <3>4. entry' \in Entries /\ entry'.proc = entry.proc /\ entry'.pending = entry.pending
      BY <1>1, <3>3 DEF Entries, Procs
    <3>. HIDE DEF Told
    <3>5. starts' \in [Starts -> StartStates] /\ \A s \in Starts : starts'[s] = Told(s)
      BY <3>1, <3>2
    <3>. QED
      BY <1>2, <2>1, <3>2, <3>4, <3>5, LeaveIInv
  <2>3. CASE ~SameNonce(launch)
    BY <1>1, <1>2, <1>4, <2>1, <2>3, LeaveIInv DEF ApplyRefresh
  <2>. QED
    BY <2>2, <2>3
<1>. QED
  BY <1>3, <1>4

\* What a process does by itself, and what is told of it.
LEMMA ProcessIInv ==
    ASSUME IInv, NEW launch \in DOMAIN procs,
           Report(launch) \/ Die(launch) \/ HearExit(launch) \/ ForceKill(launch)
    PROVE  IInv'
<1>1. /\ launch \in 1 .. Len(procs) /\ procs[launch] \in Procs /\ procs[launch].file \in Nat /\ launch \in Nat
      /\ queue \in Seq(Tasks) /\ starts \in [Starts -> StartStates] /\ entry \in Entries
  <2>1. launch \in 1 .. Len(procs) /\ procs[launch] \in Procs
    BY DEF IInv, Shape
  <2>. QED
    BY <2>1 DEF IInv, Shape, Procs
<1>2. queue' = queue /\ left' = left
  BY DEF Report, Die, HearExit, ForceKill
<1>3. PICK p \in Procs :
        /\ procs' = [procs EXCEPT ![launch] = p] /\ p.got = procs[launch].got
        /\ p.signalled = procs[launch].signalled
        /\ p.alive => procs[launch].alive
        /\ HearExit(launch) => ~p.alive
  <2>1. CASE Report(launch)
    <3>1. PICK file \in {procs[launch].file, launch} :
            procs' = [procs EXCEPT ![launch].ready = TRUE, ![launch].file = file]
      BY <2>1 DEF Report
    <3>. DEFINE p == [procs[launch] EXCEPT !.ready = TRUE, !.file = file]
    <3>2. p \in Procs /\ p.got = procs[launch].got /\ p.signalled = procs[launch].signalled /\ p.alive = procs[launch].alive
      BY <1>1 DEF Procs
    <3>3. procs' = [procs EXCEPT ![launch] = p]
      BY <1>1, <3>1 DEF Procs
    <3>. QED
      BY <2>1, <3>2, <3>3 DEF Report, HearExit
  <2>2. CASE Die(launch) \/ ForceKill(launch)
    <3>. DEFINE p == [procs[launch] EXCEPT !.alive = FALSE, !.timer = FALSE]
    <3>1. p \in Procs /\ p.got = procs[launch].got /\ p.signalled = procs[launch].signalled /\ ~p.alive
      BY <1>1 DEF Procs
    <3>2. procs' = [procs EXCEPT ![launch] = p]
      BY <1>1, <2>2 DEF Procs, Die, ForceKill
    <3>. QED
      BY <3>1, <3>2
  <2>3. CASE HearExit(launch)
    <3>. DEFINE p == [procs[launch] EXCEPT !.told = TRUE]
    <3>1. p \in Procs /\ p.got = procs[launch].got /\ p.signalled = procs[launch].signalled /\ ~p.alive
      BY <1>1, <2>3 DEF Procs, HearExit
    <3>2. procs' = [procs EXCEPT ![launch] = p]
      BY <1>1, <2>3 DEF Procs, HearExit
    <3>. QED
      BY <3>1, <3>2
  <2>. QED
    BY <2>1, <2>2, <2>3
<1>4. /\ procs' \in Seq(Procs) /\ Len(procs') = Len(procs)
      /\ \A m \in 1 .. Len(procs) : procs'[m] = IF m = launch THEN p ELSE procs[m]
  BY <1>1, <1>3, ProcChanges DEF IInv
<1>5. /\ entry' \in Entries
      /\ (entry' = entry /\ starts' = starts)
         \/ (HearExit(launch) /\ entry'.proc = None /\ entry.proc = launch /\ starts' = StartsStopped(starts, entry))
  <2>1. CASE HearExit(launch)
    BY <1>1, <2>1, UnlinkedShape DEF HearExit
  <2>2. CASE Report(launch) \/ Die(launch) \/ ForceKill(launch)
    BY <1>1, <2>2 DEF Report, Die, ForceKill
  <2>. QED
    BY <2>1, <2>2
<1>6. /\ starts' \in [Starts -> StartStates]
      /\ \A s \in Starts :
           /\ starts'[s].proc = starts[s].proc /\ starts'[s].mode = starts[s].mode
           /\ starts'[s].prompt = starts[s].prompt
           /\ \/ starts'[s].pc = starts[s].pc
              \/ starts[s].pc = "waiting" /\ starts'[s].pc = "rejected"
              \/ starts[s].pc = "prompting" /\ starts'[s].pc = "failed"
  BY <1>1, <1>5, StartsStoppedShape DEF IInv
<1>7. \A s \in Starts : starts'[s].proc = starts[s].proc /\ SameStart(s)
  BY <1>6 DEF SameStart
<1>8. \/ entry'.proc = entry.proc /\ entry'.pending = entry.pending
      \/ entry'.proc = None
  BY <1>5
<1>9. \A l \in 1 .. Len(procs) :
        /\ procs'[l].got = procs[l].got
        /\ procs'[l].alive /\ ~procs'[l].signalled =>
              procs[l].alive /\ ~procs[l].signalled /\ entry'.proc = entry.proc
  <2>1. \A l \in 1 .. Len(procs) : procs[l].alive /\ ~procs[l].signalled => entry.proc = l
    BY DEF IInv, NoStrayProcess, Shape
  <2>2. ASSUME NEW l \in 1 .. Len(procs), procs'[l].alive, ~procs'[l].signalled
        PROVE  procs[l].alive /\ ~procs[l].signalled /\ (HearExit(launch) => l # launch)
    <3>1. CASE l = launch
      <4>1. procs'[l] = p
        BY <1>4, <3>1
      <4>. QED
        BY <1>3, <2>2, <3>1, <4>1
    <3>2. CASE l # launch
      <4>1. procs'[l] = procs[l]
        BY <1>4, <3>2
      <4>. QED
        BY <2>2, <3>2, <4>1
    <3>. QED
      BY <3>1, <3>2
  <2>3. ASSUME NEW l \in 1 .. Len(procs) PROVE procs'[l].got = procs[l].got
    BY <1>3, <1>4
  <2>. QED
    BY <1>5, <2>1, <2>2, <2>3
<1>10. Shape'
  <2>1. entry'.proc \in 0 .. Len(procs')
    BY <1>4, <1>5 DEF IInv, Shape, None
  <2>. QED
    BY <1>1, <1>2, <1>4, <1>5, <1>6, <2>1 DEF IInv, Shape
<1>11. NoStrayProcess' /\ PromptGoesFirst' /\ Pending'
  BY <1>4, <1>7, <1>8, <1>9, <1>10, Frame
<1>12. Exclusive' /\ QueuedOnce'
  BY <1>2, <1>6, <1>8, LockStays
<1>13. Launched'
  BY <1>6, LaunchedKept DEF IInv, Launched
<1>. QED
  BY <1>10, <1>11, <1>12, <1>13 DEF IInv

\* The calls of the RPC mode touch no start and no process.
LEMMA CallIInv == ASSUME IInv, NEW c \in Calls, SendCall(c) \/ AnswerCall(c) \/ LoseCall(c) PROVE IInv'
<1>1. UNCHANGED <<entry, queue, starts, procs>>
  BY DEF SendCall, AnswerCall, LoseCall
<1>2. left' \in Left
  <2>1. CASE SendCall(c)
    <3>1. left' = [left EXCEPT !.calls = left.calls - 1] /\ left.calls > 0
      BY <2>1 DEF SendCall, Use
    <3>2. left \in Left /\ left.calls - 1 \in Nat
      BY <3>1 DEF IInv, Shape, Left
    <3>. QED
      BY <3>1, <3>2 DEF Left
  <2>2. CASE AnswerCall(c) \/ LoseCall(c)
    BY <2>2 DEF AnswerCall, LoseCall, IInv, Shape
  <2>. QED
    BY <2>1, <2>2
<1>. QED
  BY <1>1, <1>2 DEF IInv, Shape, Exclusive, QueuedOnce, Launched, Pending, NoStrayProcess, PromptGoesFirst

-----------------------------------------------------------------------------
(* The theorems.                                                               *)

\* No session, no start and no process yet.
LEMMA InitIInv == Init => IInv
<1>. SUFFICES ASSUME Init PROVE IInv
  OBVIOUS
<1>1. entry \in Entries /\ entry.proc = None
  BY DEF Init, Absent, Entries, Modes, None
<1>2. /\ starts \in [Starts -> StartStates]
      /\ \A s \in Starts : starts[s].pc = "idle" /\ starts[s].proc = None
  BY DEF Init, Idle, StartStates, Pcs, Modes, None
<1>3. left \in Left
  BY BudgetsAssumption DEF Init, Left
<1>4. queue \in Seq(Tasks) /\ Len(queue) = 0 /\ procs \in Seq(Procs) /\ Len(procs) = 0 /\ DOMAIN procs = {}
  BY DEF Init
<1>5. Shape
  BY <1>1, <1>2, <1>3, <1>4 DEF Shape, None
<1>. QED
  BY <1>1, <1>2, <1>4, <1>5 DEF IInv, Exclusive, QueuedOnce, Launched, Pending, NoStrayProcess, PromptGoesFirst

\* Every step keeps the invariant.
LEMMA NextIInv == IInv /\ [Next]_vars => IInv'
<1>. SUFFICES ASSUME IInv, [Next]_vars PROVE IInv'
  OBVIOUS
<1>1. ASSUME NEW s \in Starts, RequestStart(s) \/ StartStep(s) \/ TimeOutReadiness(s) PROVE IInv'
  BY <1>1, RequestIInv, BeginIInv, StartEndsIInv, SpawnIInv, CatchIInv, SecondPhaseIInv, SubmitIInv DEF StartStep
<1>2. ASSUME NEW op \in Lifecycle, Request(op) PROVE IInv'
  BY <1>2, RequestIInv
<1>3. CASE LockStep
  BY <1>3, LifecycleIInv, RefreshIInv DEF LockStep
<1>4. ASSUME NEW launch \in DOMAIN procs,
             ScheduleRefresh(launch) \/ Report(launch) \/ Die(launch) \/ HearExit(launch) \/ ForceKill(launch)
      PROVE  IInv'
  BY <1>4, RequestIInv, ProcessIInv
<1>5. CASE Write
  BY <1>5, WriteIInv
<1>6. ASSUME NEW c \in Calls, SendCall(c) \/ AnswerCall(c) \/ LoseCall(c) PROVE IInv'
  BY <1>6, CallIInv
<1>7. CASE UNCHANGED vars
  BY <1>7 DEF vars, IInv, Shape, Exclusive, QueuedOnce, Launched, Pending, NoStrayProcess, PromptGoesFirst
<1>. QED
  BY <1>1, <1>2, <1>3, <1>4, <1>5, <1>6, <1>7 DEF Next

\* The inductive invariant: who has the lock, whose each launch is, and what is pending.
THEOREM SpecIInv == Spec => []IInv
<1>. QED
  BY InitIInv, NextIInv, PTL DEF Spec

\* Whatever starts, stops and removals cross, a process that runs and was not told to end is
\* the session's own (stopProcess before every replacement, under the thread's lock).
THEOREM SpecNoStrayProcess == Spec => []NoStrayProcess
<1>1. IInv => NoStrayProcess
  BY DEF IInv
<1>. QED
  BY SpecIInv, <1>1, PTL

\* The initial prompt is the first thing its own terminal gets, once, if and only if its
\* start answers ok (submitTerminalPrompt and writeToSession).
THEOREM SpecPromptGoesFirst == Spec => []PromptGoesFirst
<1>1. IInv => PromptGoesFirst
  BY DEF IInv
<1>. QED
  BY SpecIInv, <1>1, PTL

\* A start between its stop of the old process and the spawn of its own has the lock, and the
\* session has no process meanwhile (startSession under runWithThreadLock).
THEOREM SpecExclusive == Spec => []Exclusive
<1>1. IInv => Exclusive
  BY DEF IInv
<1>. QED
  BY SpecIInv, <1>1, PTL
-----------------------------------------------------------------------------
(* What the manager, its clients and the read model hold of a session is true.  *)

InLock == {"preparing", "spawning", "prompting", "failed"}
InSecondPhase == {"waiting", "ready", "rejected", "submit", "cleanup"}
CallStates == [pc : {"idle", "pending", "ok", "error"}, proc : Nat]

\* A start on its way to its process, or to its error, has the lock.
Locked ==
    \A s \in Starts : starts[s].pc \in InLock => queue # <<>> /\ Head(queue) = Task("start", s)

\* A session with a process is active and reads the process's sync file.
Linked ==
    /\ entry.proc # None => entry.nonce = entry.proc /\ entry.status = "active"
    /\ entry.nonce # None => entry.status = "active" /\ entry.nonce \in {entry.proc, Next_Launch}

\* What a start on its way finds of its session.
Underway ==
    \A s \in Starts :
        /\ starts[s].pc \in {"preparing", "spawning"} => entry.status = "active"
        /\ starts[s].pc = "spawning" => entry.nonce = Next_Launch
        /\ starts[s].pc = "prompting" => entry.proc # None
        /\ starts[s].pc \in {"spawning", "failed"} /\ entry.proc = None => entry.shown = entry.watch

\* Why a session may be active without a process, unknown to the read model, or stopped
\* and active in the read model.
Explained ==
    /\ entry.status = "active" /\ entry.proc = None =>
         failed = "unprepared" \/ \E s \in Starts : starts[s].pc \in {"preparing", "spawning", "failed"}
    /\ entry.status = "active" /\ entry.proc # None /\ persisted # "active" =>
         \E s \in Starts : starts[s].pc \in InSecondPhase /\ starts[s].proc = entry.proc
    /\ persisted = "active" /\ entry.status \notin {"active", "none"} => failed # "no"

Known == Linked /\ Underway /\ Explained /\ StoppedIsQuiet
SInv == IInv /\ calls \in [Calls -> CallStates] /\ Locked /\ Known

\* The lock stays with the start that has it.
LEMMA LockedKept ==
    ASSUME IInv, Locked,
           \/ /\ \/ queue' = queue
                 \/ \E task \in Tasks : queue' = Append(queue, task)
              /\ \A s \in Starts : starts'[s].pc \in InLock =>
                    starts[s].pc \in InLock \/ (queue # <<>> /\ Head(queue) = Task("start", s))
           \/ /\ queue # <<>>
              /\ \A s \in Starts : starts'[s].pc \in InLock =>
                    starts[s].pc \in InLock /\ Head(queue) # Task("start", s)
    PROVE  Locked'
<1>. SUFFICES ASSUME NEW s \in Starts, starts'[s].pc \in InLock
              PROVE  queue' # <<>> /\ Head(queue') = Task("start", s)
  BY DEF Locked
<1>1. queue \in Seq(Tasks) /\ queue # <<>> /\ Head(queue) = Task("start", s)
  BY DEF Locked, IInv, Shape
<1>2. queue' = queue \/ \E task \in Tasks : queue' = Append(queue, task)
  BY <1>1 DEF Locked
<1>3. ASSUME NEW task \in Tasks, queue' = Append(queue, task)
      PROVE  queue' # <<>> /\ Head(queue') = Head(queue)
  BY <1>1, <1>3
<1>. QED
  BY <1>1, <1>2, <1>3

\* Who holds the lock for anything but a start shows that no start is on its way.
LEMMA LockedElsewhere ==
    ASSUME Locked, NEW op, NEW id, op # "start", Holds(op, id)
    PROVE  \A s \in Starts : starts[s].pc \notin InLock /\ Head(queue) # Task("start", s)
  BY DEF Locked, Holds, Task

\* A start goes on without the session: nobody comes to need an explanation.
GoesOn(s) ==
    /\ starts'[s].proc = starts[s].proc
    /\ \/ starts'[s].pc = starts[s].pc
       \/ {starts[s].pc, starts'[s].pc} \subseteq {"idle", "queued", "ok", "error"}
       \/ {starts[s].pc, starts'[s].pc} \subseteq InSecondPhase
       \/ starts[s].pc = "spawning" /\ starts'[s].pc = "failed"
       \/ starts[s].pc = "prompting" /\ starts'[s].pc \in {"ok", "failed"}
       \/ starts[s].pc = "cleanup" /\ starts'[s].pc = "error" /\ starts[s].proc # entry.proc

\* A step that leaves the session, and what is held of it, as they are.
LEMMA KnownStays ==
    ASSUME Known, UNCHANGED <<entry, persisted, failed>>, Len(procs') = Len(procs),
           \A c \in Calls : calls'[c].pc = "pending" => calls[c].pc = "pending" \/ entry.status = "active",
           \A s \in Starts : GoesOn(s)
    PROVE  Known'
<1>1. Linked'
  BY DEF Known, Linked, Next_Launch
<1>2. Underway'
  BY DEF Known, Underway, Next_Launch, GoesOn, InSecondPhase
<1>3. Explained'
  <2>1. \A s \in Starts : starts[s].pc \in {"preparing", "spawning", "failed"} =>
                          starts'[s].pc \in {"preparing", "spawning", "failed"}
    BY DEF GoesOn, InSecondPhase
  <2>2. \A s \in Starts : starts[s].pc \in InSecondPhase /\ starts[s].proc = entry.proc =>
                          starts'[s].pc \in InSecondPhase /\ starts'[s].proc = entry.proc
    BY DEF GoesOn, InSecondPhase
  <2>. QED
    BY <2>1, <2>2 DEF Known, Explained
<1>4. StoppedIsQuiet'
  BY DEF Known, StoppedIsQuiet
<1>. QED
  BY <1>1, <1>2, <1>3, <1>4 DEF Known

\* A step that stops the session, says so or says how a start failed, and leaves no start
\* on its way.
LEMMA KnownStopped ==
    ASSUME entry'.status # "active", entry'.proc = None, entry'.nonce = None,
           entry'.shown = entry'.watch \/ \A s \in Starts : starts'[s].pc # "failed",
           entry'.shown \/ entry'.watch => failed' = "unspawned",
           \A c \in Calls : calls'[c].pc # "pending",
           persisted' = "active" /\ entry'.status # "none" => failed' # "no",
           \A s \in Starts : starts'[s].pc \notin {"preparing", "spawning", "prompting"}
    PROVE  Known'
<1>1. Linked' /\ Explained' /\ StoppedIsQuiet'
  BY DEF Linked, Explained, StoppedIsQuiet
<1>2. Underway'
  BY DEF Underway
<1>. QED
  BY <1>1, <1>2 DEF Known

\* Nobody waits for an answer of the RPC mode any more.
LEMMA CallsRejectedShape ==
    ASSUME calls \in [Calls -> CallStates]
    PROVE  /\ CallsRejected \in [Calls -> CallStates]
           /\ \A c \in Calls : CallsRejected[c].pc # "pending"
<1>. DEFINE Rejected(c) == IF calls[c].pc = "pending" THEN [calls[c] EXCEPT !.pc = "error"] ELSE calls[c]
<1>1. ASSUME NEW c \in Calls
      PROVE  Rejected(c) \in CallStates /\ Rejected(c).pc # "pending"
  BY DEF CallStates
<1>2. CallsRejected = [c \in Calls |-> Rejected(c)]
  BY DEF CallsRejected
<1>. HIDE DEF Rejected
<1>. QED
  BY <1>1, <1>2

\* No start waits for the answer to its prompt any more.
LEMMA PromptsRejected ==
    ASSUME Shape, NEW e \in Entries
    PROVE  \A s \in Starts : StartsStopped(starts, e)[s].pc # "prompting"
<1>. DEFINE Rejected(s) == IF starts[s].pc = "waiting" /\ starts[s].proc = e.proc /\ starts[s].proc = e.nonce
                           THEN [starts[s] EXCEPT !.pc = "rejected"] ELSE starts[s]
            Stopped(s) == IF Rejected(s).pc = "prompting" THEN [Rejected(s) EXCEPT !.pc = "failed"] ELSE Rejected(s)
<1>1. StartsStopped(starts, e) = [s \in Starts |-> Stopped(s)]
  BY DEF StartsStopped, PromptRejected, ReadinessRejected
<1>2. ASSUME NEW s \in Starts
      PROVE  Stopped(s).pc # "prompting"
  BY DEF Shape, StartStates
<1>. QED
  BY <1>1, <1>2

\* What is left of an entry that is let go of.
LEMMA UnlinkedIs ==
    ASSUME NEW e \in Entries, NEW status \in {"none", "new", "active", "dormant"}
    PROVE  LET u == [Unlinked(e) EXCEPT !.status = status]
           IN  /\ u \in Entries /\ u.status = status /\ u.proc = None /\ u.nonce = None
               /\ u.shown = FALSE /\ u.watch = FALSE
  BY DEF Unlinked, Entries, None

-----------------------------------------------------------------------------
(* The steps that leave the session alone.                                     *)

\* The steps of a start that change nothing but where it is.
LEMMA MovesKnown ==
    ASSUME SInv, NEW s \in Starts,
           \/ RequestStart(s) \/ FailToSpawn(s) \/ AnswerPrompt(s) \/ LosePrompt(s)
           \/ Resume(s) \/ SubmitFails(s) \/ TimeOutReadiness(s)
    PROVE  Known'
<1>1. UNCHANGED <<entry, persisted, failed, procs, calls>>
  BY DEF RequestStart, FailToSpawn, AnswerPrompt, LosePrompt, Resume, SubmitFails,
     TimeOutReadiness
<1>2. starts \in [Starts -> StartStates]
  BY DEF SInv, IInv, Shape
<1>3. \A t \in Starts : GoesOn(t)
  <2>1. CASE RequestStart(s)
    <3>1. starts[s].pc = "idle" /\ starts[s].proc = None
      BY <2>1 DEF RequestStart, SInv, IInv, Launched
    <3>2. starts' = [starts EXCEPT ![s] = [pc |-> "queued", mode |-> left.kinds[s].mode,
                                            prompt |-> left.kinds[s].prompt, proc |-> None]]
      BY <2>1 DEF RequestStart
    <3>3. starts'[s].pc = "queued" /\ starts'[s].proc = None
      BY <1>2, <3>2
    <3>4. \A t \in Starts : t # s => starts'[t] = starts[t]
      BY <1>2, <3>2
    <3>. QED
      BY <3>1, <3>3, <3>4 DEF GoesOn
  <2>2. ASSUME NEW pc \in Pcs, starts' = [starts EXCEPT ![s].pc = pc],
               \/ starts[s].pc = "spawning" /\ pc = "failed"
               \/ starts[s].pc = "prompting" /\ pc \in {"ok", "failed"}
               \/ {starts[s].pc, pc} \subseteq InSecondPhase
        PROVE  \A t \in Starts : GoesOn(t)
    <3>1. \A t \in Starts : /\ starts'[t].proc = starts[t].proc
                            /\ starts'[t].pc = IF t = s THEN pc ELSE starts[t].pc
      BY <2>2, StartMoves DEF SInv, IInv
    <3>. QED
      BY <2>2, <3>1 DEF GoesOn
  <2>3. CASE FailToSpawn(s) \/ LosePrompt(s)
    BY <2>2, <2>3 DEF FailToSpawn, LosePrompt, Pcs
  <2>4. CASE AnswerPrompt(s)
    BY <2>2, <2>4 DEF AnswerPrompt, Pcs
  <2>5. CASE TimeOutReadiness(s)
    BY <2>2, <2>5 DEF TimeOutReadiness, Pcs, InSecondPhase
  <2>6. CASE SubmitFails(s)
    <3>1. starts[s].pc = "submit"
      BY <2>6, HeadIsQueued DEF SubmitFails, SInv
    <3>. QED
      BY <2>2, <2>6, <3>1 DEF SubmitFails, Pcs, InSecondPhase
  <2>7. CASE Resume(s)
    <3>1. PICK op \in {"submit", "cleanup"} : starts' = [starts EXCEPT ![s].pc = op]
      BY <2>7 DEF Resume
    <3>2. starts[s].pc \in {"ready", "rejected"}
      BY <2>7 DEF Resume
    <3>. QED
      BY <2>2, <3>1, <3>2 DEF Pcs, InSecondPhase
  <2>. QED
    BY <2>1, <2>3, <2>4, <2>5, <2>6, <2>7
<1>. QED
  BY <1>1, <1>3, KnownStays DEF SInv

\* Requests for the lock, reads of the sync file, and what a process does by itself.
LEMMA OthersKnown ==
    ASSUME SInv, IInv',
           \/ \E op \in Lifecycle : Request(op)
           \/ \E launch \in DOMAIN procs :
                ScheduleRefresh(launch) \/ Refresh(launch) \/ Report(launch) \/ Die(launch)
                \/ ForceKill(launch)
           \/ Write
    PROVE  Known'
<1>1. UNCHANGED <<entry, persisted, failed, starts, calls>>
  BY DEF Request, ScheduleRefresh, Refresh, Report, Die, ForceKill, Write
<1>2. Len(procs') = Len(procs)
  <2>1. DOMAIN procs' = DOMAIN procs
    BY DEF Request, ScheduleRefresh, Refresh, Report, Die, ForceKill, Write
  <2>2. procs \in Seq(Procs) /\ procs' \in Seq(Procs)
    BY DEF SInv, IInv, Shape
  <2>. QED
    BY <2>1, <2>2
<1>3. \A s \in Starts : GoesOn(s)
  BY <1>1 DEF GoesOn
<1>. QED
  BY <1>1, <1>2, <1>3, KnownStays DEF SInv

\* The requests of the RPC mode: only an active session has one that waits.
LEMMA CallsKnown ==
    ASSUME SInv, NEW c \in Calls, SendCall(c) \/ AnswerCall(c) \/ LoseCall(c)
    PROVE  Known' /\ calls' \in [Calls -> CallStates]
<1>1. UNCHANGED <<entry, persisted, failed, starts, procs>>
  BY DEF SendCall, AnswerCall, LoseCall
<1>2. entry.proc \in Nat /\ calls \in [Calls -> CallStates]
  BY DEF SInv, IInv, Shape, Entries
<1>3. /\ calls' \in [Calls -> CallStates]
      /\ \A d \in Calls : calls'[d].pc = "pending" => calls[d].pc = "pending" \/ entry.status = "active"
  <2>1. CASE SendCall(c)
    <3>. DEFINE r == [pc |-> IF HasRpc THEN "pending" ELSE "error",
                      proc |-> IF HasRpc THEN entry.proc ELSE None]
    <3>1. r \in CallStates /\ (r.pc = "pending" => entry.status = "active")
      BY <1>2 DEF CallStates, HasRpc, None
    <3>2. calls' = [calls EXCEPT ![c] = r]
      BY <2>1 DEF SendCall
    <3>. HIDE DEF r
    <3>. QED
      BY <1>2, <3>1, <3>2
  <2>2. ASSUME NEW pc \in {"ok", "error"}, calls' = [calls EXCEPT ![c].pc = pc]
        PROVE  <1>3
    BY <1>2, <2>2 DEF CallStates
  <2>. QED
    BY <2>1, <2>2 DEF AnswerCall, LoseCall
<1>4. \A s \in Starts : GoesOn(s)
  BY <1>1 DEF GoesOn
<1>. QED
  BY <1>1, <1>3, <1>4, KnownStays DEF SInv


-----------------------------------------------------------------------------
(* The steps that stop the session.                                            *)

\* The stops under the lock: the catch of a start, and the calls of the lifecycle.
LEMMA StopsKnown ==
    ASSUME SInv,
           \/ \E s \in Starts : CatchStart(s)
           \/ Hibernate \/ Remove
    PROVE  Known' /\ calls' \in [Calls -> CallStates]
<1>1. entry \in Entries /\ calls \in [Calls -> CallStates] /\ starts \in [Starts -> StartStates] /\ Shape
  BY DEF SInv, IInv, Shape
<1>. DEFINE settled == StartsStopped(starts, entry)
<1>2. /\ settled \in [Starts -> StartStates]
      /\ \A t \in Starts :
           /\ settled[t].pc # "prompting"
           /\ \/ settled[t].pc = starts[t].pc
              \/ starts[t].pc = "waiting" /\ settled[t].pc = "rejected"
              \/ starts[t].pc = "prompting" /\ settled[t].pc = "failed"
  BY <1>1, StartsStoppedShape, PromptsRejected
<1>. HIDE DEF settled
<1>3. CASE calls' = CallsRejected
  <2>1. calls' \in [Calls -> CallStates] /\ \A c \in Calls : calls'[c].pc # "pending"
    BY <1>1, <1>3, CallsRejectedShape
  <2>2. ASSUME NEW s \in Starts, CatchStart(s) PROVE Known'
    <3>1. /\ Holds("start", s) /\ starts[s].pc = "failed" /\ UNCHANGED persisted
          /\ entry' = AfterCatch /\ starts' = [settled EXCEPT ![s].pc = "error"]
          /\ failed' = IF entry.watch /\ entry.proc = None THEN "unspawned" ELSE "spawned"
      BY <2>2 DEF CatchStart, settled
    <3>2. \A t \in Starts \ {s} : starts[t].pc \notin InLock
      BY <3>1 DEF SInv, Locked, Holds, Task
    <3>3. \A t \in Starts : starts'[t].pc \notin {"preparing", "spawning", "prompting", "failed"}
      BY <1>2, <3>1, <3>2 DEF InLock, StartStates
    <3>4. CASE entry.proc # None
      <4>1. entry' = [Unlinked(entry) EXCEPT !.status = "new"]
        BY <3>1, <3>4 DEF AfterCatch
      <4>2. /\ entry'.status = "new" /\ entry'.proc = None /\ entry'.nonce = None
            /\ entry'.shown = FALSE /\ entry'.watch = FALSE
        BY <1>1, <4>1, UnlinkedIs
      <4>. QED
        BY <2>1, <3>1, <3>3, <4>2, KnownStopped
    <3>5. CASE entry.proc = None
      <4>1. entry' = [entry EXCEPT !.status = "new", !.nonce = None]
        BY <3>1, <3>5 DEF AfterCatch
      <4>2. /\ entry'.status = "new" /\ entry'.proc = None /\ entry'.nonce = None
            /\ entry'.shown = entry.shown /\ entry'.watch = entry.watch
        BY <1>1, <3>5, <4>1 DEF Entries
      <4>3. entry.shown = entry.watch
        BY <3>1, <3>5 DEF SInv, Known, Underway
      <4>. QED
        BY <2>1, <3>1, <3>3, <3>5, <4>2, <4>3, KnownStopped
    <3>. QED
      BY <3>4, <3>5
  <2>3. CASE Hibernate \/ Remove
    <3>1. \A s \in Starts : starts[s].pc \notin InLock
      <4>1. Holds("hibernate", None) \/ Holds("destroy", None) \/ Holds("purge", None)
        BY <2>3 DEF Hibernate, Remove
      <4>. QED
        BY <4>1 DEF SInv, Locked, Holds, Task
    <3>2. CASE StopEntry([Unlinked(entry) EXCEPT !.status = "dormant"]) /\ persisted' = "dormant"
      <4>1. starts' = settled /\ entry' = [Unlinked(entry) EXCEPT !.status = "dormant"]
        BY <3>2 DEF StopEntry, settled
      <4>2. /\ entry'.status = "dormant" /\ entry'.proc = None /\ entry'.nonce = None
            /\ entry'.shown = FALSE /\ entry'.watch = FALSE
        BY <1>1, <4>1, UnlinkedIs
      <4>3. \A t \in Starts : starts'[t].pc \notin {"preparing", "spawning", "prompting", "failed"}
        BY <1>2, <3>1, <4>1 DEF InLock
      <4>. QED
        BY <2>1, <3>2, <4>2, <4>3, KnownStopped
    <3>3. CASE StopEntry(Absent)
      <4>1. starts' = settled /\ entry' = Absent
        BY <3>3 DEF StopEntry, settled
      <4>2. /\ entry'.status = "none" /\ entry'.proc = None /\ entry'.nonce = None
            /\ entry'.shown = FALSE /\ entry'.watch = FALSE
        BY <4>1 DEF Absent
      <4>3. \A t \in Starts : starts'[t].pc \notin {"preparing", "spawning", "prompting", "failed"}
        BY <1>2, <3>1, <4>1 DEF InLock
      <4>. QED
        BY <2>1, <4>2, <4>3, KnownStopped
    <3>4. CASE UNCHANGED <<entry, starts, calls, procs, persisted, failed>>
      <4>1. \A s \in Starts : GoesOn(s)
        BY <3>4 DEF GoesOn
      <4>. QED
        BY <3>4, <4>1, KnownStays DEF SInv
    <3>. QED
      BY <2>3, <3>2, <3>3, <3>4 DEF Hibernate, Remove
  <2>. QED
    BY <2>1, <2>2, <2>3
<1>4. CASE UNCHANGED <<entry, starts, calls, procs, persisted, failed>>
  <2>1. \A s \in Starts : GoesOn(s)
    BY <1>4 DEF GoesOn
  <2>. QED
    BY <1>1, <1>4, <2>1, KnownStays DEF SInv
<1>. QED
  BY <1>3, <1>4 DEF CatchStart, Hibernate, Remove, StopEntry

\* The end of a process that nobody asked for, heard or not under a lock.
LEMMA ExitKnown ==
    ASSUME SInv, NEW launch \in DOMAIN procs, HearExit(launch)
    PROVE  Known' /\ calls' \in [Calls -> CallStates]
<1>1. entry \in Entries /\ calls \in [Calls -> CallStates] /\ Shape /\ launch # None
  BY DEF SInv, IInv, Shape, None
<1>2. /\ entry.proc # None /\ entry' = [Unlinked(entry) EXCEPT !.status = "dormant"]
      /\ calls' = CallsRejected /\ starts' = StartsStopped(starts, entry) /\ persisted' = "dormant"
  BY <1>1 DEF HearExit
<1>3. \A t \in Starts :
         /\ starts'[t].pc # "prompting"
         /\ \/ starts'[t].pc = starts[t].pc
            \/ starts[t].pc = "waiting" /\ starts'[t].pc = "rejected"
            \/ starts[t].pc = "prompting" /\ starts'[t].pc = "failed"
  BY <1>1, <1>2, StartsStoppedShape, PromptsRejected
<1>4. \A t \in Starts : starts'[t].pc \notin {"preparing", "spawning", "prompting"}
  BY <1>2, <1>3 DEF SInv, IInv, Exclusive
<1>5. /\ entry'.status = "dormant" /\ entry'.proc = None /\ entry'.nonce = None
      /\ entry'.shown = FALSE /\ entry'.watch = FALSE
  BY <1>1, <1>2, UnlinkedIs
<1>6. calls' \in [Calls -> CallStates] /\ \A c \in Calls : calls'[c].pc # "pending"
  BY <1>1, <1>2, CallsRejectedShape
<1>. QED
  BY <1>2, <1>4, <1>5, <1>6, KnownStopped

\* A start whose prompt was not sent stops its own process, if it is the session's still.
LEMMA CleanUpKnown ==
    ASSUME SInv, NEW s \in Starts, CleanUp(s)
    PROVE  Known' /\ calls' \in [Calls -> CallStates]
<1>1. /\ entry \in Entries /\ calls \in [Calls -> CallStates] /\ starts \in [Starts -> StartStates]
      /\ Shape /\ starts[s].pc = "cleanup" /\ starts[s].proc # None
  BY HeadIsQueued DEF CleanUp, SInv, IInv, Shape
<1>2. \A t \in Starts : starts[t].pc \notin InLock
  BY LockedElsewhere DEF CleanUp, SInv
<1>3. CASE IsCurrent(s)
  <2>. DEFINE settled == StartsStopped(starts, entry)
  <2>1. /\ entry' = [Unlinked(entry) EXCEPT !.status = "new"] /\ calls' = CallsRejected
        /\ starts' = [settled EXCEPT ![s].pc = "error"] /\ failed' = "spawned"
    BY <1>3 DEF CleanUp
  <2>2. /\ settled \in [Starts -> StartStates]
        /\ \A t \in Starts : \/ settled[t].pc = starts[t].pc
                             \/ starts[t].pc = "waiting" /\ settled[t].pc = "rejected"
                             \/ starts[t].pc = "prompting" /\ settled[t].pc = "failed"
    BY <1>1, StartsStoppedShape
  <2>. HIDE DEF settled
  <2>3. \A t \in Starts : starts'[t].pc \notin {"preparing", "spawning", "prompting", "failed"}
    BY <1>2, <2>1, <2>2 DEF InLock, StartStates
  <2>4. /\ entry'.status = "new" /\ entry'.proc = None /\ entry'.nonce = None
        /\ entry'.shown = FALSE /\ entry'.watch = FALSE
    BY <1>1, <2>1, UnlinkedIs
  <2>5. calls' \in [Calls -> CallStates] /\ \A c \in Calls : calls'[c].pc # "pending"
    BY <1>1, <2>1, CallsRejectedShape
  <2>. QED
    BY <2>1, <2>3, <2>4, <2>5, KnownStopped
<1>4. CASE ~IsCurrent(s)
  <2>1. starts' = [starts EXCEPT ![s].pc = "error"] /\ UNCHANGED <<entry, calls, procs, failed, persisted>>
    BY <1>4 DEF CleanUp
  <2>2. \A t \in Starts : /\ starts'[t].proc = starts[t].proc
                          /\ starts'[t].pc = IF t = s THEN "error" ELSE starts[t].pc
    BY <1>1, <2>1 DEF StartStates
  <2>3. starts[s].proc # entry.proc
    BY <1>1, <1>4 DEF IsCurrent, SInv, Known, Linked
  <2>4. \A t \in Starts : GoesOn(t)
    BY <1>1, <2>2, <2>3 DEF GoesOn
  <2>. QED
    BY <1>1, <2>1, <2>4, KnownStays DEF SInv
<1>. QED
  BY <1>3, <1>4

-----------------------------------------------------------------------------
(* The steps that make a session, and those that say what it is.               *)

\* A start begins: what ran is stopped, and the session is active without a process.
LEMMA BeginKnown ==
    ASSUME SInv, NEW s \in Starts, BeginStart(s)
    PROVE  Known' /\ calls' \in [Calls -> CallStates]
<1>. DEFINE settled == IF entry.proc = None THEN starts ELSE StartsStopped(starts, entry)
<1>1. /\ entry \in Entries /\ calls \in [Calls -> CallStates] /\ starts \in [Starts -> StartStates]
      /\ Shape /\ starts[s].pc = "queued" /\ Holds("start", s) /\ starts[s].mode \in Modes
  BY DEF BeginStart, SInv, IInv, Shape, StartStates
<1>2. /\ settled \in [Starts -> StartStates]
      /\ \A t \in Starts : \/ settled[t].pc = starts[t].pc
                           \/ starts[t].pc = "waiting" /\ settled[t].pc = "rejected"
                           \/ starts[t].pc = "prompting" /\ settled[t].pc = "failed"
  BY <1>1, StartsStoppedShape
<1>3. starts' = [settled EXCEPT ![s].pc = "preparing"] /\ UNCHANGED <<persisted, failed>>
  BY DEF BeginStart
<1>. HIDE DEF settled
<1>4. \A t \in Starts \ {s} : starts[t].pc \notin InLock
  BY <1>1 DEF SInv, Locked, Holds, Task
<1>5. /\ starts'[s].pc = "preparing"
      /\ \A t \in Starts \ {s} : starts'[t].pc \notin InLock
  BY <1>2, <1>3, <1>4 DEF InLock, StartStates
<1>6. /\ entry'.status = "active" /\ entry'.proc = None /\ entry'.nonce = None
      /\ entry'.shown = FALSE /\ entry'.watch = FALSE
  <2>1. entry' = [Unlinked(entry) EXCEPT !.status = "active", !.mode = starts[s].mode]
    BY DEF BeginStart
  <2>. QED
    BY <1>1, <2>1 DEF Unlinked, Entries
<1>7. calls' \in [Calls -> CallStates]
  BY <1>1, CallsRejectedShape DEF BeginStart
<1>8. Linked' /\ StoppedIsQuiet'
  BY <1>6 DEF Linked, StoppedIsQuiet
<1>9. Underway'
  BY <1>5, <1>6 DEF Underway, InLock
<1>10. Explained'
  BY <1>5, <1>6 DEF Explained
<1>. QED
  BY <1>7, <1>8, <1>9, <1>10 DEF Known

\* The session file is found, or the directory cannot be made.
LEMMA PrepareKnown ==
    ASSUME SInv, NEW s \in Starts, PrepareStart(s) \/ FailToPrepare(s)
    PROVE  Known'
<1>1. /\ entry \in Entries /\ starts \in [Starts -> StartStates] /\ Len(procs) \in Nat
      /\ starts[s].pc = "preparing" /\ Holds("start", s) /\ entry.proc = None /\ entry.status = "active"
      /\ UNCHANGED <<persisted, calls, procs>>
  BY DEF PrepareStart, FailToPrepare, SInv, IInv, Shape, Exclusive, Known, Underway
<1>2. \A t \in Starts \ {s} : starts[t].pc \notin InLock
  BY <1>1 DEF SInv, Locked, Holds, Task
<1>3. CASE PrepareStart(s)
  <2>1. PICK file \in {None, entry.file} :
          entry' = [entry EXCEPT !.file = file, !.nonce = Next_Launch, !.watch = (file # None),
                                 !.shown = (file # None)]
    BY <1>3 DEF PrepareStart
  <2>2. /\ entry'.status = "active" /\ entry'.proc = None /\ entry'.nonce = Next_Launch
        /\ entry'.shown = entry'.watch /\ Next_Launch' = Next_Launch
    BY <1>1, <2>1 DEF Entries, Next_Launch
  <2>3. /\ starts'[s].pc = "spawning" /\ \A t \in Starts \ {s} : starts'[t] = starts[t]
    BY <1>1, <1>3 DEF PrepareStart, StartStates
  <2>4. Linked' /\ StoppedIsQuiet' /\ Explained'
    BY <2>2, <2>3 DEF Linked, StoppedIsQuiet, Explained
  <2>5. Underway'
    BY <1>2, <2>2, <2>3 DEF Underway, InLock
  <2>. QED
    BY <2>4, <2>5 DEF Known
<1>4. CASE FailToPrepare(s)
  <2>1. /\ starts'[s].pc = "error" /\ \A t \in Starts \ {s} : starts'[t] = starts[t]
        /\ failed' = "unprepared" /\ UNCHANGED entry
    BY <1>1, <1>4 DEF FailToPrepare, StartStates
  <2>2. Linked' /\ StoppedIsQuiet'
    BY <1>1, <2>1 DEF SInv, Known, Linked, StoppedIsQuiet, Next_Launch
  <2>3. Underway'
    BY <1>2, <2>1 DEF Underway, InLock
  <2>4. Explained'
    BY <1>1, <2>1 DEF Explained
  <2>. QED
    BY <2>2, <2>3, <2>4 DEF Known
<1>. QED
  BY <1>3, <1>4

\* A spawn: the session has its process, and the read model knows, or a start in its
\* second phase will tell it.
LEMMA SpawnKnown ==
    ASSUME SInv, NEW s \in Starts, SpawnTerminal(s) \/ SpawnRpc(s)
    PROVE  Known'
<1>1. /\ entry \in Entries /\ starts \in [Starts -> StartStates] /\ Len(procs) \in Nat
      /\ starts[s].pc = "spawning" /\ Holds("start", s) /\ entry.status = "active"
      /\ entry.nonce = Next_Launch /\ Next_Launch # None /\ UNCHANGED calls
  <2>1. starts[s].pc = "spawning" /\ Holds("start", s) /\ UNCHANGED calls
    BY DEF SpawnTerminal, SpawnRpc
  <2>2. entry \in Entries /\ starts \in [Starts -> StartStates] /\ Len(procs) \in Nat
    BY DEF SInv, IInv, Shape
  <2>3. entry.status = "active" /\ entry.nonce = Next_Launch
    BY <2>1 DEF SInv, Known, Underway
  <2>. QED
    BY <2>1, <2>2, <2>3 DEF Next_Launch, None
<1>2. \A t \in Starts \ {s} : starts[t].pc \notin InLock
  BY <1>1 DEF SInv, Locked, Holds, Task
<1>3. /\ entry'.proc = Next_Launch /\ entry'.nonce = Next_Launch /\ entry'.status = "active"
  BY <1>1 DEF SpawnTerminal, SpawnRpc, Entries
<1>4. /\ starts'[s].pc \in {"waiting", "prompting", "ok"}
      /\ starts'[s].pc # "waiting" => persisted' = "active"
      /\ starts'[s].pc = "waiting" => starts'[s].proc = Next_Launch
      /\ \A t \in Starts \ {s} : starts'[t].pc \notin InLock
  <2>1. CASE SpawnTerminal(s)
    <3>. DEFINE waits == starts[s].prompt
                Told(t) ==
                    IF t = s THEN [starts[s] EXCEPT !.proc = Next_Launch, !.pc = IF waits THEN "waiting" ELSE "ok"]
                    ELSE IF waits /\ starts[t].pc = "waiting" THEN [starts[t] EXCEPT !.pc = "rejected"]
                    ELSE starts[t]
    <3>1. starts' = [t \in Starts |-> Told(t)] /\ persisted' = IF waits THEN persisted ELSE "active"
      BY <2>1 DEF SpawnTerminal
    <3>2. /\ Told(s).pc \in {"waiting", "ok"} /\ Told(s).proc = Next_Launch
          /\ Told(s).pc = "ok" => persisted' = "active"
      BY <1>1, <3>1 DEF StartStates
    <3>3. ASSUME NEW t \in Starts \ {s}
          PROVE  Told(t).pc \notin InLock
      BY <1>1, <1>2 DEF StartStates, InLock
    <3>. HIDE DEF Told
    <3>4. \A t \in Starts : starts'[t] = Told(t)
      BY <3>1
    <3>. QED
      BY <3>2, <3>3, <3>4
  <2>2. CASE SpawnRpc(s)
    <3>1. starts' = [starts EXCEPT ![s].proc = Next_Launch,
                                   ![s].pc = IF starts[s].prompt THEN "prompting" ELSE "ok"]
      BY <2>2 DEF SpawnRpc
    <3>2. /\ starts'[s].pc = (IF starts[s].prompt THEN "prompting" ELSE "ok")
          /\ \A t \in Starts \ {s} : starts'[t] = starts[t]
      BY <1>1, <3>1 DEF StartStates
    <3>3. starts'[s].pc \in {"prompting", "ok"}
      BY <3>2
    <3>4. persisted' = "active"
      BY <2>2 DEF SpawnRpc
    <3>5. \A t \in Starts \ {s} : starts'[t].pc \notin InLock
      BY <1>2, <3>2
    <3>. QED
      BY <3>3, <3>4, <3>5
  <2>. QED
    BY <2>1, <2>2
<1>5. Linked' /\ StoppedIsQuiet'
  BY <1>1, <1>3 DEF Linked, StoppedIsQuiet
<1>6. Underway'
  BY <1>1, <1>3, <1>4 DEF Underway, InLock
<1>7. Explained'
  BY <1>1, <1>3, <1>4 DEF Explained, InSecondPhase
<1>. QED
  BY <1>5, <1>6, <1>7 DEF Known

\* The prompt is sent, and the read model told.
LEMMA SubmitKnown ==
    ASSUME SInv, NEW s \in Starts, SubmitPrompt(s), Len(procs') = Len(procs)
    PROVE  Known'
<1>1. /\ entry \in Entries /\ starts \in [Starts -> StartStates] /\ starts[s].pc = "submit"
      /\ starts[s].proc # None /\ entry.proc = starts[s].proc /\ entry.nonce = starts[s].proc
      /\ entry.status = "active" /\ UNCHANGED calls /\ persisted' = "active"
  BY HeadIsQueued DEF SubmitPrompt, IsCurrent, SInv, IInv, Shape
<1>2. /\ entry'.status = "active" /\ entry'.proc = entry.proc /\ entry'.nonce = entry.nonce
  BY <1>1 DEF SubmitPrompt, Entries
<1>3. \A t \in Starts : starts'[t].pc = IF t = s THEN "ok" ELSE starts[t].pc
  BY <1>1 DEF SubmitPrompt, StartStates
<1>4. \A t \in Starts : starts[t].pc \notin InLock
  BY LockedElsewhere DEF SubmitPrompt, SInv
<1>5. Linked' /\ StoppedIsQuiet' /\ Explained'
  BY <1>1, <1>2 DEF Linked, StoppedIsQuiet, Explained
<1>6. Underway'
  BY <1>3, <1>4 DEF Underway, InLock
<1>. QED
  BY <1>5, <1>6 DEF Known

\* A session that runs in a terminal shows a status when a prompt is reported.
LEMMA NotifyKnown ==
    ASSUME SInv, NotifyPromptSubmitted
    PROVE  Known'
<1>1. entry \in Entries /\ UNCHANGED <<starts, calls, procs, persisted, failed>>
  BY DEF NotifyPromptSubmitted, SInv, IInv, Shape
<1>2. /\ entry'.status = entry.status /\ entry'.proc = entry.proc /\ entry'.nonce = entry.nonce
      /\ entry'.watch = entry.watch
      /\ entry'.shown = (entry.shown \/ (entry.proc # None /\ entry.mode = "terminal" /\ entry.status = "active"))
  BY <1>1 DEF NotifyPromptSubmitted, Entries
<1>3. \A t \in Starts : starts[t].pc \notin InLock
  BY LockedElsewhere DEF NotifyPromptSubmitted, SInv
<1>4. Linked' /\ Explained'
  BY <1>1, <1>2 DEF SInv, Known, Linked, Explained, Next_Launch
<1>5. Underway'
  BY <1>1, <1>3 DEF Underway, InLock
<1>6. StoppedIsQuiet'
  BY <1>1, <1>2 DEF SInv, Known, StoppedIsQuiet
<1>. QED
  BY <1>4, <1>5, <1>6 DEF Known

\* What the sync file of a launch says is applied to the session that runs it.
LEMMA ApplyKnown ==
    ASSUME SInv, NEW launch \in DOMAIN procs, ApplyRefresh(launch)
    PROVE  Known'
<1>1. /\ entry \in Entries /\ starts \in [Starts -> StartStates] /\ procs \in Seq(Procs)
      /\ UNCHANGED <<calls, procs, failed>> /\ launch \in 1 .. Len(procs)
  BY DEF ApplyRefresh, SInv, IInv, Shape
<1>2. CASE SameNonce(launch)
  <2>1. entry.nonce = launch /\ launch # None /\ launch # Next_Launch
    BY <1>1, <1>2 DEF SameNonce, None, Next_Launch
  <2>2. entry.proc = launch /\ entry.status = "active"
    BY <2>1 DEF SInv, Known, Linked
  <2>3. /\ entry'.status = "active" /\ entry'.proc = launch /\ entry'.nonce = launch
    BY <1>1, <1>2, <2>1, <2>2 DEF ApplyRefresh, Entries
  <2>. DEFINE Told(s) == IF starts[s].pc = "waiting" /\ starts[s].proc = launch /\ entry.proc = launch
                         THEN [starts[s] EXCEPT !.pc = "ready"] ELSE starts[s]
  <2>4. starts' = [s \in Starts |-> Told(s)]
    BY <1>2 DEF ApplyRefresh
  <2>5. ASSUME NEW s \in Starts
        PROVE  /\ Told(s).proc = starts[s].proc
               /\ Told(s).pc = starts[s].pc \/ (starts[s].pc = "waiting" /\ Told(s).pc = "ready")
    BY <1>1 DEF StartStates
  <2>. HIDE DEF Told
  <2>6. \A s \in Starts :
          /\ starts'[s].proc = starts[s].proc
          /\ starts'[s].pc = starts[s].pc \/ (starts[s].pc = "waiting" /\ starts'[s].pc = "ready")
    BY <2>4, <2>5
  <2>7. \A t \in Starts : starts[t].pc \notin InLock
    BY LockedElsewhere DEF ApplyRefresh, SInv
  <2>8. Linked' /\ StoppedIsQuiet'
    BY <2>1, <2>3 DEF Linked, StoppedIsQuiet
  <2>9. Underway'
    BY <2>6, <2>7 DEF Underway, InLock
  <2>10. persisted' \in {persisted, "active"}
    BY <1>2, <2>2 DEF ApplyRefresh
  <2>11. Explained'
    BY <1>1, <2>1, <2>2, <2>3, <2>6, <2>10 DEF SInv, Known, Explained, InSecondPhase
  <2>. QED
    BY <2>8, <2>9, <2>11 DEF Known
<1>3. CASE ~SameNonce(launch)
  <2>1. UNCHANGED <<entry, starts, persisted>>
    BY <1>3 DEF ApplyRefresh
  <2>2. \A s \in Starts : GoesOn(s)
    BY <2>1 DEF GoesOn
  <2>. QED
    BY <1>1, <2>1, <2>2, KnownStays DEF SInv
<1>. QED
  BY <1>2, <1>3

-----------------------------------------------------------------------------
(* The lock, and the theorem.                                                  *)

\* A call of the lifecycle, a second phase and a read of the sync file leave the starts that
\* hold the lock, or are yet to, where they are.
LEMMA LockedByOthers ==
    ASSUME SInv,
           \/ \E s \in Starts : SubmitPrompt(s) \/ SubmitFails(s) \/ CleanUp(s)
           \/ LockStep
    PROVE  Locked'
<1>1. /\ Shape /\ entry \in Entries /\ starts \in [Starts -> StartStates] /\ queue \in Seq(Tasks)
      /\ IInv /\ Locked
  BY DEF SInv, IInv, Shape
<1>2. PICK op \in Ops \ {"start"}, id \in Nat : Holds(op, id)
  <2>1. Starts \subseteq Nat /\ DOMAIN procs \subseteq Nat
    BY <1>1, MaxStartsAssumption DEF Starts, Shape
  <2>. QED
    BY <2>1 DEF SubmitPrompt, SubmitFails, CleanUp, LockStep, Hibernate, Remove, NotifyPromptSubmitted,
       Refresh, ApplyRefresh, Ops, Lifecycle, None
<1>3. queue # <<>> /\ \A s \in Starts : starts[s].pc \notin InLock /\ Head(queue) # Task("start", s)
  BY <1>1, <1>2, LockedElsewhere DEF Holds
<1>. DEFINE settled == StartsStopped(starts, entry)
<1>4. settled \in [Starts -> StartStates] /\ \A s \in Starts : settled[s].pc \notin InLock
  BY <1>1, <1>3, StartsStoppedShape DEF InLock
<1>. HIDE DEF settled
<1>5. \A s \in Starts : starts'[s].pc \notin InLock
  <2>1. ASSUME NEW s \in Starts, starts' = [starts EXCEPT ![s].pc = "ok"]
                                 \/ starts' = [starts EXCEPT ![s].pc = "rejected"]
                                 \/ starts' = [starts EXCEPT ![s].pc = "error"]
                                 \/ starts' = [settled EXCEPT ![s].pc = "error"]
        PROVE  \A t \in Starts : starts'[t].pc \notin InLock
    BY <1>1, <1>3, <1>4, <2>1 DEF InLock, StartStates
  <2>2. ASSUME NEW s \in Starts, SubmitPrompt(s) \/ SubmitFails(s) \/ CleanUp(s)
        PROVE  \A t \in Starts : starts'[t].pc \notin InLock
    BY <2>1, <2>2 DEF SubmitPrompt, SubmitFails, CleanUp, settled
  <2>3. CASE Hibernate \/ Remove \/ NotifyPromptSubmitted
    <3>1. starts' = starts \/ starts' = settled
      BY <2>3 DEF Hibernate, Remove, NotifyPromptSubmitted, StopEntry, settled
    <3>. QED
      BY <1>3, <1>4, <3>1
  <2>4. ASSUME NEW launch \in DOMAIN procs, Refresh(launch) \/ ApplyRefresh(launch)
        PROVE  \A t \in Starts : starts'[t].pc \notin InLock
    <3>. DEFINE Told(s) == IF starts[s].pc = "waiting" /\ starts[s].proc = launch /\ entry.proc = launch
                           THEN [starts[s] EXCEPT !.pc = "ready"] ELSE starts[s]
    <3>1. starts' = starts \/ starts' = [s \in Starts |-> Told(s)]
      BY <2>4 DEF Refresh, ApplyRefresh
    <3>2. ASSUME NEW s \in Starts PROVE Told(s).pc \notin InLock
      BY <1>1, <1>3 DEF StartStates, InLock
    <3>. HIDE DEF Told
    <3>. QED
      BY <1>3, <3>1, <3>2
  <2>. QED
    BY <2>2, <2>3, <2>4 DEF LockStep
<1>. QED
  BY <1>5 DEF Locked

\* What goes on outside the lock, and a process's end, leave who has the lock where it is.
LEMMA LockedAside ==
    ASSUME SInv,
           \/ \E s \in Starts : RequestStart(s) \/ Resume(s) \/ TimeOutReadiness(s)
           \/ \E op \in Lifecycle : Request(op)
           \/ \E launch \in DOMAIN procs :
                ScheduleRefresh(launch) \/ Report(launch) \/ Die(launch) \/ HearExit(launch) \/ ForceKill(launch)
           \/ Write
           \/ \E c \in Calls : SendCall(c) \/ AnswerCall(c) \/ LoseCall(c)
    PROVE  Locked'
<1>1. /\ IInv /\ Shape /\ entry \in Entries /\ starts \in [Starts -> StartStates] /\ Locked
      /\ Starts \subseteq Nat /\ DOMAIN procs \subseteq Nat
  BY MaxStartsAssumption DEF SInv, IInv, Shape, Starts
<1>2. queue' = queue \/ \E task \in Tasks : queue' = Append(queue, task)
  <2>1. ASSUME NEW op \in Ops, NEW id \in Nat PROVE Task(op, id) \in Tasks
    BY DEF Task, Tasks
  <2>2. ASSUME NEW s \in Starts, RequestStart(s) \/ Resume(s) \/ TimeOutReadiness(s)
        PROVE  <1>2
    BY <1>1, <2>1, <2>2 DEF RequestStart, Resume, TimeOutReadiness, Ops
  <2>3. ASSUME NEW op \in Lifecycle, Request(op) PROVE <1>2
    BY <2>1, <2>3 DEF Request, Ops, None
  <2>4. ASSUME NEW launch \in DOMAIN procs,
               ScheduleRefresh(launch) \/ Report(launch) \/ Die(launch) \/ HearExit(launch) \/ ForceKill(launch)
        PROVE  <1>2
    BY <1>1, <2>1, <2>4 DEF ScheduleRefresh, Report, Die, HearExit, ForceKill, Ops
  <2>5. CASE Write \/ \E c \in Calls : SendCall(c) \/ AnswerCall(c) \/ LoseCall(c)
    BY <2>5 DEF Write, SendCall, AnswerCall, LoseCall
  <2>. QED
    BY <2>2, <2>3, <2>4, <2>5
<1>3. \A t \in Starts : starts'[t].pc \in InLock => starts[t].pc \in InLock
  <2>1. ASSUME NEW s \in Starts, RequestStart(s) \/ Resume(s) \/ TimeOutReadiness(s)
        PROVE  <1>3
    <3>1. \A t \in Starts \ {s} : starts'[t] = starts[t]
      BY <1>1, <2>1 DEF RequestStart, Resume, TimeOutReadiness
    <3>2. starts'[s].pc \notin InLock
      BY <1>1, <2>1 DEF RequestStart, Resume, TimeOutReadiness, InLock, StartStates
    <3>. QED
      BY <3>1, <3>2
  <2>2. ASSUME NEW launch \in DOMAIN procs, HearExit(launch) PROVE <1>3
    <3>1. starts' = StartsStopped(starts, entry)
      BY <2>2 DEF HearExit
    <3>2. \A t \in Starts : \/ starts'[t].pc = starts[t].pc
                            \/ starts[t].pc = "waiting" /\ starts'[t].pc = "rejected"
                            \/ starts[t].pc = "prompting" /\ starts'[t].pc = "failed"
      BY <1>1, <3>1, StartsStoppedShape
    <3>. QED
      BY <3>2 DEF InLock
  <2>3. CASE starts' = starts
    BY <2>3
  <2>. QED
    BY <2>1, <2>2, <2>3 DEF Request, ScheduleRefresh, Report, Die, ForceKill, Write,
       SendCall, AnswerCall, LoseCall
<1>. QED
  BY <1>1, <1>2, <1>3, LockedKept

\* A start's own steps under the lock: it keeps the lock while it is on its way.
LEMMA LockedByStart ==
    ASSUME SInv, NEW s \in Starts,
           \/ BeginStart(s) \/ PrepareStart(s) \/ FailToPrepare(s)
           \/ SpawnTerminal(s) \/ SpawnRpc(s) \/ FailToSpawn(s)
           \/ AnswerPrompt(s) \/ LosePrompt(s) \/ CatchStart(s)
    PROVE  Locked'
<1>1. /\ IInv /\ Shape /\ entry \in Entries /\ starts \in [Starts -> StartStates] /\ Locked
      /\ Holds("start", s)
  BY DEF SInv, IInv, Shape, BeginStart, PrepareStart, FailToPrepare, SpawnTerminal, SpawnRpc,
     FailToSpawn, AnswerPrompt, LosePrompt, CatchStart
<1>2. \A t \in Starts \ {s} : starts[t].pc \notin InLock
  BY <1>1 DEF Locked, Holds, Task
<1>. DEFINE settled == StartsStopped(starts, entry)
<1>3. /\ settled \in [Starts -> StartStates]
      /\ \A t \in Starts \ {s} : settled[t].pc \notin InLock
  BY <1>1, <1>2, StartsStoppedShape DEF InLock
<1>. HIDE DEF settled
<1>4. \A t \in Starts \ {s} : starts'[t].pc \notin InLock
  <2>1. CASE BeginStart(s)
    <3>1. \/ starts' = [starts EXCEPT ![s].pc = "preparing"]
          \/ starts' = [settled EXCEPT ![s].pc = "preparing"]
      BY <2>1 DEF BeginStart, settled
    <3>. QED
      BY <1>1, <1>2, <1>3, <3>1
  <2>2. CASE CatchStart(s)
    <3>1. starts' = [settled EXCEPT ![s].pc = "error"]
      BY <2>2 DEF CatchStart, settled
    <3>. QED
      BY <1>3, <3>1
  <2>3. CASE SpawnTerminal(s)
    <3>. DEFINE waits == starts[s].prompt
                Told(t) ==
                    IF t = s THEN [starts[s] EXCEPT !.proc = Next_Launch, !.pc = IF waits THEN "waiting" ELSE "ok"]
                    ELSE IF waits /\ starts[t].pc = "waiting" THEN [starts[t] EXCEPT !.pc = "rejected"]
                    ELSE starts[t]
    <3>1. starts' = [t \in Starts |-> Told(t)]
      BY <2>3 DEF SpawnTerminal
    <3>2. ASSUME NEW t \in Starts \ {s}
          PROVE  Told(t).pc \notin InLock
      BY <1>1, <1>2 DEF StartStates, InLock
    <3>. HIDE DEF Told
    <3>. QED
      BY <3>1, <3>2
  <2>4. CASE SpawnRpc(s)
    <3>1. starts' = [starts EXCEPT ![s].proc = Next_Launch,
                                   ![s].pc = IF starts[s].prompt THEN "prompting" ELSE "ok"]
      BY <2>4 DEF SpawnRpc
    <3>2. \A t \in Starts \ {s} : starts'[t] = starts[t]
      BY <1>1, <3>1
    <3>. QED
      BY <1>2, <3>2
  <2>5. CASE \/ PrepareStart(s) \/ FailToPrepare(s) \/ FailToSpawn(s) \/ AnswerPrompt(s) \/ LosePrompt(s)
    <3>1. PICK pc \in Pcs : starts' = [starts EXCEPT ![s].pc = pc]
      BY <2>5 DEF PrepareStart, FailToPrepare, FailToSpawn, AnswerPrompt, LosePrompt, Pcs
    <3>. QED
      BY <1>1, <1>2, <3>1
  <2>. QED
    BY <2>1, <2>2, <2>3, <2>4, <2>5
<1>5. queue' = queue \/ starts'[s].pc \notin InLock
  <2>1. CASE SpawnTerminal(s)
    <3>1. starts'[s].pc = IF starts[s].prompt THEN "waiting" ELSE "ok"
      BY <1>1, <2>1 DEF SpawnTerminal, StartStates
    <3>. QED
      BY <3>1 DEF InLock
  <2>2. CASE SpawnRpc(s)
    <3>1. starts' = [starts EXCEPT ![s].proc = Next_Launch,
                                   ![s].pc = IF starts[s].prompt THEN "prompting" ELSE "ok"]
      BY <2>2 DEF SpawnRpc
    <3>2. starts'[s].pc = IF starts[s].prompt THEN "prompting" ELSE "ok"
      BY <1>1, <3>1 DEF StartStates
    <3>3. starts[s].prompt => queue' = queue
      BY <2>2 DEF SpawnRpc
    <3>. QED
      BY <3>2, <3>3 DEF InLock
  <2>3. CASE CatchStart(s)
    BY <1>3, <2>3 DEF CatchStart, settled, InLock, StartStates
  <2>4. CASE FailToPrepare(s) \/ AnswerPrompt(s)
    BY <1>1, <2>4 DEF FailToPrepare, AnswerPrompt, InLock, StartStates
  <2>5. CASE BeginStart(s) \/ PrepareStart(s) \/ FailToSpawn(s) \/ LosePrompt(s)
    BY <2>5 DEF BeginStart, PrepareStart, FailToSpawn, LosePrompt
  <2>. QED
    BY <2>1, <2>2, <2>3, <2>4, <2>5
<1>. QED
  BY <1>1, <1>4, <1>5 DEF Locked, Holds

\* No session, and nothing to explain.
LEMMA InitSInv == Init => SInv
<1>. SUFFICES ASSUME Init PROVE SInv
  OBVIOUS
<1>1. /\ entry.status = "none" /\ entry.proc = None /\ entry.nonce = None
      /\ entry.shown = FALSE /\ entry.watch = FALSE /\ persisted = "new" /\ failed = "no"
  BY DEF Init, Absent
<1>2. \A s \in Starts : starts[s].pc = "idle"
  BY DEF Init, Idle
<1>3. calls \in [Calls -> CallStates] /\ \A c \in Calls : calls[c].pc = "idle"
  BY DEF Init, CallStates, None
<1>4. Locked /\ Known
  BY <1>1, <1>2, <1>3 DEF Locked, InLock, Known, Linked, Underway, Explained, StoppedIsQuiet
<1>. QED
  BY InitIInv, <1>3, <1>4 DEF SInv

\* Every step keeps it.
LEMMA NextSInv == SInv /\ [Next]_vars => SInv'
<1>. SUFFICES ASSUME SInv, [Next]_vars PROVE SInv'
  OBVIOUS
<1>1. IInv /\ IInv' /\ calls \in [Calls -> CallStates]
  BY NextIInv DEF SInv
<1>2. CASE UNCHANGED vars
  <2>1. Locked' /\ Known'
    BY <1>2 DEF vars, SInv, Locked, Known, Linked, Underway, Explained, StoppedIsQuiet, Next_Launch
  <2>. QED
    BY <1>1, <1>2, <2>1 DEF SInv, vars
<1>3. ASSUME NEW s \in Starts, RequestStart(s) \/ StartStep(s) \/ TimeOutReadiness(s)
      PROVE  SInv'
  <2>1. Locked'
    BY <1>3, LockedByOthers, LockedAside, LockedByStart DEF StartStep
  <2>2. CASE SubmitPrompt(s)
    <3>1. DOMAIN procs' = DOMAIN procs /\ UNCHANGED calls
      BY <2>2 DEF SubmitPrompt
    <3>2. procs \in Seq(Procs) /\ procs' \in Seq(Procs)
      BY <1>1 DEF IInv, Shape
    <3>3. Len(procs') = Len(procs)
      BY <3>1, <3>2
    <3>. QED
      BY <1>1, <2>1, <2>2, <3>1, <3>3, SubmitKnown DEF SInv
  <2>3. CASE CatchStart(s) \/ CleanUp(s) \/ BeginStart(s)
    BY <1>1, <2>1, <2>3, StopsKnown, CleanUpKnown, BeginKnown DEF SInv
  <2>4. CASE \/ RequestStart(s) \/ FailToSpawn(s) \/ AnswerPrompt(s) \/ LosePrompt(s)
             \/ Resume(s) \/ SubmitFails(s) \/ TimeOutReadiness(s)
    <3>1. calls' = calls
      BY <2>4 DEF RequestStart, FailToSpawn, AnswerPrompt, LosePrompt, Resume, SubmitFails, TimeOutReadiness
    <3>. QED
      BY <1>1, <2>1, <2>4, <3>1, MovesKnown DEF SInv
  <2>5. CASE PrepareStart(s) \/ FailToPrepare(s)
    BY <1>1, <2>1, <2>5, PrepareKnown DEF SInv, PrepareStart, FailToPrepare
  <2>6. CASE SpawnTerminal(s) \/ SpawnRpc(s)
    <3>1. calls' = calls
      BY <2>6 DEF SpawnTerminal, SpawnRpc
    <3>. QED
      BY <1>1, <2>1, <2>6, <3>1, SpawnKnown DEF SInv
  <2>. QED
    BY <1>3, <2>2, <2>3, <2>4, <2>5, <2>6 DEF StartStep
<1>4. CASE LockStep
  <2>1. Locked'
    BY <1>4, LockedByOthers
  <2>2. CASE Hibernate \/ Remove
    BY <1>1, <2>1, <2>2, StopsKnown DEF SInv
  <2>3. CASE NotifyPromptSubmitted
    BY <1>1, <2>1, <2>3, NotifyKnown DEF SInv, NotifyPromptSubmitted
  <2>4. ASSUME NEW launch \in DOMAIN procs, Refresh(launch) PROVE SInv'
    BY <1>1, <2>1, <2>4, OthersKnown DEF SInv, Refresh
  <2>5. ASSUME NEW launch \in DOMAIN procs, ApplyRefresh(launch) PROVE SInv'
    BY <1>1, <2>1, <2>5, ApplyKnown DEF SInv, ApplyRefresh
  <2>. QED
    BY <1>4, <2>2, <2>3, <2>4, <2>5 DEF LockStep
<1>5. ASSUME NEW op \in Lifecycle, Request(op) PROVE SInv'
  <2>1. Known' /\ Locked' /\ calls' = calls
    BY <1>1, <1>5, OthersKnown, LockedAside DEF Request
  <2>. QED
    BY <1>1, <2>1 DEF SInv
<1>6. ASSUME NEW launch \in DOMAIN procs,
             ScheduleRefresh(launch) \/ Report(launch) \/ Die(launch) \/ HearExit(launch) \/ ForceKill(launch)
      PROVE  SInv'
  <2>1. Locked'
    BY <1>6, LockedAside
  <2>2. CASE HearExit(launch)
    BY <1>1, <2>1, <2>2, ExitKnown DEF SInv
  <2>3. CASE ScheduleRefresh(launch) \/ Report(launch) \/ Die(launch) \/ ForceKill(launch)
    <3>1. calls' = calls
      BY <2>3 DEF ScheduleRefresh, Report, Die, ForceKill
    <3>. QED
      BY <1>1, <2>1, <2>3, <3>1, OthersKnown DEF SInv
  <2>. QED
    BY <1>6, <2>2, <2>3
<1>7. CASE Write
  <2>1. Known' /\ Locked' /\ calls' = calls
    BY <1>1, <1>7, OthersKnown, LockedAside DEF Write
  <2>. QED
    BY <1>1, <2>1 DEF SInv
<1>8. ASSUME NEW c \in Calls, SendCall(c) \/ AnswerCall(c) \/ LoseCall(c) PROVE SInv'
  <2>1. Locked'
    BY <1>8, LockedAside
  <2>. QED
    BY <1>1, <1>8, <2>1, CallsKnown DEF SInv
<1>. QED
  BY <1>2, <1>3, <1>4, <1>5, <1>6, <1>7, <1>8 DEF Next

\* At rest a session is active exactly while it has a process and the read model says so,
\* unless a start failed, and a session that does not run shows no status, waits for no
\* answer and follows no file (stopProcess, onProcessExit, the catch branches of a start).
THEOREM SpecStatusIsTrue == Spec => []StatusIsTrue
<1>1. SInv => StatusIsTrue
  <2>. SUFFICES ASSUME SInv PROVE RestIsKnown /\ StoppedIsQuiet
    BY DEF StatusIsTrue
  <2>1. ASSUME AtRest, failed # "unprepared"
        PROVE  /\ (entry.status = "active") = (entry.proc # None)
               /\ entry.status = "active" => persisted = "active"
               /\ persisted = "active" /\ entry.status \notin {"active", "none"} => failed # "no"
    <3>1. \A s \in Starts : starts[s].pc \in {"idle", "ok", "error"}
      BY <2>1 DEF AtRest, Active
    <3>2. Linked /\ Explained
      BY DEF SInv, Known
    <3>3. (entry.status = "active") = (entry.proc # None)
      BY <2>1, <3>1, <3>2 DEF Linked, Explained
    <3>. QED
      BY <2>1, <3>1, <3>2, <3>3 DEF Explained, InSecondPhase
  <2>2. RestIsKnown
    BY <2>1 DEF RestIsKnown
  <2>. QED
    BY <2>2 DEF SInv, Known
<1>. QED
  BY InitSInv, NextSInv, <1>1, PTL DEF Spec

=============================================================================
