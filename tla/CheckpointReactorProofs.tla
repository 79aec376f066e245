------------------------ MODULE CheckpointReactorProofs ------------------------
(* Recorded turns keep their refs, reverts restore what was recorded and diffs     *)
(* compare it, for any number of turns, baselines in progress, requests and        *)
(* contents, with failing git commands and restarts.  One capture is in progress   *)
(* at a time (OneCapture): two captures of a thread share a ref and may overwrite  *)
(* each other's.                                                                   *)
EXTENDS CheckpointReactor, TLAPS

OneCapture == \A s, t \in Stops : s = t

Calm == ~RevertsDisturb

Baselining == {"check", "stageBaseline", "baseline"}
Capturing == {"stage", "target", "diff", "deleteEmpty", "record"}
Reversal == {"restore", "deleteStale", "complete"}

\* What a job relies on: who runs it, the turn count it started from, and what the
\* refs it compared still hold.
GoodJob(s, job) ==
    /\ job.step \in Capturing => s \in Stops
    /\ job.step \in Reversal => s = "worker" /\ "reverts" \in features
    /\ job.step # "idle" => job.count = 0 \/ job.count \in CountsOf(checkpoints)
    /\ job.step # "idle" /\ s \in Stops =>
          job.count < MaxCount /\ \A m \in CountsOf(checkpoints) : m <= job.count
    /\ job.step \in Baselining /\ "sequential" \in features =>
          \A m \in CountsOf(checkpoints) : m <= job.count
    /\ job.step \in {"stageBaseline", "baseline"} => job.count = 0
    /\ job.step \in {"restore", "deleteStale"} => \A m \in job.stale : job.count < m
    /\ job.step = "record" =>
          /\ job.from \in Trees /\ job.to \in Trees
          /\ job.to = refs[job.count + 1]
          /\ job.from = refs[job.count] \/ (job.count = 0 /\ FirstBaselineMoves)

GoodJobs == \A s \in Slots : GoodJob(s, jobs[s])

\* The newest count exists.
HasNewest ==
    \E n \in CountsOf(checkpoints) \cup {0} : \A m \in CountsOf(checkpoints) : m <= n

RevertsAllowed ==
    \A i \in 1..Len(queue) :
        queue[i].type = "thread.checkpoint-revert-requested" => "reverts" \in features

\* A user who waits for what was asked before has one job at a time.
OneAtATime ==
    "sequential" \in features =>
        /\ \A s, t \in Slots : jobs[s].step # "idle" /\ jobs[t].step # "idle" => s = t
        /\ queue # <<>> => \A s \in Prompts \cup Stops : jobs[s].step = "idle"

\* Without reverts no checkpoint goes.
SeenStays == "reverts" \in features \/ query.seen \subseteq checkpoints

IInv ==
    /\ TypeOK /\ HasNewest /\ RevertsAllowed /\ OneAtATime /\ GoodJobs
    /\ RecordedKeepsRefs
    /\ SeenStays /\ DiffIsRecorded

Inv == Calm => IInv

-----------------------------------------------------------------------------
(* Facts about the operators.                                                  *)

LEMMA SlotType == /\ "worker" \in Slots /\ Prompts \subseteq Slots /\ Stops \subseteq Slots
                  /\ "worker" \notin Prompts /\ "worker" \notin Stops
  BY SlotsAssumption DEF Slots

LEMMA JobType ==
    ASSUME NEW n \in Counts, NEW step \in Steps
    PROVE  /\ Job(step, n) \in JobStates
           /\ Job(step, n).step = step /\ Job(step, n).count = n
  BY DEF Job, JobStates

LEMMA IdleType == Idle \in JobStates /\ Idle.step = "idle"
  BY JobType, BoundsAssumption DEF Idle, Counts, Steps

LEMMA NoQueryType == NoQuery \in Queries /\ NoQuery.step = "idle" /\ NoQuery.seen = {}
  BY BoundsAssumption DEF NoQuery, Queries, Counts

\* The newest count is a recorded one, or the start's, and none is newer.
LEMMA NewestIsNewest ==
    ASSUME TypeOK, HasNewest
    PROVE  /\ NewestCount \in Counts
           /\ NewestCount = 0 \/ NewestCount \in CountsOf(checkpoints)
           /\ \A m \in CountsOf(checkpoints) : m <= NewestCount
<1>1. CountsOf(checkpoints) \subseteq Counts /\ 0 \in Counts
  BY BoundsAssumption DEF TypeOK, Recorded, CountsOf, Counts
<1>2. /\ NewestCount \in CountsOf(checkpoints) \cup {0}
      /\ \A m \in CountsOf(checkpoints) : m <= NewestCount
  BY DEF HasNewest, NewestCount
<1>. QED
  BY <1>1, <1>2

\* A job that moves on to another step.
LEMMA GotoType ==
    ASSUME NEW s \in Slots, NEW job \in JobStates, NEW step \in Steps, Goto(s, job, step)
    PROVE  /\ [job EXCEPT !.step = step] \in JobStates
           /\ jobs' = [jobs EXCEPT ![s] = [job EXCEPT !.step = step]]
           /\ [job EXCEPT !.step = step].step = step
           /\ [job EXCEPT !.step = step].count = job.count
           /\ [job EXCEPT !.step = step].from = job.from
           /\ [job EXCEPT !.step = step].to = job.to
           /\ [job EXCEPT !.step = step].stale = job.stale
  BY DEF Goto, JobStates

\* A calm behaviour without reverts, or one that waits and in which nothing fails.
LEMMA CalmKinds ==
    ASSUME Calm
    PROVE  \/ "reverts" \notin features
           \/ "sequential" \in features /\ "faults" \notin features /\ "restart" \notin features
  BY DEF Calm, RevertsDisturb

\* What a step leaves of the diff asked for.
LEMMA QueryKept ==
    ASSUME IInv, query' = query, features' = features,
           checkpoints \subseteq checkpoints' \/ "reverts" \in features
    PROVE  SeenStays' /\ DiffIsRecorded' /\ query' \in Queries
  BY DEF IInv, TypeOK, SeenStays, DiffIsRecorded, AtCount, FirstBaselineMoves

\* A step of one job that touches neither refs nor checkpoints.
LEMMA JobStep ==
    ASSUME IInv, NEW s \in Slots, NEW job \in JobStates,
           jobs' = [jobs EXCEPT ![s] = job],
           refs' = refs, checkpoints' = checkpoints, features' = features,
           GoodJob(s, job),
           s = "worker" /\ jobs["worker"].step \in {"deleteStale", "complete"} =>
               job.step \in {"deleteStale", "complete"} /\ job.count = jobs["worker"].count,
           "sequential" \in features /\ job.step # "idle" =>
               \A t \in Slots \ {s} : jobs[t].step = "idle",
           "sequential" \in features /\ queue' # <<>> =>
               /\ job.step = "idle" \/ s = "worker"
               /\ queue # <<>>
    PROVE  /\ jobs' \in [Slots -> JobStates] /\ refs' \in [Counts -> Trees \cup {Missing}]
           /\ checkpoints' \subseteq Recorded
           /\ GoodJobs' /\ OneAtATime' /\ RecordedKeepsRefs' /\ HasNewest'
<1>. USE DEF IInv
<1>1. /\ jobs' \in [Slots -> JobStates] /\ refs' \in [Counts -> Trees \cup {Missing}]
      /\ checkpoints' \subseteq Recorded
  BY DEF TypeOK
<1>2. jobs'[s] = job /\ \A t \in Slots \ {s} : jobs'[t] = jobs[t]
  BY DEF TypeOK
<1>3. HasNewest'
  BY DEF HasNewest, CountsOf
<1>4. GoodJobs'
  BY <1>2 DEF GoodJobs, GoodJob, CountsOf, FirstBaselineMoves
<1>5. OneAtATime'
  BY <1>2, SlotType DEF OneAtATime
<1>6. RecordedKeepsRefs'
  BY <1>2, SlotType DEF RecordedKeepsRefs, RevertsDisturb, FirstBaselineMoves
<1>. QED
  BY <1>1, <1>3, <1>4, <1>5, <1>6

-----------------------------------------------------------------------------
(* The steps.                                                                  *)

LEMMA InitIInv == Init => IInv
<1>. SUFFICES ASSUME Init PROVE IInv
  OBVIOUS
<1>1. \A s \in Slots : jobs[s].step = "idle"
  BY IdleType DEF Init
<1>2. TypeOK
  BY BoundsAssumption, IdleType, NoQueryType DEF Init, TypeOK, Counts
<1>3. HasNewest /\ RevertsAllowed /\ OneAtATime /\ RecordedKeepsRefs
  BY <1>1 DEF Init, HasNewest, CountsOf, RevertsAllowed, OneAtATime, RecordedKeepsRefs
<1>4. GoodJobs
  BY <1>1 DEF GoodJobs, GoodJob, Capturing, Reversal, Baselining
<1>5. SeenStays /\ DiffIsRecorded
  BY DEF Init, NoQuery, SeenStays, DiffIsRecorded
<1>. QED
  BY <1>2, <1>3, <1>4, <1>5 DEF IInv

\* Neither jobs, refs nor checkpoints change.
LEMMA NoJobStep ==
    ASSUME IInv, tree' \in Trees, head' = head, jobs' = jobs, refs' = refs,
           checkpoints' = checkpoints, features' = features, query' = query,
           queue' = queue \/ /\ queue' \in Seq(Requests) /\ RevertsAllowed'
                             /\ "sequential" \in features => Quiet
    PROVE  IInv'
<1>1. SeenStays' /\ DiffIsRecorded' /\ query' \in Queries
  BY QueryKept
<1>2. TypeOK'
  BY <1>1 DEF IInv, TypeOK
<1>3. RevertsAllowed'
  BY DEF IInv, RevertsAllowed
<1>4. HasNewest' /\ GoodJobs' /\ RecordedKeepsRefs'
  BY DEF IInv, HasNewest, CountsOf, GoodJobs, GoodJob, RecordedKeepsRefs, RevertsDisturb,
         FirstBaselineMoves
<1>5. OneAtATime'
  BY IdleType, SlotType DEF IInv, OneAtATime, Quiet
<1>. QED
  BY <1>1, <1>2, <1>3, <1>4, <1>5 DEF IInv

LEMMA WriteIInv == IInv /\ Write => IInv'
  BY NoJobStep DEF Write, model

\* What is asked for joins the queue.
LEMMA RequestIInv ==
    ASSUME IInv, NEW request \in Requests,
           request.type = "thread.checkpoint-revert-requested" => "reverts" \in features,
           "sequential" \in features => Quiet,
           queue' = Append(queue, request),
           UNCHANGED <<tree, head, refs, checkpoints, jobs, query, features>>
    PROVE  IInv'
<1>1. queue \in Seq(Requests) /\ tree \in Trees
  BY DEF IInv, TypeOK
<1>2. queue' \in Seq(Requests)
  BY <1>1
<1>3. \A i \in 1..Len(queue') : \/ queue'[i] = request
                                \/ i \in 1..Len(queue) /\ queue'[i] = queue[i]
  BY <1>1
<1>4. RevertsAllowed'
  BY <1>3 DEF IInv, RevertsAllowed
<1>. QED
  BY <1>1, <1>2, <1>4, NoJobStep

LEMMA RequestTurnIInv == IInv /\ RequestTurn => IInv'
<1>. SUFFICES ASSUME IInv, RequestTurn PROVE IInv'
  OBVIOUS
<1>. DEFINE request == [type |-> "thread.turn-start-requested", count |-> 0]
<1>1. request \in Requests
  BY BoundsAssumption DEF Requests, Counts
<1>. QED
  BY <1>1, RequestIInv DEF RequestTurn

LEMMA RequestRevertIInv == IInv /\ RequestRevert => IInv'
<1>. SUFFICES ASSUME IInv, RequestRevert PROVE IInv'
  OBVIOUS
<1>1. PICK n \in Counts :
          queue' = Append(queue, [type |-> "thread.checkpoint-revert-requested", count |-> n])
  BY DEF RequestRevert
<1>. DEFINE request == [type |-> "thread.checkpoint-revert-requested", count |-> n]
<1>2. request \in Requests
  BY DEF Requests
<1>. QED
  BY <1>1, <1>2, RequestIInv DEF RequestRevert

\* A step of one job that touches neither refs, checkpoints nor the queue.
LEMMA OwnStep ==
    ASSUME IInv, NEW s \in Slots, NEW job \in JobStates,
           jobs' = [jobs EXCEPT ![s] = job], tree' \in Trees,
           UNCHANGED <<head, refs, checkpoints, queue, query, features>>,
           GoodJob(s, job),
           s = "worker" /\ jobs["worker"].step \in {"deleteStale", "complete"} =>
               job.step \in {"deleteStale", "complete"} /\ job.count = jobs["worker"].count,
           job.step = "idle" \/ jobs[s].step # "idle"
           \/ ("sequential" \in features => Quiet /\ queue = <<>>)
    PROVE  IInv'
<1>1. "sequential" \in features /\ job.step # "idle" =>
          \A t \in Slots \ {s} : jobs[t].step = "idle"
  BY IdleType DEF IInv, OneAtATime, Quiet
<1>2. "sequential" \in features /\ queue' # <<>> =>
          /\ job.step = "idle" \/ s = "worker"
          /\ queue # <<>>
  BY SlotType DEF IInv, OneAtATime, Slots
<1>3. /\ jobs' \in [Slots -> JobStates] /\ refs' \in [Counts -> Trees \cup {Missing}]
      /\ checkpoints' \subseteq Recorded
      /\ GoodJobs' /\ OneAtATime' /\ RecordedKeepsRefs' /\ HasNewest'
  BY <1>1, <1>2, JobStep
<1>4. SeenStays' /\ DiffIsRecorded' /\ query' \in Queries
  BY QueryKept
<1>5. TypeOK' /\ RevertsAllowed'
  BY <1>3, <1>4 DEF IInv, TypeOK, RevertsAllowed
<1>. QED
  BY <1>3, <1>4, <1>5 DEF IInv

\* A job that begins knows the newest count.
LEMMA NewJobGood ==
    ASSUME IInv, NEW s \in Slots, s \in Stops => NewestCount < MaxCount
    PROVE  /\ NewestCount \in Counts
           /\ Job("check", NewestCount) \in JobStates
           /\ [Job("check", NewestCount) EXCEPT !.step = "check"] = Job("check", NewestCount)
           /\ Job("check", NewestCount).step = "check"
           /\ GoodJob(s, Job("check", NewestCount))
<1>1. /\ NewestCount \in Counts
      /\ NewestCount = 0 \/ NewestCount \in CountsOf(checkpoints)
      /\ \A m \in CountsOf(checkpoints) : m <= NewestCount
  BY NewestIsNewest DEF IInv
<1>2. /\ Job("check", NewestCount) \in JobStates
      /\ Job("check", NewestCount).step = "check"
      /\ Job("check", NewestCount).count = NewestCount
  BY <1>1, JobType DEF Steps
<1>3. [Job("check", NewestCount) EXCEPT !.step = "check"] = Job("check", NewestCount)
  BY DEF Job
<1>4. GoodJob(s, Job("check", NewestCount))
  BY <1>1, <1>2 DEF GoodJob, Capturing, Reversal, Baselining
<1>. QED
  BY <1>1, <1>2, <1>3, <1>4

LEMMA HookIInv ==
    ASSUME IInv, NEW s \in Prompts \cup Stops,
           (s \in Prompts /\ UserPromptSubmit(s)) \/ StopHook(s)
    PROVE  IInv'
<1>. DEFINE job == Job("check", NewestCount)
<1>1. s \in Slots /\ s # "worker"
  BY SlotType
<1>2. s \in Stops => NewestCount < MaxCount
  BY SlotsAssumption DEF StopHook
<1>3. /\ job \in JobStates /\ [job EXCEPT !.step = "check"] = job /\ job.step = "check"
      /\ GoodJob(s, job)
  BY <1>1, <1>2, NewJobGood
<1>4. jobs' = [jobs EXCEPT ![s] = job]
  BY <1>3 DEF UserPromptSubmit, StopHook, Goto
<1>. QED
  BY <1>1, <1>3, <1>4, OwnStep DEF UserPromptSubmit, StopHook, model, IInv, TypeOK

\* A job that goes on, without changing what it knows.
LEMMA GoOn ==
    ASSUME IInv, NEW s \in Slots, NEW step \in Steps, NEW job \in JobStates,
           jobs[s].step # "idle", job.count = jobs[s].count, job.stale = jobs[s].stale,
           Goto(s, job, step), tree' \in Trees,
           UNCHANGED <<head, refs, checkpoints, queue, query, features>>,
           GoodJob(s, [job EXCEPT !.step = step]),
           jobs[s].step \notin {"deleteStale", "complete"}
    PROVE  IInv'
  BY GotoType, OwnStep

\* The end of a job that touched nothing.
LEMMA EndIInv ==
    ASSUME IInv, NEW s \in Slots, End(s), tree' \in Trees,
           UNCHANGED <<head, refs, checkpoints, queue, query, features>>,
           s = "worker" => jobs["worker"].step \notin {"deleteStale", "complete"}
    PROVE  IInv'
<1>1. GoodJob(s, Idle)
  BY IdleType DEF GoodJob, Capturing, Reversal, Baselining
<1>. QED
  BY <1>1, IdleType, OwnStep DEF End

\* A recorded count has its ref while the worker does not revert.
LEMMA RecordedHasRef ==
    ASSUME IInv, Calm, NEW n \in CountsOf(checkpoints), jobs["worker"].step \notin Reversal
    PROVE  refs[n] \in Trees /\ refs[n] # Missing
<1>1. PICK c \in checkpoints : c.count = n
  BY DEF CountsOf
<1>2. refs[n] = c.to /\ c.to \in Trees
  BY <1>1 DEF IInv, TypeOK, Recorded, Calm, RecordedKeepsRefs, Reversal
<1>. QED
  BY <1>2, MissingAssumption

\* Without reverts the worker does not revert; with them, it has the thread to itself.
LEMMA WorkAlone ==
    ASSUME IInv, Calm, NEW s \in Slots, jobs[s].step \notin Reversal, jobs[s].step # "idle"
    PROVE  jobs["worker"].step \notin Reversal
<1>1. CASE "reverts" \notin features
  BY <1>1, SlotType DEF IInv, GoodJobs, GoodJob
<1>2. CASE "sequential" \in features
  BY <1>2, SlotType DEF IInv, OneAtATime, Reversal
<1>. QED
  BY <1>1, <1>2, CalmKinds

LEMMA CheckBaselineIInv == ASSUME IInv, Calm, NEW s \in Slots, CheckBaseline(s) PROVE IInv'
<1>. DEFINE job == jobs[s]
<1>1. job \in JobStates /\ job.step = "check" /\ GoodJob(s, job) /\ tree' \in Trees
  BY DEF CheckBaseline, At, IInv, TypeOK, GoodJobs
<1>2. CASE refs[job.count] = Missing
  <2>1. jobs["worker"].step \notin Reversal
    BY <1>1, WorkAlone DEF Reversal
  <2>2. job.count = 0
    BY <1>1, <1>2, <2>1, RecordedHasRef DEF GoodJob
  <2>3. Goto(s, job, "stageBaseline")
    BY <1>2 DEF CheckBaseline
  <2>4. "stageBaseline" \in Steps
    BY DEF Steps
  <2>5. GoodJob(s, [job EXCEPT !.step = "stageBaseline"])
    BY <1>1, <2>2, <2>3, <2>4, GotoType DEF GoodJob, Capturing, Reversal, Baselining
  <2>. QED
    BY <1>1, <2>3, <2>4, <2>5, GoOn DEF CheckBaseline, model
<1>3. CASE refs[job.count] # Missing /\ s \in Stops
  <2>1. Goto(s, job, "stage") /\ "stage" \in Steps
    BY <1>3 DEF CheckBaseline, Steps
  <2>2. GoodJob(s, [job EXCEPT !.step = "stage"])
    BY <1>1, <1>3, <2>1, GotoType DEF GoodJob, Capturing, Reversal, Baselining
  <2>. QED
    BY <1>1, <2>1, <2>2, GoOn DEF CheckBaseline, model
<1>4. CASE refs[job.count] # Missing /\ s \notin Stops
  BY <1>1, <1>4, EndIInv DEF CheckBaseline, model
<1>. QED
  BY <1>2, <1>3, <1>4

LEMMA StageIInv == ASSUME IInv, Calm, NEW s \in Slots, Stage(s) PROVE IInv'
<1>. DEFINE job == [jobs[s] EXCEPT !.staged = tree]
            next == IF At(s, "stageBaseline") THEN "baseline" ELSE "target"
<1>1. jobs[s] \in JobStates /\ GoodJob(s, jobs[s]) /\ tree \in Trees /\ tree' = tree
  BY DEF Stage, IInv, TypeOK, GoodJobs
<1>2. /\ job \in JobStates /\ job.step = jobs[s].step /\ job.count = jobs[s].count
      /\ job.stale = jobs[s].stale
  BY <1>1 DEF JobStates
<1>3. jobs[s].step \in {"stageBaseline", "stage"} /\ next \in Steps /\ Goto(s, job, next)
  BY DEF Stage, At, Steps
<1>4. GoodJob(s, [job EXCEPT !.step = next])
  BY <1>1, <1>2, <1>3, GotoType DEF GoodJob, Capturing, Reversal, Baselining, At
<1>. QED
  BY <1>1, <1>2, <1>3, <1>4, GoOn DEF Stage, model

\* A job writes a ref that no recorded turn has, or the first baseline.
LEMMA RefStep ==
    ASSUME IInv, Calm, OneCapture,
           NEW s \in Slots, NEW job \in JobStates, NEW n \in Counts,
           NEW commit \in Trees \cup {Missing},
           jobs[s].step \notin Reversal, jobs[s].step # "idle",
           job.step \notin Reversal, job.step # "record", GoodJob(s, job),
           refs' = [refs EXCEPT ![n] = commit], jobs' = [jobs EXCEPT ![s] = job],
           UNCHANGED <<tree, head, checkpoints, queue, query, features>>,
           \/ s \in Stops /\ \A m \in CountsOf(checkpoints) : m < n
           \/ n = 0 /\ ("sequential" \in features => CountsOf(checkpoints) = {})
    PROVE  IInv'
<1>. USE DEF IInv
<1>1. jobs["worker"].step \notin Reversal
  BY WorkAlone
<1>2. /\ jobs' \in [Slots -> JobStates] /\ refs' \in [Counts -> Trees \cup {Missing}]
      /\ jobs'[s] = job /\ \A t \in Slots \ {s} : jobs'[t] = jobs[t]
      /\ \A m \in Counts \ {n} : refs'[m] = refs[m]
  BY DEF TypeOK
<1>3. CountsOf(checkpoints) \subseteq Counts \ {0}
  BY DEF TypeOK, Recorded, CountsOf
<1>4. SeenStays' /\ DiffIsRecorded' /\ query' \in Queries
  BY QueryKept
<1>5. TypeOK' /\ HasNewest' /\ RevertsAllowed'
  BY <1>2, <1>4 DEF TypeOK, HasNewest, RevertsAllowed, CountsOf
<1>6. OneAtATime'
  BY <1>2, SlotType DEF OneAtATime
<1>7. GoodJob(s, jobs[s])'
  BY <1>2 DEF GoodJob, CountsOf, FirstBaselineMoves
<1>8. ASSUME NEW t \in Slots \ {s} PROVE GoodJob(t, jobs[t])'
  <2>1. GoodJob(t, jobs[t]) /\ jobs'[t] = jobs[t] /\ jobs[t] \in JobStates
    BY <1>2 DEF GoodJobs, TypeOK
  <2>2. jobs[t].step = "record" =>
          /\ jobs[t].count \in Counts /\ jobs[t].count + 1 \in Counts
          /\ jobs[t].count + 1 # n
          /\ n # jobs[t].count \/ (jobs[t].count = 0 /\ FirstBaselineMoves)
    <3>. SUFFICES ASSUME jobs[t].step = "record"
                  PROVE  /\ jobs[t].count \in Counts /\ jobs[t].count + 1 \in Counts
                         /\ jobs[t].count + 1 # n
                         /\ n # jobs[t].count \/ (jobs[t].count = 0 /\ FirstBaselineMoves)
      OBVIOUS
    <3>1. t \in Stops
      BY <2>1 DEF GoodJob, Capturing
    <3>2. s \notin Stops /\ n = 0
      BY <3>1 DEF OneCapture
    <3>3. "sequential" \notin features
      BY DEF OneAtATime
    <3>4. jobs[t].count \in Counts /\ jobs[t].count < MaxCount
      BY <2>1, <3>1 DEF GoodJob, JobStates
    <3>. QED
      BY <3>2, <3>3, <3>4, BoundsAssumption DEF FirstBaselineMoves, Counts
  <2>3. jobs[t].step = "record" =>
          /\ refs'[jobs[t].count + 1] = refs[jobs[t].count + 1]
          /\ refs'[jobs[t].count] = refs[jobs[t].count] \/ (jobs[t].count = 0 /\ FirstBaselineMoves)
    BY <1>2, <2>2
  <2>. QED
    BY <2>1, <2>3 DEF GoodJob, CountsOf, FirstBaselineMoves
<1>9. RecordedKeepsRefs'
  <2>. SUFFICES ASSUME NEW c \in checkpoints
                PROVE  /\ refs'[c.count] = c.to
                       /\ refs'[c.count - 1] = c.from \/ (c.count = 1 /\ FirstBaselineMoves)
    BY DEF RecordedKeepsRefs, FirstBaselineMoves, RevertsDisturb
  <2>1. /\ refs[c.count] = c.to
        /\ refs[c.count - 1] = c.from \/ (c.count = 1 /\ FirstBaselineMoves)
    BY <1>1 DEF RecordedKeepsRefs, Calm, Reversal
  <2>2. c.count \in CountsOf(checkpoints) /\ c.count \in Counts \ {0}
    BY <1>3 DEF CountsOf
  <2>3. c.count # n /\ (n # c.count - 1 \/ (c.count = 1 /\ FirstBaselineMoves))
    BY <2>2 DEF FirstBaselineMoves, Counts
  <2>4. c.count - 1 \in Counts
    BY <2>2, BoundsAssumption DEF Counts
  <2>. QED
    BY <1>2, <2>1, <2>2, <2>3, <2>4
<1>. QED
  BY <1>4, <1>5, <1>6, <1>7, <1>8, <1>9 DEF GoodJobs

LEMMA UpdateRefIInv == ASSUME IInv, Calm, OneCapture, NEW s \in Slots, UpdateRef(s) PROVE IInv'
<1>. DEFINE old == jobs[s]
            n == TargetOf(s)
            job == IF At(s, "target") THEN [old EXCEPT !.step = "diff"]
                   ELSE IF s \in Stops THEN [old EXCEPT !.step = "stage"] ELSE Idle
<1>1. old \in JobStates /\ GoodJob(s, old) /\ old.step \in {"baseline", "target"}
  BY DEF UpdateRef, At, IInv, TypeOK, GoodJobs
<1>2. jobs' = [jobs EXCEPT ![s] = job] /\ refs' = [refs EXCEPT ![n] = old.staged]
  BY DEF UpdateRef, Goto, End
<1>3. old.staged \in Trees \cup {Missing} /\ old.count \in Counts
  BY <1>1 DEF JobStates
<1>4. /\ job \in JobStates
      /\ job.step = IF old.step = "target" THEN "diff" ELSE IF s \in Stops THEN "stage" ELSE "idle"
      /\ job.step # "idle" => job.count = old.count
  BY <1>1, IdleType DEF JobStates, Steps, At
<1>5. GoodJob(s, job)
  BY <1>1, <1>4 DEF GoodJob, Capturing, Reversal, Baselining
<1>6. CountsOf(checkpoints) \subseteq Counts \ {0}
  BY DEF IInv, TypeOK, Recorded, CountsOf
<1>. /\ old.step \notin Reversal /\ old.step # "idle"
     /\ job.step \notin Reversal /\ job.step # "record"
     /\ UNCHANGED <<tree, head, checkpoints, queue, query, features>>
  BY <1>1, <1>4 DEF Reversal, UpdateRef, model
<1>. HIDE DEF n, job
<1>7. CASE old.step = "target"
  <2>1. s \in Stops /\ n = old.count + 1 /\ old.count < MaxCount
    BY <1>1, <1>7 DEF GoodJob, Capturing, TargetOf, n
  <2>2. n \in Counts /\ \A m \in CountsOf(checkpoints) : m < n
    BY <1>1, <1>3, <1>6, <1>7, <2>1, BoundsAssumption DEF GoodJob, Counts
  <2>. QED
    BY <1>2, <1>3, <1>4, <1>5, <2>1, <2>2, RefStep
<1>8. CASE old.step = "baseline"
  <2>1. n = 0 /\ n \in Counts
    BY <1>1, <1>3, <1>8 DEF GoodJob, TargetOf, n
  <2>2. "sequential" \in features => CountsOf(checkpoints) = {}
    BY <1>1, <1>6, <1>8 DEF GoodJob, Baselining, Counts
  <2>. QED
    BY <1>2, <1>3, <1>4, <1>5, <2>1, <2>2, RefStep
<1>. QED
  BY <1>1, <1>7, <1>8

LEMMA DeleteEmptyIInv ==
    ASSUME IInv, Calm, OneCapture, NEW s \in Slots, DeleteEmpty(s) PROVE IInv'
<1>. DEFINE old == jobs[s]
            n == old.count + 1
<1>1. old \in JobStates /\ GoodJob(s, old) /\ old.step = "deleteEmpty" /\ old.count \in Counts
  BY DEF DeleteEmpty, At, IInv, TypeOK, GoodJobs, JobStates
<1>2. s \in Stops /\ old.count < MaxCount
  BY <1>1 DEF GoodJob, Capturing
<1>3. CountsOf(checkpoints) \subseteq Counts
  BY DEF IInv, TypeOK, Recorded, CountsOf
<1>4. n \in Counts /\ \A m \in CountsOf(checkpoints) : m < n
  BY <1>1, <1>2, <1>3, BoundsAssumption DEF GoodJob, Counts
<1>5. GoodJob(s, Idle)
  BY IdleType DEF GoodJob, Capturing, Reversal, Baselining
<1>. QED
  BY <1>1, <1>2, <1>4, <1>5, IdleType, RefStep DEF DeleteEmpty, End, model, Reversal

LEMMA DiffIInv == ASSUME IInv, Calm, NEW s \in Slots, Diff(s) PROVE IInv'
<1>. DEFINE old == jobs[s]
            from == refs[old.count]
            to == refs[old.count + 1]
            job == [old EXCEPT !.from = from, !.to = to]
            next == IF from = to THEN "deleteEmpty" ELSE "record"
<1>1. old \in JobStates /\ GoodJob(s, old) /\ old.step = "diff" /\ old.count \in Counts
  BY DEF Diff, At, IInv, TypeOK, GoodJobs, JobStates
<1>2. s \in Stops /\ old.count + 1 \in Counts
  BY <1>1, BoundsAssumption DEF GoodJob, Capturing, Counts
<1>3. from \in Trees \cup {Missing} /\ to \in Trees \cup {Missing} /\ tree' \in Trees
  BY <1>1, <1>2 DEF IInv, TypeOK, Diff
<1>4. CASE Missing \in {from, to}
  BY <1>1, <1>3, <1>4, EndIInv DEF Diff, model
<1>5. CASE Missing \notin {from, to}
  <2>1. /\ job \in JobStates /\ job.step = old.step /\ job.count = old.count
        /\ job.stale = old.stale /\ job.from = from /\ job.to = to
    BY <1>1, <1>3 DEF JobStates
  <2>2. Goto(s, job, next) /\ next \in Steps
    BY <1>5 DEF Diff, Steps
  <2>3. GoodJob(s, [job EXCEPT !.step = next])
    BY <1>1, <1>2, <1>3, <1>5, <2>1, <2>2, GotoType DEF GoodJob, Capturing, Reversal, Baselining
  <2>. QED
    BY <1>1, <1>3, <2>1, <2>2, <2>3, GoOn DEF Diff, model
<1>. QED
  BY <1>4, <1>5

\* The turn a capture records is newer than all others, and what it compared is still
\* what its refs hold.
LEMMA RecordIInv == ASSUME IInv, Calm, OneCapture, NEW s \in Slots, Record(s) PROVE IInv'
<1>. DEFINE old == jobs[s]
            new == [count |-> old.count + 1, from |-> old.from, to |-> old.to]
<1>. USE DEF IInv
<1>1. old \in JobStates /\ GoodJob(s, old) /\ old.step = "record" /\ old.count \in Counts
  BY DEF Record, At, TypeOK, GoodJobs, JobStates
<1>2. s \in Stops /\ new.count \in Counts \ {0} /\ s # "worker"
  BY <1>1, BoundsAssumption, SlotType DEF GoodJob, Capturing, Counts
<1>3. /\ new \in Recorded /\ refs[new.count] = new.to
      /\ refs[new.count - 1] = new.from \/ (new.count = 1 /\ FirstBaselineMoves)
  BY <1>1, <1>2 DEF GoodJob, Recorded, Counts
<1>4. /\ checkpoints' = checkpoints \cup {new}
      /\ CountsOf(checkpoints)' = CountsOf(checkpoints) \cup {new.count}
      /\ \A m \in CountsOf(checkpoints) : m \in Counts /\ m < new.count
  <2>1. checkpoints' = checkpoints \cup {new}
    BY DEF Record
  <2>2. CountsOf(checkpoints)' = CountsOf(checkpoints) \cup {new.count}
    <3>. HIDE DEF new
    <3>. QED
      BY <2>1 DEF CountsOf
  <2>3. CountsOf(checkpoints) \subseteq Counts
    BY DEF TypeOK, Recorded, CountsOf
  <2>4. \A m \in CountsOf(checkpoints) : m <= old.count
    BY <1>1, <1>2 DEF GoodJob
  <2>. QED
    BY <1>1, <2>1, <2>2, <2>3, <2>4, BoundsAssumption DEF Counts
<1>. HIDE DEF new
<1>5. /\ jobs' \in [Slots -> JobStates] /\ jobs'[s] = Idle
      /\ \A t \in Slots \ {s} : jobs'[t] = jobs[t]
  <2>1. jobs' = [jobs EXCEPT ![s] = Idle] /\ jobs \in [Slots -> JobStates]
    BY DEF Record, End, TypeOK
  <2>. QED
    BY <2>1, IdleType
<1>6. SeenStays' /\ DiffIsRecorded' /\ query' \in Queries
  BY <1>4, QueryKept DEF Record
<1>7. TypeOK' /\ RevertsAllowed'
  <2>1. checkpoints' \subseteq Recorded
    BY <1>3, <1>4 DEF TypeOK
  <2>2. UNCHANGED <<tree, head, refs, queue, features>>
    BY DEF Record
  <2>. QED
    BY <1>5, <1>6, <2>1, <2>2 DEF TypeOK, RevertsAllowed
<1>8. HasNewest'
  BY <1>2, <1>4, BoundsAssumption DEF HasNewest, Counts
<1>9. OneAtATime'
  <2>1. \A t \in Slots : jobs'[t].step # "idle" => jobs[t].step # "idle"
    BY <1>5, IdleType
  <2>. QED
    BY <2>1, SlotType DEF Record, OneAtATime
<1>10. GoodJobs'
  <2>1. GoodJob(s, jobs[s])'
    BY <1>5, IdleType DEF GoodJob, Capturing, Reversal, Baselining
  <2>2. ASSUME NEW t \in Slots \ {s} PROVE GoodJob(t, jobs[t])'
    <3>1. GoodJob(t, jobs[t]) /\ jobs'[t] = jobs[t] /\ t \notin Stops
      BY <1>2, <1>5 DEF GoodJobs, OneCapture
    <3>2. "sequential" \in features => jobs[t].step = "idle"
      BY <1>1 DEF OneAtATime
    <3>. QED
      BY <1>4, <3>1, <3>2 DEF Record, GoodJob, Capturing, Baselining, FirstBaselineMoves
  <2>. QED
    BY <2>1, <2>2 DEF GoodJobs
<1>11. RecordedKeepsRefs'
  <2>1. jobs["worker"].step \notin Reversal
    BY <1>1, WorkAlone DEF Reversal
  <2>2. \A c \in checkpoints :
          /\ refs[c.count] = c.to
          /\ refs[c.count - 1] = c.from \/ (c.count = 1 /\ FirstBaselineMoves)
    BY <2>1 DEF RecordedKeepsRefs, Calm, Reversal
  <2>. QED
    BY <1>3, <1>4, <2>2 DEF Record, RecordedKeepsRefs, FirstBaselineMoves
<1>. QED
  BY <1>6, <1>7, <1>8, <1>9, <1>10, <1>11

LEMMA WorkIInv == ASSUME IInv, Calm, OneCapture, NEW s \in Slots, Work(s) PROVE IInv'
  BY CheckBaselineIInv, StageIInv, UpdateRefIInv, DiffIInv, DeleteEmptyIInv, RecordIInv DEF Work

\* What the worker takes was asked for, and the rest of the queue waits.
LEMMA QueueTail ==
    ASSUME IInv, queue # <<>>, queue' = Tail(queue), features' = features
    PROVE  /\ Head(queue) \in Requests /\ queue' \in Seq(Requests) /\ RevertsAllowed'
           /\ Head(queue).type = "thread.checkpoint-revert-requested" => "reverts" \in features
<1>1. queue \in Seq(Requests) /\ RevertsAllowed
  BY DEF IInv, TypeOK
<1>2. /\ queue' \in Seq(Requests) /\ Len(queue') = Len(queue) - 1
      /\ \A i \in 1..Len(queue') : i + 1 \in 1..Len(queue) /\ queue'[i] = queue[i + 1]
      /\ 1 \in 1..Len(queue) /\ Head(queue) = queue[1] /\ Head(queue) \in Requests
  BY <1>1
<1>. QED
  BY <1>1, <1>2 DEF RevertsAllowed

\* The worker begins a job.
LEMMA TakeStep ==
    ASSUME IInv, NEW job \in JobStates, job.step # "idle", GoodJob("worker", job),
           At("worker", "idle"), queue # <<>>, queue' = Tail(queue),
           jobs' = [jobs EXCEPT !["worker"] = job],
           UNCHANGED <<tree, head, refs, checkpoints, query, features>>
    PROVE  IInv'
<1>1. queue' \in Seq(Requests) /\ RevertsAllowed'
  BY QueueTail
<1>2. "sequential" \in features => \A t \in Slots \ {"worker"} : jobs[t].step = "idle"
  BY DEF IInv, OneAtATime, Slots
<1>3. /\ jobs' \in [Slots -> JobStates] /\ refs' \in [Counts -> Trees \cup {Missing}]
      /\ checkpoints' \subseteq Recorded
      /\ GoodJobs' /\ OneAtATime' /\ RecordedKeepsRefs' /\ HasNewest'
  BY <1>2, SlotType, JobStep DEF At
<1>4. SeenStays' /\ DiffIsRecorded' /\ query' \in Queries
  BY QueryKept
<1>5. TypeOK'
  BY <1>1, <1>3, <1>4 DEF IInv, TypeOK
<1>. QED
  BY <1>1, <1>3, <1>4, <1>5 DEF IInv

LEMMA TakeTurnIInv == IInv /\ TakeTurn => IInv'
<1>. SUFFICES ASSUME IInv, TakeTurn PROVE IInv'
  OBVIOUS
<1>. DEFINE job == Job("check", NewestCount)
<1>1. /\ job \in JobStates /\ [job EXCEPT !.step = "check"] = job /\ job.step = "check"
      /\ GoodJob("worker", job)
  BY SlotType, NewJobGood
<1>2. jobs' = [jobs EXCEPT !["worker"] = job]
  BY <1>1 DEF TakeTurn, Goto
<1>. HIDE DEF job
<1>. QED
  BY <1>1, <1>2, TakeStep DEF TakeTurn

\* A revert knows a recorded count, and its stale refs are newer.
LEMMA TakeRevertIInv == IInv /\ TakeRevert => IInv'
<1>. SUFFICES ASSUME IInv, TakeRevert PROVE IInv'
  OBVIOUS
<1>. DEFINE n == Head(queue).count
            stale == {m \in CountsOf(checkpoints) : m > n}
            job == [Job("restore", n) EXCEPT !.stale = stale]
            known == n <= NewestCount /\ (n = 0 \/ AtCount(checkpoints, n) # {})
<1>1. /\ Head(queue) \in Requests /\ queue' \in Seq(Requests) /\ RevertsAllowed'
      /\ "reverts" \in features
  BY QueueTail DEF TakeRevert
<1>2. n \in Counts /\ CountsOf(checkpoints) \subseteq Counts
  BY <1>1 DEF Requests, IInv, TypeOK, Recorded, CountsOf
<1>3. CASE known
  <2>1. /\ job \in JobStates /\ job.step = "restore" /\ job.count = n /\ job.stale = stale
        /\ [job EXCEPT !.step = "restore"] = job
    <3>1. job = [step |-> "restore", count |-> n, staged |-> Missing, from |-> Missing,
                 to |-> Missing, stale |-> stale]
      BY DEF Job
    <3>2. stale \subseteq Counts /\ "restore" \in Steps
      BY <1>2 DEF Steps
    <3>. HIDE DEF job, stale
    <3>. QED
      BY <1>2, <3>1, <3>2 DEF JobStates
  <2>2. n = 0 \/ n \in CountsOf(checkpoints)
    BY <1>3 DEF AtCount, CountsOf
  <2>3. \A m \in stale : n < m
    BY <1>2 DEF Counts
  <2>4. jobs' = [jobs EXCEPT !["worker"] = job]
    BY <1>3, <2>1 DEF TakeRevert, Goto
  <2>5. GoodJob("worker", job)
    <3>. HIDE DEF job
    <3>. QED
      BY <1>1, <2>1, <2>2, <2>3, SlotType DEF GoodJob, Capturing, Baselining
  <2>. HIDE DEF job
  <2>. QED
    BY <2>1, <2>4, <2>5, TakeStep DEF TakeRevert
<1>4. CASE ~known
  <2>1. UNCHANGED <<tree, head, refs, checkpoints, jobs, query, features>>
    BY <1>4 DEF TakeRevert
  <2>2. SeenStays' /\ DiffIsRecorded' /\ query' \in Queries
    BY <2>1, QueryKept
  <2>3. TypeOK'
    BY <1>1, <2>1, <2>2 DEF IInv, TypeOK
  <2>4. OneAtATime'
    BY <2>1 DEF IInv, OneAtATime, TakeRevert
  <2>5. HasNewest' /\ GoodJobs' /\ RecordedKeepsRefs'
    BY <2>1 DEF IInv, HasNewest, CountsOf, GoodJobs, GoodJob, RecordedKeepsRefs,
                RevertsDisturb, FirstBaselineMoves
  <2>. QED
    BY <1>1, <2>2, <2>3, <2>4, <2>5 DEF IInv
<1>. QED
  BY <1>3, <1>4

LEMMA RestoreIInv == IInv /\ Restore => IInv'
<1>. SUFFICES ASSUME IInv, Restore PROVE IInv'
  OBVIOUS
<1>. DEFINE old == jobs["worker"]
            commit == IF old.count = 0 /\ refs[0] = Missing THEN head ELSE refs[old.count]
<1>1. /\ old \in JobStates /\ GoodJob("worker", old) /\ old.step = "restore"
      /\ old.count \in Counts /\ "worker" \in Slots
  BY SlotType DEF Restore, At, IInv, TypeOK, GoodJobs, JobStates
<1>2. commit \in Trees \cup {Missing} /\ tree \in Trees
  BY <1>1 DEF IInv, TypeOK
<1>3. CASE commit = Missing
  BY <1>1, <1>2, <1>3, EndIInv DEF Restore
<1>4. CASE commit # Missing
  <2>1. Goto("worker", old, "deleteStale") /\ "deleteStale" \in Steps /\ tree' \in Trees
    BY <1>2, <1>4 DEF Restore, Steps
  <2>2. GoodJob("worker", [old EXCEPT !.step = "deleteStale"])
    BY <1>1, <2>1, GotoType DEF GoodJob, Capturing, Reversal, Baselining
  <2>. QED
    BY <1>1, <2>1, <2>2, GoOn DEF Restore
<1>. QED
  BY <1>3, <1>4

\* A revert has the thread to itself.
LEMMA RevertAlone ==
    ASSUME IInv, Calm, jobs["worker"].step \in Reversal
    PROVE  /\ \A t \in Slots \ {"worker"} : jobs[t].step = "idle"
           /\ "reverts" \in features /\ "faults" \notin features /\ "restart" \notin features
<1>1. "reverts" \in features
  BY SlotType DEF IInv, GoodJobs, GoodJob
<1>2. "sequential" \in features /\ "faults" \notin features /\ "restart" \notin features
  BY <1>1, CalmKinds
<1>. QED
  BY <1>1, <1>2, SlotType DEF IInv, OneAtATime, Reversal

\* Only refs of turns the revert will drop are deleted.
LEMMA DeleteStaleIInv == IInv /\ Calm /\ DeleteStale => IInv'
<1>. SUFFICES ASSUME IInv, Calm, DeleteStale PROVE IInv'
  OBVIOUS
<1>. USE DEF IInv
<1>. DEFINE old == jobs["worker"]
<1>1. /\ old \in JobStates /\ GoodJob("worker", old) /\ old.step = "deleteStale"
      /\ old.count \in Counts /\ old.stale \subseteq Counts
  BY SlotType DEF DeleteStale, At, TypeOK, GoodJobs, JobStates
<1>2. /\ \A t \in Slots \ {"worker"} : jobs[t].step = "idle"
      /\ "reverts" \in features
  BY <1>1, RevertAlone DEF Reversal
<1>3. PICK n \in Counts, job \in JobStates :
        /\ jobs' = [jobs EXCEPT !["worker"] = job]
        /\ job.step \in {"deleteStale", "complete"} /\ job.count = old.count
        /\ job.stale \subseteq old.stale
        /\ refs' = refs \/ (refs' = [refs EXCEPT ![n] = Missing] /\ old.count < n)
  <2>1. CASE old.stale = {}
    <3>1. Goto("worker", old, "complete") /\ refs' = refs
      BY <2>1 DEF DeleteStale
    <3>. DEFINE job == [old EXCEPT !.step = "complete"]
    <3>2. /\ job \in JobStates /\ job.step = "complete" /\ job.count = old.count
          /\ job.stale = old.stale /\ jobs' = [jobs EXCEPT !["worker"] = job]
      <4>1. jobs' = [jobs EXCEPT !["worker"] = job]
        BY <3>1 DEF Goto
      <4>2. "complete" \in Steps
        BY DEF Steps
      <4>. QED
        BY <1>1, <4>1, <4>2 DEF JobStates
    <3>. HIDE DEF job
    <3>. QED
      BY <1>1, <3>1, <3>2
  <2>2. CASE old.stale # {}
    <3>1. PICK n \in old.stale :
            /\ refs' = [refs EXCEPT ![n] = Missing]
            /\ jobs' = [jobs EXCEPT !["worker"].stale = @ \ {n}]
      BY <2>2 DEF DeleteStale
    <3>. DEFINE job == [old EXCEPT !.stale = @ \ {n}]
    <3>2. /\ job \in JobStates /\ job.step = old.step /\ job.count = old.count
          /\ job.stale \subseteq old.stale
      BY <1>1 DEF JobStates
    <3>3. jobs' = [jobs EXCEPT !["worker"] = job]
      BY <3>1, SlotType DEF TypeOK
    <3>4. n \in Counts /\ old.count < n
      BY <1>1 DEF GoodJob
    <3>. HIDE DEF job
    <3>. QED
      BY <1>1, <3>1, <3>2, <3>3, <3>4
  <2>. QED
    BY <2>1, <2>2
<1>4. UNCHANGED <<tree, head, checkpoints, queue, query, features>>
  BY DEF DeleteStale, model
<1>5. /\ jobs' \in [Slots -> JobStates] /\ jobs'["worker"] = job
      /\ \A t \in Slots \ {"worker"} : jobs'[t] = jobs[t]
      /\ refs' \in [Counts -> Trees \cup {Missing}]
  BY <1>3, SlotType DEF TypeOK
<1>6. SeenStays' /\ DiffIsRecorded' /\ query' \in Queries
  BY <1>4, QueryKept
<1>7. TypeOK' /\ HasNewest' /\ RevertsAllowed'
  BY <1>4, <1>5, <1>6 DEF TypeOK, HasNewest, RevertsAllowed, CountsOf
<1>8. OneAtATime'
  BY <1>2, <1>4, <1>5, SlotType DEF OneAtATime, Slots
<1>9. GoodJobs'
  <2>1. GoodJob("worker", jobs["worker"])'
    BY <1>1, <1>3, <1>4, <1>5, SlotType DEF GoodJob, Capturing, Reversal, Baselining, CountsOf
  <2>2. \A t \in Slots \ {"worker"} : GoodJob(t, jobs[t])'
    BY <1>2, <1>5 DEF GoodJob, Capturing, Reversal, Baselining
  <2>. QED
    BY <2>1, <2>2 DEF GoodJobs
<1>10. RecordedKeepsRefs'
  <2>. SUFFICES ASSUME NEW c \in checkpoints, ~(c.count > old.count)
                PROVE  /\ refs'[c.count] = c.to
                       /\ refs'[c.count - 1] = c.from \/ (c.count = 1 /\ FirstBaselineMoves)
    BY <1>3, <1>4, <1>5 DEF RecordedKeepsRefs, FirstBaselineMoves
  <2>1. /\ refs[c.count] = c.to
        /\ refs[c.count - 1] = c.from \/ (c.count = 1 /\ FirstBaselineMoves)
    BY <1>1 DEF RecordedKeepsRefs, Calm
  <2>2. c.count \in Counts \ {0}
    BY DEF TypeOK, Recorded
  <2>3. c.count - 1 \in Counts /\ (refs' = refs \/ (c.count # n /\ c.count - 1 # n))
    BY <1>1, <1>3, <2>2, BoundsAssumption DEF Counts
  <2>. QED
    BY <1>3, <2>1, <2>2, <2>3 DEF TypeOK
<1>. QED
  BY <1>6, <1>7, <1>8, <1>9, <1>10

\* Dropping the newer turns leaves the ones whose refs were kept.
LEMMA CompleteIInv == IInv /\ Calm /\ Complete => IInv'
<1>. SUFFICES ASSUME IInv, Calm, Complete PROVE IInv'
  OBVIOUS
<1>. USE DEF IInv
<1>. DEFINE n == jobs["worker"].count
<1>1. /\ jobs["worker"] \in JobStates /\ GoodJob("worker", jobs["worker"])
      /\ jobs["worker"].step = "complete" /\ n \in Counts
  BY SlotType DEF Complete, At, TypeOK, GoodJobs, JobStates
<1>2. \A t \in Slots \ {"worker"} : jobs[t].step = "idle"
  BY <1>1, RevertAlone DEF Reversal
<1>3. "reverts" \in features
  BY <1>1, RevertAlone DEF Reversal
<1>4. /\ jobs' \in [Slots -> JobStates]
      /\ \A t \in Slots : jobs'[t].step = "idle"
  <2>1. jobs' = [jobs EXCEPT !["worker"] = Idle] /\ jobs \in [Slots -> JobStates]
    BY DEF Complete, End, TypeOK
  <2>. QED
    BY <1>2, <2>1, IdleType, SlotType
<1>5. /\ checkpoints' = {c \in checkpoints : c.count <= n}
      /\ UNCHANGED <<tree, head, refs, queue, query, features>>
  BY DEF Complete
<1>6. SeenStays' /\ DiffIsRecorded' /\ query' \in Queries
  BY <1>3, <1>5, QueryKept
<1>7. TypeOK' /\ RevertsAllowed'
  BY <1>4, <1>5, <1>6 DEF TypeOK, RevertsAllowed
<1>8. HasNewest'
  <2>1. n = 0 \/ n \in CountsOf(checkpoints)
    BY <1>1 DEF GoodJob
  <2>2. n = 0 \/ n \in CountsOf(checkpoints)'
    BY <1>1, <1>5, <2>1 DEF CountsOf, Counts
  <2>3. \A m \in CountsOf(checkpoints)' : m <= n
    BY <1>5 DEF CountsOf
  <2>. QED
    BY <2>2, <2>3 DEF HasNewest
<1>9. OneAtATime' /\ GoodJobs'
  BY <1>4, SlotType DEF OneAtATime, GoodJobs, GoodJob, Capturing, Reversal, Baselining
<1>10. RecordedKeepsRefs'
  BY <1>1, <1>5 DEF RecordedKeepsRefs, Calm, FirstBaselineMoves, TypeOK, Recorded, Counts
<1>. QED
  BY <1>6, <1>7, <1>8, <1>9, <1>10

LEMMA FaultIInv ==
    ASSUME IInv, Calm, RevertFails \/ \E s \in Slots : JobFails(s)
    PROVE  IInv'
<1>1. ~RevertFails
  BY RevertAlone DEF RevertFails, Reverting, Reversal
<1>2. PICK s \in Slots : JobFails(s)
  BY <1>1
<1>3. s = "worker" => jobs["worker"].step \notin {"deleteStale", "complete"}
  BY <1>2 DEF JobFails, Reverting
<1>. QED
  BY <1>2, <1>3, EndIInv DEF JobFails, model, IInv, TypeOK

\* The server ends while the worker reverts nothing.
LEMMA RestartIInv == IInv /\ Calm /\ Restart => IInv'
<1>. SUFFICES ASSUME IInv, Calm, Restart PROVE IInv'
  OBVIOUS
<1>1. jobs["worker"].step \notin Reversal
  BY RevertAlone DEF Restart
<1>2. jobs' \in [Slots -> JobStates] /\ \A s \in Slots : jobs'[s].step = "idle"
  BY IdleType DEF Restart
<1>3. queue' = <<>> /\ UNCHANGED <<tree, head, refs, checkpoints, features>>
  BY DEF Restart
<1>4. query' \in Queries /\ query'.step = "idle" /\ query'.seen = {}
  BY NoQueryType DEF Restart
<1>5. TypeOK' /\ RevertsAllowed' /\ HasNewest'
  <2>1. queue' \in Seq(Requests) /\ Len(queue') = 0
    BY <1>3
  <2>. QED
    BY <1>2, <1>3, <1>4, <2>1 DEF IInv, TypeOK, RevertsAllowed, HasNewest, CountsOf
<1>6. OneAtATime' /\ GoodJobs'
  BY <1>2, <1>3 DEF OneAtATime, GoodJobs, GoodJob, Capturing, Reversal, Baselining
<1>7. RecordedKeepsRefs'
  BY <1>1, <1>3 DEF IInv, RecordedKeepsRefs, Calm, Reversal, RevertsDisturb, FirstBaselineMoves
<1>8. SeenStays' /\ DiffIsRecorded'
  BY <1>4 DEF SeenStays, DiffIsRecorded
<1>. QED
  BY <1>5, <1>6, <1>7, <1>8 DEF IInv

-----------------------------------------------------------------------------
(* The diffs.                                                                  *)

\* A step of the query alone.
LEMMA QueryStep ==
    ASSUME IInv, UNCHANGED <<tree, head, refs, checkpoints, queue, jobs, features>>,
           query' \in Queries, SeenStays', DiffIsRecorded'
    PROVE  IInv'
  BY DEF IInv, TypeOK, HasNewest, RevertsAllowed, OneAtATime, GoodJobs, GoodJob,
         RecordedKeepsRefs, RevertsDisturb, FirstBaselineMoves, CountsOf

LEMMA AskDiffIInv == IInv /\ AskDiff => IInv'
<1>. SUFFICES ASSUME IInv, AskDiff PROVE IInv'
  OBVIOUS
<1>1. PICK from \in Counts, to \in Counts \ {0} :
        query' = [NoQuery EXCEPT !.step = "check", !.from = from, !.to = to,
                                 !.seen = checkpoints]
  BY DEF AskDiff
<1>2. query' \in Queries /\ query'.step = "check" /\ query'.seen = checkpoints
  <2>1. query' = [step |-> "check", from |-> from, to |-> to, answer |-> <<>>,
                  seen |-> checkpoints]
    BY <1>1 DEF NoQuery
  <2>2. checkpoints \subseteq Recorded /\ <<>> \in Seq(Trees)
    BY DEF IInv, TypeOK
  <2>. QED
    BY <2>1, <2>2 DEF Queries
<1>. QED
  BY <1>2, QueryStep DEF AskDiff, model, SeenStays, DiffIsRecorded

LEMMA QueryEndIInv ==
    ASSUME IInv, query' = NoQuery, UNCHANGED <<tree, head, refs, model, jobs, features>>
    PROVE  IInv'
  BY NoQueryType, QueryStep DEF model, SeenStays, DiffIsRecorded

LEMMA CheckRefsIInv == IInv /\ CheckRefs => IInv'
<1>. SUFFICES ASSUME IInv, CheckRefs, query' # NoQuery PROVE IInv'
  BY QueryEndIInv DEF CheckRefs
<1>1. query' = [query EXCEPT !.step = "diff"] /\ query \in Queries
  BY DEF CheckRefs, IInv, TypeOK
<1>2. query' \in Queries /\ query'.step = "diff" /\ query'.seen = query.seen
  BY <1>1 DEF Queries
<1>. QED
  BY <1>2, QueryStep DEF CheckRefs, model, IInv, SeenStays, DiffIsRecorded

\* The refs a diff compares are still those of the turns it was asked on.
LEMMA AnswerDiffIInv == IInv /\ Calm /\ AnswerDiff => IInv'
<1>. SUFFICES ASSUME IInv, Calm, AnswerDiff, query' # NoQuery PROVE IInv'
  BY QueryEndIInv DEF AnswerDiff
<1>. DEFINE from == refs[query.from]
            to == refs[query.to]
<1>1. /\ query' = [query EXCEPT !.step = "answered", !.answer = <<from, to>>]
      /\ query \in Queries /\ from \in Trees /\ to \in Trees
  <2>1. query \in Queries /\ from \in Trees \cup {Missing} /\ to \in Trees \cup {Missing}
    BY DEF IInv, TypeOK, Queries
  <2>. QED
    BY <2>1 DEF AnswerDiff
<1>2. <<from, to>> \in Seq(Trees) /\ <<from, to>>[1] = from /\ <<from, to>>[2] = to
  BY <1>1
<1>3. /\ query' \in Queries /\ query'.step = "answered" /\ query'.answer = <<from, to>>
      /\ query'.from = query.from /\ query'.to = query.to /\ query'.seen = query.seen
  BY <1>1, <1>2 DEF Queries
<1>4. UNCHANGED <<tree, head, refs, checkpoints, queue, jobs, features>>
  BY DEF AnswerDiff, model
<1>5. SeenStays'
  BY <1>3, <1>4 DEF IInv, SeenStays
<1>6. DiffIsRecorded'
  <2>. SUFFICES ASSUME "reverts" \notin features, NEW c \in query.seen
                PROVE  /\ c.count = query.from + 1 =>
                             from = c.from \/ (query.from = 0 /\ FirstBaselineMoves)
                       /\ c.count = query.to => to = c.to
    BY <1>2, <1>3, <1>4 DEF DiffIsRecorded, AtCount, FirstBaselineMoves
  <2>1. c \in checkpoints /\ c.count \in Counts \ {0} /\ query.from \in Counts
    BY <1>1 DEF IInv, SeenStays, TypeOK, Recorded, Queries
  <2>2. jobs["worker"].step \notin Reversal
    BY SlotType DEF IInv, GoodJobs, GoodJob
  <2>3. /\ refs[c.count] = c.to
        /\ refs[c.count - 1] = c.from \/ (c.count = 1 /\ FirstBaselineMoves)
    BY <2>1, <2>2 DEF IInv, RecordedKeepsRefs, Calm, Reversal
  <2>. QED
    BY <2>1, <2>3 DEF Counts
<1>. QED
  BY <1>3, <1>4, <1>5, <1>6, QueryStep

-----------------------------------------------------------------------------
(* The theorems.                                                               *)

LEMMA NextIInv == IInv /\ Calm /\ OneCapture /\ [Next]_vars => IInv'
<1>. SUFFICES ASSUME IInv, Calm, OneCapture, [Next]_vars PROVE IInv'
  OBVIOUS
<1>1. CASE WorkerStep
  BY <1>1, SlotType, TakeTurnIInv, TakeRevertIInv, RestoreIInv, DeleteStaleIInv, CompleteIInv,
     WorkIInv DEF WorkerStep
<1>2. CASE \E s \in Prompts \cup Stops : Work(s)
  BY <1>2, SlotType, WorkIInv
<1>3. CASE \E s \in Prompts : UserPromptSubmit(s)
  BY <1>3, HookIInv
<1>4. CASE \E s \in Stops : StopHook(s)
  BY <1>4, HookIInv
<1>5. CASE AskDiff \/ CheckRefs \/ AnswerDiff \/ DiffSeen
  BY <1>5, AskDiffIInv, CheckRefsIInv, AnswerDiffIInv, QueryEndIInv DEF DiffSeen
<1>6. CASE vars' = vars
  BY <1>6, NoJobStep DEF vars, IInv, TypeOK
<1>. QED
  BY <1>1, <1>2, <1>3, <1>4, <1>5, <1>6, WriteIInv, RequestTurnIInv, RequestRevertIInv,
     FaultIInv, RestartIInv DEF Next

LEMMA NextInv == Inv /\ OneCapture /\ [Next]_vars => Inv'
<1>. SUFFICES ASSUME Inv, OneCapture, [Next]_vars, Calm' PROVE IInv'
  BY DEF Inv
<1>1. features' = features
  BY DEF Next, vars, Write, UserPromptSubmit, StopHook, RequestTurn, RequestRevert, WorkerStep,
         Work, CheckBaseline, Stage, UpdateRef, Diff, DeleteEmpty, Record, TakeTurn, TakeRevert,
         Restore, DeleteStale, Complete, RevertFails, JobFails, AskDiff, CheckRefs, AnswerDiff,
         DiffSeen, Restart
<1>2. Calm
  BY <1>1 DEF Calm, RevertsDisturb
<1>. QED
  BY <1>2, NextIInv DEF Inv

\* The inductive invariant holds in every behaviour whose reverts neither overlap other
\* work nor are cut short.
THEOREM SpecInv == ASSUME OneCapture PROVE Spec => []Inv
<1>1. Init => Inv
  BY InitIInv DEF Inv
<1>2. Inv /\ [Next]_vars => Inv'
  BY NextInv
<1>. QED
  BY <1>1, <1>2, PTL DEF Spec

\* Nobody overwrites or deletes the two refs of a recorded turn (CheckpointReactor.ts),
\* whatever overlaps the captures, and after reverts that wait for each other.
THEOREM SpecRecordedKeepsRefs == ASSUME OneCapture PROVE Spec => []RecordedKeepsRefs
<1>1. Inv => RecordedKeepsRefs
  BY DEF Inv, IInv, Calm, RecordedKeepsRefs
<1>. QED
  BY <1>1, SpecInv, PTL

\* A diff over several turns compares the trees the snapshot's turns recorded
\* (getTurnDiff), however many turns end meanwhile.
THEOREM SpecDiffIsRecorded == ASSUME OneCapture PROVE Spec => []DiffIsRecorded
<1>1. Inv => DiffIsRecorded
  BY DEF Inv, IInv, Calm, RevertsDisturb, DiffIsRecorded
<1>. QED
  BY <1>1, SpecInv, PTL

\* A revert gives back the work tree its turn was recorded with, or the one before the
\* first turn (handleRevertRequested).
THEOREM SpecRevertRestores == ASSUME OneCapture PROVE Spec => RevertRestores
<1>. DEFINE Restores ==
       ~RevertsDisturb /\ At("worker", "restore") /\ jobs'["worker"].step = "deleteStale" =>
          LET n == jobs["worker"].count
          IN  IF n = 0 THEN \A c \in AtCount(checkpoints, 1) : tree' = c.from
              ELSE \A c \in AtCount(checkpoints, n) : tree' = c.to
<1>1. Inv /\ [Next]_vars => [Restores]_vars
  <2>. SUFFICES ASSUME IInv, Calm, Next, At("worker", "restore"),
                       jobs'["worker"].step = "deleteStale"
                PROVE  Restores
    BY DEF Inv, Calm
  <2>1. "worker" \in Slots /\ jobs["worker"] \in JobStates /\ jobs["worker"].step = "restore"
    BY SlotType DEF IInv, TypeOK, At
  <2>2. ASSUME NEW s \in Prompts \cup Stops,
               Work(s) \/ JobFails(s) \/ UserPromptSubmit(s) \/ StopHook(s)
        PROVE  FALSE
    <3>1. s # "worker" /\ jobs \in [Slots -> JobStates]
      BY <2>2, SlotType DEF IInv, TypeOK
    <3>2. \E job : jobs' = [jobs EXCEPT ![s] = job]
      BY <2>2 DEF Work, CheckBaseline, Stage, UpdateRef, Diff, DeleteEmpty, Record, JobFails,
                  UserPromptSubmit, StopHook, Goto, End
    <3>. QED
      BY <2>1, <3>1, <3>2
  <2>3. ~Work("worker")
    BY <2>1 DEF Work, CheckBaseline, Stage, UpdateRef, Diff, DeleteEmpty, Record, At
  <2>4. Restore
    <3>1. ~(TakeTurn \/ TakeRevert \/ DeleteStale \/ Complete \/ JobFails("worker"))
      BY <2>1 DEF TakeTurn, TakeRevert, DeleteStale, Complete, JobFails, Reverting, At
    <3>2. ~(RevertFails \/ Restart)
      BY <2>1, IdleType DEF RevertFails, Restart, End, IInv, TypeOK
    <3>3. ~(Write \/ RequestTurn \/ RequestRevert \/ AskDiff \/ CheckRefs \/ AnswerDiff \/ DiffSeen)
      BY <2>1 DEF Write, RequestTurn, RequestRevert, AskDiff, CheckRefs, AnswerDiff, DiffSeen
    <3>. QED
      BY <2>2, <2>3, <3>1, <3>2, <3>3 DEF Next, WorkerStep, Slots
  <2>. DEFINE n == jobs["worker"].count
              commit == IF n = 0 /\ refs[0] = Missing THEN head ELSE refs[n]
  <2>5. tree' = commit /\ commit # Missing
    <3>1. commit # Missing
      BY <2>1, <2>4, IdleType DEF Restore, End, IInv, TypeOK
    <3>. QED
      BY <2>4, <3>1 DEF Restore
  <2>6. "sequential" \in features
    BY <2>1, RevertAlone, CalmKinds DEF Reversal
  <2>7. ASSUME NEW c \in checkpoints
        PROVE  refs[c.count] = c.to /\ refs[c.count - 1] = c.from /\ c.from # Missing
    BY <2>1, <2>6, MissingAssumption
       DEF IInv, TypeOK, Recorded, RecordedKeepsRefs, Calm, FirstBaselineMoves
  <2>8. CASE n = 0
    <3>1. \A c \in AtCount(checkpoints, 1) : refs[0] = c.from /\ c.from # Missing
      BY <2>7 DEF AtCount
    <3>. QED
      BY <2>5, <2>8, <3>1
  <2>9. CASE n # 0
    <3>1. \A c \in AtCount(checkpoints, n) : refs[n] = c.to
      BY <2>7 DEF AtCount
    <3>. QED
      BY <2>5, <2>9, <3>1
  <2>. QED
    BY <2>8, <2>9
<1>. QED
  BY <1>1, SpecInv, PTL DEF Spec, RevertRestores
=============================================================================
