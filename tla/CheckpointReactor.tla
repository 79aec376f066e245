---------------------------- MODULE CheckpointReactor ----------------------------
(* The checkpoints of one thread: refs of hidden commits (CheckpointStore.ts),   *)
(* the turn counts the read model records, and who touches both at once: the     *)
(* prompt and stop hooks, each fired without waiting for the one before, the     *)
(* reactor's worker, which takes turn starts and reverts one by one, and the     *)
(* diffs clients ask for (CheckpointDiffQuery.ts).  Every git command is a step  *)
(* of its own.  The content of the work tree is a model value; the files of a    *)
(* diff are the two contents it compares.  The activities that tell a user of a    *)
(* revert that failed are left out.                                                *)
EXTENDS Naturals, Sequences, FiniteSets

CONSTANTS Trees,      \* contents of the work tree
          Missing,    \* no ref, no content
          Prompts,    \* slots for ensureBaseline calls in progress
          Stops,      \* slots for captures in progress
          MaxCount, MaxRequests, \* bounds of the model
          Features    \* sets of what may happen, one of which a behaviour has

ASSUME MissingAssumption == Missing \notin Trees
ASSUME BoundsAssumption == MaxCount \in Nat /\ MaxRequests \in Nat
ASSUME SlotsAssumption == "worker" \notin Prompts \cup Stops /\ Prompts \cap Stops = {}

VARIABLES tree,         \* the work tree
          head,         \* what HEAD holds
          refs,         \* checkpointRefForThreadTurn: a count's commit
          checkpoints,  \* the thread's checkpoints in the read model
          jobs,         \* what each slot and the worker do
          queue,        \* events the worker has not taken
          requests,     \* reverts asked for
          query,        \* a turn diff in progress
          features

vars == <<tree, head, refs, checkpoints, jobs, queue, requests, query, features>>
model == <<checkpoints, queue, requests>>

Slots == Prompts \cup Stops \cup {"worker"}
Counts == 0..MaxCount

\* "count": the newest turn count when the job started, or the one to revert to.
Job(step, count) ==
    [step |-> step, count |-> count, staged |-> Missing, from |-> Missing, to |-> Missing,
     stale |-> {}]
Idle == Job("idle", 0)
NoQuery == [step |-> "idle", from |-> 0, to |-> 0, answer |-> <<>>, seen |-> {}]

Init ==
    /\ tree \in Trees
    /\ head = tree
    /\ refs = [n \in Counts |-> Missing]
    /\ checkpoints = {}
    /\ jobs = [s \in Slots |-> Idle]
    /\ queue = <<>>
    /\ requests = 0
    /\ query = NoQuery
    /\ features \in Features

CountsOf(cps) == {c.count : c \in cps}
NewestCount == CHOOSE n \in CountsOf(checkpoints) \cup {0} :
                   \A m \in CountsOf(checkpoints) : m <= n
AtCount(cps, n) == {c \in cps : c.count = n}

At(s, step) == jobs[s].step = step
Goto(s, job, step) == jobs' = [jobs EXCEPT ![s] = [job EXCEPT !.step = step]]
End(s) == jobs' = [jobs EXCEPT ![s] = Idle]

-----------------------------------------------------------------------------
(* The agent and the user.                                                     *)

Write ==
    /\ tree' \in Trees \ {tree}
    /\ UNCHANGED <<head, refs, model, jobs, query, features>>

\* "sequential": nothing starts while git works for something else.
Quiet == \A s \in Slots : jobs[s] = Idle

\* ensureBaseline, called by the prompt hook.
UserPromptSubmit(s) ==
    /\ At(s, "idle")
    /\ "sequential" \in features => Quiet /\ queue = <<>>
    /\ Goto(s, Job("check", NewestCount), "check")
    /\ UNCHANGED <<tree, head, refs, model, query, features>>

\* captureTerminalTurnCheckpoint, called by the stop hook.
StopHook(s) ==
    /\ At(s, "idle")
    /\ NewestCount < MaxCount
    /\ "sequential" \in features => Quiet /\ queue = <<>>
    /\ Goto(s, Job("check", NewestCount), "check")
    /\ UNCHANGED <<tree, head, refs, model, query, features>>

RequestTurn ==
    /\ "turns" \in features
    /\ Len(queue) < 1
    /\ "sequential" \in features => Quiet
    /\ queue' = Append(queue, [type |-> "thread.turn-start-requested", count |-> 0])
    /\ UNCHANGED <<tree, head, refs, checkpoints, jobs, requests, query, features>>

RequestRevert ==
    /\ "reverts" \in features
    /\ requests < MaxRequests
    /\ "sequential" \in features => Quiet
    /\ \E n \in Counts :
          queue' = Append(queue, [type |-> "thread.checkpoint-revert-requested", count |-> n])
    /\ requests' = requests + 1
    /\ UNCHANGED <<tree, head, refs, checkpoints, jobs, query, features>>

-----------------------------------------------------------------------------
(* Baselines and captures: jobs of the hooks, and of the worker for a turn.    *)

\* The ref a job captures: the baseline's, then the one after it.
TargetOf(s) == IF jobs[s].step \in {"stageBaseline", "baseline"} THEN jobs[s].count
               ELSE jobs[s].count + 1

CheckBaseline_Refresh(s) ==
    /\ At(s, "check")
    /\ Goto(s, jobs[s], "stageBaseline")
    /\ UNCHANGED <<tree, head, refs, model, query, features>>
\* Without a baseline the tree is captured as it is now.
CheckBaseline(s) ==
    /\ At(s, "check")
    /\ IF refs[jobs[s].count] = Missing THEN Goto(s, jobs[s], "stageBaseline")
       ELSE IF s \in Stops THEN Goto(s, jobs[s], "stage") ELSE End(s)
    /\ UNCHANGED <<tree, head, refs, model, query, features>>

\* read-tree, add, write-tree and commit-tree on an index of its own.
Stage(s) ==
    /\ At(s, "stageBaseline") \/ At(s, "stage")
    /\ Goto(s, [jobs[s] EXCEPT !.staged = tree],
            IF At(s, "stageBaseline") THEN "baseline" ELSE "target")
    /\ UNCHANGED <<tree, head, refs, model, query, features>>

UpdateRef(s) ==
    /\ At(s, "baseline") \/ At(s, "target")
    /\ refs' = [refs EXCEPT ![TargetOf(s)] = jobs[s].staged]
    /\ IF At(s, "target") THEN Goto(s, jobs[s], "diff")
       ELSE IF s \in Stops THEN Goto(s, jobs[s], "stage") ELSE End(s)
    /\ UNCHANGED <<tree, head, model, query, features>>

\* A ref that is gone fails the capture.
Diff(s) ==
    /\ At(s, "diff")
    /\ LET from == refs[jobs[s].count]
           to == refs[jobs[s].count + 1]
       IN  IF Missing \in {from, to} THEN End(s)
           ELSE Goto(s, [jobs[s] EXCEPT !.from = from, !.to = to],
                     IF from = to THEN "deleteEmpty" ELSE "record")
    /\ UNCHANGED <<tree, head, refs, model, query, features>>

DeleteEmpty(s) ==
    /\ At(s, "deleteEmpty")
    /\ refs' = [refs EXCEPT ![jobs[s].count + 1] = Missing]
    /\ End(s)
    /\ UNCHANGED <<tree, head, model, query, features>>

\* thread.turn.diff.complete: every capture is a turn of its own.
Record(s) ==
    /\ At(s, "record")
    /\ checkpoints' = checkpoints \cup
          {[count |-> jobs[s].count + 1, from |-> jobs[s].from, to |-> jobs[s].to]}
    /\ End(s)
    /\ UNCHANGED <<tree, head, refs, queue, requests, query, features>>

-----------------------------------------------------------------------------
(* The worker.                                                                 *)

TakeTurn ==
    /\ At("worker", "idle")
    /\ queue # <<>>
    /\ Head(queue).type = "thread.turn-start-requested"
    /\ queue' = Tail(queue)
    /\ Goto("worker", Job("check", NewestCount), "check")
    /\ UNCHANGED <<tree, head, refs, checkpoints, requests, query, features>>

TakeRevert_DropsTarget ==
    /\ At("worker", "idle")
    /\ queue # <<>>
    /\ Head(queue).type = "thread.checkpoint-revert-requested"
    /\ queue' = Tail(queue)
    /\ Goto("worker", [Job("restore", Head(queue).count) EXCEPT
                          !.stale = {m \in CountsOf(checkpoints) : m >= Head(queue).count}],
            "restore")
    /\ UNCHANGED <<tree, head, refs, checkpoints, requests, query, features>>
\* A count that is not recorded is not reverted to.
TakeRevert ==
    /\ At("worker", "idle")
    /\ queue # <<>>
    /\ Head(queue).type = "thread.checkpoint-revert-requested"
    /\ queue' = Tail(queue)
    /\ LET n == Head(queue).count
           known == n <= NewestCount /\ (n = 0 \/ AtCount(checkpoints, n) # {})
           job == [Job("restore", n) EXCEPT
                      !.stale = {m \in CountsOf(checkpoints) : m > n}]
       IN  IF known THEN Goto("worker", job, "restore")
           ELSE UNCHANGED jobs
    /\ UNCHANGED <<tree, head, refs, checkpoints, requests, query, features>>

Restore_HeadForStart ==
    /\ At("worker", "restore")
    /\ tree' = IF jobs["worker"].count = 0 THEN head ELSE refs[jobs["worker"].count]
    /\ Goto("worker", jobs["worker"], "deleteStale")
    /\ UNCHANGED <<head, refs, checkpoints, queue, requests, query, features>>
\* git restore and git clean; a first baseline that is gone falls back to HEAD.
Restore ==
    /\ At("worker", "restore")
    /\ LET n == jobs["worker"].count
           commit == IF n = 0 /\ refs[0] = Missing THEN head ELSE refs[n]
       IN  IF commit = Missing THEN End("worker") /\ UNCHANGED tree
           ELSE /\ tree' = commit
                /\ Goto("worker", jobs["worker"], "deleteStale")
    /\ UNCHANGED <<head, refs, checkpoints, queue, requests, query, features>>

DeleteStale ==
    /\ At("worker", "deleteStale")
    /\ IF jobs["worker"].stale = {} THEN Goto("worker", jobs["worker"], "complete") /\ UNCHANGED refs
       ELSE \E n \in jobs["worker"].stale :
               /\ \A m \in jobs["worker"].stale : n <= m
               /\ refs' = [refs EXCEPT ![n] = Missing]
               /\ jobs' = [jobs EXCEPT !["worker"].stale = @ \ {n}]
    /\ UNCHANGED <<tree, head, model, query, features>>

\* thread.revert.complete, folded by the projector.
Complete ==
    /\ At("worker", "complete")
    /\ checkpoints' = {c \in checkpoints : c.count <= jobs["worker"].count}
    /\ End("worker")
    /\ UNCHANGED <<tree, head, refs, queue, requests, query, features>>

\* A git command fails, which ends the job.  The work tree may have been restored in
\* part.
Reverting == jobs["worker"].step \in {"restore", "deleteStale"}
RevertFails ==
    /\ "faults" \in features
    /\ Reverting
    /\ tree' \in IF At("worker", "restore") THEN Trees ELSE {tree}
    /\ End("worker")
    /\ UNCHANGED <<head, refs, checkpoints, queue, requests, query, features>>
JobFails(s) ==
    /\ "faults" \in features
    /\ jobs[s].step \notin {"idle", "record", "complete"}
    /\ ~(s = "worker" /\ Reverting)
    /\ End(s)
    /\ UNCHANGED <<tree, head, refs, model, query, features>>

-----------------------------------------------------------------------------
(* getTurnDiff: a snapshot, the two refs, then the diff.                       *)

AskDiff ==
    /\ "diffs" \in features
    /\ query.step = "idle"
    /\ \E from \in Counts, to \in Counts \ {0} :
          /\ from < to
          /\ to <= NewestCount
          /\ AtCount(checkpoints, to) # {}
          /\ from = 0 \/ AtCount(checkpoints, from) # {}
          /\ query' = [NoQuery EXCEPT !.step = "check", !.from = from, !.to = to,
                                      !.seen = checkpoints]
    /\ UNCHANGED <<tree, head, refs, model, jobs, features>>

CheckRefs ==
    /\ query.step = "check"
    /\ query' = IF Missing \in {refs[query.from], refs[query.to]} THEN NoQuery
                ELSE [query EXCEPT !.step = "diff"]
    /\ UNCHANGED <<tree, head, refs, model, jobs, features>>

AnswerDiff ==
    /\ query.step = "diff"
    /\ query' = IF Missing \in {refs[query.from], refs[query.to]} THEN NoQuery
                ELSE [query EXCEPT !.step = "answered",
                                   !.answer = <<refs[query.from], refs[query.to]>>]
    /\ UNCHANGED <<tree, head, refs, model, jobs, features>>

DiffSeen ==
    /\ query.step = "answered"
    /\ query' = NoQuery
    /\ UNCHANGED <<tree, head, refs, model, jobs, features>>

\* The server ends; events the worker had not handled are not read again.
Restart ==
    /\ "restart" \in features
    /\ ~Quiet \/ queue # <<>>
    /\ jobs' = [s \in Slots |-> Idle]
    /\ queue' = <<>>
    /\ query' = NoQuery
    /\ UNCHANGED <<tree, head, refs, checkpoints, requests, features>>

Work(s) ==
    CheckBaseline(s) \/ Stage(s) \/ UpdateRef(s) \/ Diff(s) \/ DeleteEmpty(s) \/ Record(s)

WorkerStep ==
    TakeTurn \/ TakeRevert \/ Restore \/ DeleteStale \/ Complete \/ Work("worker")

Next ==
    \/ Write
    \/ \E s \in Prompts : UserPromptSubmit(s)
    \/ \E s \in Stops : StopHook(s)
    \/ RequestTurn \/ RequestRevert
    \/ WorkerStep
    \/ \E s \in Prompts \cup Stops : Work(s)
    \/ RevertFails \/ \E s \in Slots : JobFails(s)
    \/ AskDiff \/ CheckRefs \/ AnswerDiff \/ DiffSeen
    \/ Restart

Spec == Init /\ [][Next]_vars

-----------------------------------------------------------------------------
(* Properties.                                                                 *)

Steps == {"idle", "check", "stageBaseline", "baseline", "stage", "target", "diff",
          "deleteEmpty", "record", "restore", "deleteStale", "complete"}
JobStates == [step : Steps, count : Counts, staged : Trees \cup {Missing},
              from : Trees \cup {Missing}, to : Trees \cup {Missing}, stale : SUBSET Counts]
Recorded == [count : Counts \ {0}, from : Trees, to : Trees]
Requests == [type : {"thread.turn-start-requested", "thread.checkpoint-revert-requested"},
             count : Counts]
Queries == [step : {"idle", "check", "diff", "answered"}, from : Counts, to : Counts,
            answer : Seq(Trees), seen : SUBSET Recorded]

\* The variables have their types.
TypeOK ==
    /\ tree \in Trees /\ head \in Trees
    /\ refs \in [Counts -> Trees \cup {Missing}]
    /\ checkpoints \subseteq Recorded
    /\ jobs \in [Slots -> JobStates]
    /\ queue \in Seq(Requests)
    /\ query \in Queries

\* A revert that overlaps other work, or whose deletion of refs is cut short, may leave
\* recorded turns without their refs: the safety properties are about the other cases.
RevertsDisturb ==
    /\ "reverts" \in features
    /\ "sequential" \notin features \/ {"faults", "restart"} \cap features # {}

\* When work overlaps, two jobs may capture the first baseline, and the later update wins.
FirstBaselineMoves == "sequential" \notin features

\* What the panel computes for a turn from the refs is what the turn recorded: nobody
\* overwrites or deletes the two refs of a recorded turn (CheckpointReactor.ts), except
\* while a revert that will drop the turn is deleting them.
RecordedKeepsRefs ==
    RevertsDisturb \/ \A c \in checkpoints :
        \/ jobs["worker"].step \in {"deleteStale", "complete"} /\ c.count > jobs["worker"].count
        \/ /\ refs[c.count] = c.to
           /\ refs[c.count - 1] = c.from \/ (c.count = 1 /\ FirstBaselineMoves)

\* A revert gives back the work tree the turn was recorded with; a revert to the start
\* the one before the first turn.
RevertRestores ==
    [][~RevertsDisturb /\ At("worker", "restore") /\ jobs'["worker"].step = "deleteStale" =>
          LET n == jobs["worker"].count
          IN  IF n = 0 THEN \A c \in AtCount(checkpoints, 1) : tree' = c.from
              ELSE \A c \in AtCount(checkpoints, n) : tree' = c.to]_vars

\* A diff over several turns compares the trees of the snapshot it was asked on, however
\* many turns end meanwhile; a revert may take its refs away.
DiffIsRecorded ==
    "reverts" \notin features /\ query.step = "answered" =>
        /\ \A c \in AtCount(query.seen, query.from + 1) :
              query.answer[1] = c.from \/ (query.from = 0 /\ FirstBaselineMoves)
        /\ \A c \in AtCount(query.seen, query.to) : query.answer[2] = c.to

=============================================================================
