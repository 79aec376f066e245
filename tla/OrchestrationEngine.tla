-------------------------- MODULE OrchestrationEngine --------------------------
(***************************************************************************)
(* The orchestration engine and its projection pipeline                    *)
(* (orchestration/Layers/OrchestrationEngine.ts, ProjectionPipeline.ts).   *)
(*                                                                         *)
(* One worker takes commands from a queue.  For each it looks up the       *)
(* command's receipt, decides on the read model in memory and, in one SQL  *)
(* transaction, appends the events, projects them and writes the receipt.  *)
(* After the commit it adopts the new read model, publishes the events and *)
(* answers.  The database survives a crash; everything else is rebuilt     *)
(* from it.  Statements of other fibers wait for an open transaction, so   *)
(* the transaction is one step; between any two other steps clients        *)
(* dispatch and the server may crash.                                      *)
(***************************************************************************)
EXTENDS OrchestrationCommands, FiniteSets

CONSTANTS
    NoEnvelope,      \* the worker has no command in hand
    ProjectorOrder,  \* the projectors, in the order the pipeline runs them
    Histories,       \* logs an earlier version of the program may have left
    Behind,          \* projectors that version may not have had yet
    ReadLimit,       \* DEFAULT_READ_FROM_SEQUENCE_LIMIT
    MaxQueue,        \* how many commands may wait in the queue
    MaxLog,          \* how long appends that escape a rollback may make the log
    Faults           \* the failures enabled in a model

Projector == {ProjectorOrder[k] : k \in DOMAIN ProjectorOrder}

\* "escape": the event store keeps what a rolled back transaction appended, as
\* the non-transactional store of OrchestrationEngine.test.ts does.
Fault == {"lookup", "transaction", "escape", "reconcile", "receipt", "crash"}

\* "retired" stands for the types of events that the program no longer knows.
EventType ==
    Created \cup {"thread.message-sent", "thread.turn-start-requested", "retired"}

\* A possible story: nothing is created twice, no turn starts in a thread that
\* does not exist.
Legal(l) ==
    \A i \in DOMAIN l :
        /\ l[i].type \in Created =>
             \A j \in 1..(i - 1) : l[j].type = l[i].type => l[j].target # l[i].target
        /\ l[i].type \in {"thread.message-sent", "thread.turn-start-requested"} =>
             \E j \in 1..(i - 1) : l[j].type = "thread.created" /\ l[j].target = l[i].target

ASSUME EngineAssumption ==
    /\ NoEnvelope \notin Command
    /\ ProjectorOrder \in Seq(STRING)
    /\ ReadLimit \in Nat \ {0}
    /\ MaxQueue \in Nat \ {0}
    /\ MaxLog \in Nat
    /\ Faults \subseteq Fault
    /\ Behind \subseteq Projector
    /\ \A h \in Histories :
         h \in Seq([type: EventType, target: STRING, command: {NoCommand}]) /\ Legal(h)
    /\ \A c \in Command : c.id # NoCommand
    /\ \A c, d \in Command : c.id = d.id => c = d

VARIABLES
    \* the database
    log,        \* orchestration_events; the index is the sequence number
    receipts,   \* orchestration_command_receipts
    cursor,     \* projection_state: last_applied_sequence by projector
    rows,       \* projection tables: the events each projector has applied
    \* the server's memory
    model,      \* readModel
    queue,      \* commandQueue
    pc,         \* where the worker is
    current,    \* the envelope in hand
    start,      \* dispatchStartSequence
    error,      \* the error of the command in hand
    outbox,     \* sequences still to be published for it
    published,  \* sequences published since the start of the server
    boot,       \* length of the log when the worker started
    replay,     \* bootstrap: the projector that replays and its remaining reads
    \* the clients
    answers     \* what the clients of each command were told

database == <<log, receipts, cursor, rows>>
vars == <<log, receipts, cursor, rows, model, queue, pc, current, start, error,
          outbox, published, boot, replay, answers>>

CommandId == {c.id : c \in Command} \cup {NoCommand}
Event == [type: EventType, target: STRING, command: CommandId]
Refusal == 0
Unseen == [status |-> "none", sequence |-> 0]

\* The enumeration of a finite set of numbers in ascending order.
Ascending(S) ==
    {s \in [1..Cardinality(S) -> S] : \A i, j \in 1..Cardinality(S) : i < j => s[i] < s[j]}

Readable_Inclusive(n) == {i \in DOMAIN log : i >= n /\ log[i].type # "retired"}

\* readFromSequence without its limit: later events whose type is still known.
Readable(n) == {i \in DOMAIN log : i > n /\ log[i].type # "retired"}

TypeOK ==
    /\ log \in Seq(Event)
    /\ receipts \in [Command -> [status: {"none", "accepted", "rejected"}, sequence: Nat]]
    /\ cursor \in [Projector -> Nat]
    /\ rows \in [Projector -> Seq(Nat)]
    /\ model \in [sequence: Nat, known: SUBSET (Created \X STRING)]
    /\ queue \in Seq(Command)
    /\ pc \in {"boot", "idle", "decide", "adopt", "failed", "publish", "refused"}
    /\ current \in Command \cup {NoEnvelope}
    /\ start \in Nat
    /\ error \in {"none", "invariant", "storage"}
    /\ outbox \in Seq(Nat)
    /\ published \in Seq(Nat)
    /\ boot \in Nat
    /\ replay \in [projector: Nat, left: Nat]
    /\ answers \in [Command -> SUBSET Nat]

EmptyReadModel == [sequence |-> 0, known |-> {}]

Init ==
    /\ log \in Histories
    /\ receipts = [c \in Command |-> Unseen]
    /\ \E new \in SUBSET Behind, all \in Ascending(Readable(0)) :
         /\ cursor = [p \in Projector |-> IF p \in new THEN 0 ELSE Len(log)]
         /\ rows = [p \in Projector |-> IF p \in new THEN <<>> ELSE all]
    /\ model = EmptyReadModel
    /\ queue = <<>>
    /\ pc = "boot"
    /\ current = NoEnvelope
    /\ start = 0
    /\ error = "none"
    /\ outbox = <<>>
    /\ published = <<>>
    /\ boot = 0
    /\ replay = [projector |-> 1, left |-> ReadLimit]
    /\ answers = [c \in Command |-> {}]

-----------------------------------------------------------------------------
(* Helpers *)

Least(S) == CHOOSE x \in S : \A y \in S : x <= y
Greatest(S) == CHOOSE x \in S : \A y \in S : y <= x

Projected_Forgets(m, l, is) ==
    IF is = {} THEN m
    ELSE [sequence |-> Greatest(is), known |-> CreatedBy(l, is)]

\* The read model m after projectEvent of the events `is` of l, in order.
Projected(m, l, is) ==
    IF is = {} THEN m
    ELSE [sequence |-> Greatest(is), known |-> m.known \cup CreatedBy(l, is)]

\* The numbers after n up to m, in order.
Numbers(n, m) == [i \in 1..(m - n) |-> n + i]

-----------------------------------------------------------------------------
(* Startup *)

\* bootstrapProjector: replay the next event, in a transaction of its own.
ReplayEvent ==
    /\ pc = "boot"
    /\ replay.projector \in DOMAIN ProjectorOrder
    /\ replay.left > 0
    /\ LET p == ProjectorOrder[replay.projector]
           i == Least(Readable(cursor[p]))
       IN  /\ Readable(cursor[p]) # {}
           /\ rows' = [rows EXCEPT ![p] = Append(@, i)]
           /\ cursor' = [cursor EXCEPT ![p] = i]
    /\ replay' = [replay EXCEPT !.left = @ - 1]
    /\ UNCHANGED <<log, receipts, model, queue, pc, current, start, error, outbox,
                   published, boot, answers>>

NextProjector ==
    /\ pc = "boot"
    /\ replay.projector \in DOMAIN ProjectorOrder
    /\ replay.left = 0 \/ Readable(cursor[ProjectorOrder[replay.projector]]) = {}
    /\ replay' = [projector |-> replay.projector + 1, left |-> ReadLimit]
    /\ UNCHANGED <<database, model, queue, pc, current, start, error, outbox,
                   published, boot, answers>>

\* Rebuild the read model from readAll() and fork the worker.
StartWorker ==
    /\ pc = "boot"
    /\ replay.projector \notin DOMAIN ProjectorOrder
    /\ model' = Projected(EmptyReadModel, log, Readable(0))
    /\ boot' = Len(log)
    /\ pc' = "idle"
    /\ UNCHANGED <<database, queue, current, start, error, outbox, published, replay,
                   answers>>

-----------------------------------------------------------------------------
(* Commands *)

\* dispatch: any client, with a new command or one it repeats.
Dispatch(c) ==
    /\ pc # "boot"
    /\ Len(queue) < MaxQueue
    /\ queue' = Append(queue, c)
    /\ UNCHANGED <<database, model, pc, current, start, error, outbox, published,
                   boot, replay, answers>>

Take ==
    /\ pc = "idle"
    /\ queue # <<>>
    /\ current' = Head(queue)
    /\ queue' = Tail(queue)
    /\ start' = model.sequence
    /\ error' = "none"
    /\ pc' = "decide"
    /\ UNCHANGED <<database, model, outbox, published, boot, replay, answers>>

FirstTime_RejectedRetries(c) == receipts[c].status # "accepted"

FirstTime(c) == receipts[c].status = "none"

AnswerOf(receipt) == IF receipt.status = "accepted" THEN receipt.sequence ELSE Refusal

\* The command has a receipt: answer from it.
AnswerAgain ==
    /\ pc = "decide"
    /\ ~FirstTime(current)
    /\ answers' = [answers EXCEPT ![current] = @ \cup {AnswerOf(receipts[current])}]
    /\ current' = NoEnvelope
    /\ pc' = "idle"
    /\ UNCHANGED <<database, model, queue, start, error, outbox, published, boot,
                   replay>>

Fail_KillsWorker(e) ==
    /\ error' = e
    /\ pc' = "dead"
    /\ UNCHANGED <<receipts, cursor, rows, model, queue, current, start, outbox,
                   published, boot, replay, answers>>

Fail(e) ==
    /\ error' = e
    /\ pc' = "failed"
    /\ UNCHANGED <<receipts, cursor, rows, model, queue, current, start, outbox,
                   published, boot, replay, answers>>

LookupFails ==
    /\ "lookup" \in Faults
    /\ pc = "decide"
    /\ Fail("storage")
    /\ UNCHANGED log

\* The decider raises OrchestrationCommandInvariantError.
Reject ==
    /\ pc = "decide"
    /\ FirstTime(current)
    /\ ~Accepts(model.known, current)
    /\ Fail("invariant")
    /\ UNCHANGED log

WithAccepted(c, n) == [receipts EXCEPT ![c] = [status |-> "accepted", sequence |-> n]]

\* committedEvents
Appended == Numbers(Len(log), Len(log'))

\* The transaction commits.
Commit ==
    /\ pc = "decide"
    /\ FirstTime(current)
    /\ Accepts(model.known, current)
    /\ log' = log \o Batch(current)
    /\ outbox' = Appended
    /\ cursor' = [p \in Projector |-> Len(log')]
    /\ rows' = [p \in Projector |-> rows[p] \o outbox']
    /\ receipts' = WithAccepted(current, Len(log'))
    /\ pc' = "adopt"
    /\ UNCHANGED <<model, queue, current, start, error, published, boot, replay, answers>>

\* Anything in the transaction fails, and it rolls back.
Abort ==
    /\ "transaction" \in Faults
    /\ pc = "decide"
    /\ FirstTime(current)
    /\ Accepts(model.known, current)
    /\ Fail("storage")
    /\ \/ UNCHANGED log
       \/ /\ "escape" \in Faults
          /\ \E k \in DOMAIN Batch(current) :
               /\ Len(log) + k <= MaxLog
               /\ log' = log \o SubSeq(Batch(current), 1, k)

\* readModel = committedCommand.nextReadModel
Adopt ==
    /\ pc = "adopt"
    /\ model' = Projected(model, log, {outbox[i] : i \in DOMAIN outbox})
    /\ pc' = "publish"
    /\ UNCHANGED <<database, queue, current, start, error, outbox, published, boot,
                   replay, answers>>

ToReconcile_OnlyFirst == {i \in Readable(start) : i = start + 1}

\* readFromSequence(dispatchStartSequence)
ToReconcile ==
    {i \in Readable(start) : Cardinality({j \in Readable(start) : j < i}) < ReadLimit}

\* reconcileReadModelAfterDispatchFailure: adopt whatever was persisted although
\* the dispatch failed; its own failure is only logged.
Reconcile ==
    /\ pc = "failed"
    /\ \/ /\ model' = Projected(model, log, ToReconcile)
          /\ outbox' \in Ascending(ToReconcile)
       \/ /\ "reconcile" \in Faults
          /\ UNCHANGED <<model, outbox>>
    /\ pc' = "publish"
    /\ UNCHANGED <<database, queue, current, start, error, published, boot, replay, answers>>

Publish ==
    /\ pc = "publish"
    /\ outbox # <<>>
    /\ published' = Append(published, Head(outbox))
    /\ outbox' = Tail(outbox)
    /\ UNCHANGED <<database, model, queue, pc, current, start, error, boot, replay, answers>>

Done ==
    /\ current' = NoEnvelope
    /\ pc' = "idle"
    /\ UNCHANGED <<database, model, queue, start, error, outbox, published, boot, replay>>

AnswerAccepted ==
    /\ pc = "publish"
    /\ outbox = <<>>
    /\ error = "none"
    /\ answers' = [answers EXCEPT ![current] = @ \cup {receipts[current].sequence}]
    /\ Done

\* A failure that is no verdict: the client learns nothing about the command.
AnswerStorageError ==
    /\ pc = "publish"
    /\ outbox = <<>>
    /\ error = "storage"
    /\ UNCHANGED answers
    /\ Done

\* The rejected receipt is a statement of its own; if it fails, that is ignored.
RecordRefusal ==
    /\ pc = "publish"
    /\ outbox = <<>>
    /\ error = "invariant"
    /\ \/ receipts' = [receipts EXCEPT ![current] = [status |-> "rejected",
                                                    sequence |-> model.sequence]]
       \/ /\ "receipt" \in Faults
          /\ UNCHANGED receipts
    /\ pc' = "refused"
    /\ UNCHANGED <<log, cursor, rows, model, queue, current, start, error, outbox,
                   published, boot, replay, answers>>

AnswerRefused ==
    /\ pc = "refused"
    /\ answers' = [answers EXCEPT ![current] = @ \cup {Refusal}]
    /\ Done

\* The process ends and starts again: an open transaction is rolled back, the
\* queue and its clients' pending calls are lost.
Crash ==
    /\ "crash" \in Faults
    /\ model' = EmptyReadModel
    /\ queue' = <<>>
    /\ pc' = "boot"
    /\ current' = NoEnvelope
    /\ start' = 0
    /\ error' = "none"
    /\ outbox' = <<>>
    /\ published' = <<>>
    /\ boot' = 0
    /\ replay' = [projector |-> 1, left |-> ReadLimit]
    /\ UNCHANGED <<database, answers>>

-----------------------------------------------------------------------------

Startup == ReplayEvent \/ NextProjector \/ StartWorker

Worker ==
    \/ Take \/ AnswerAgain \/ LookupFails \/ Reject \/ Commit \/ Abort \/ Adopt
    \/ Reconcile \/ Publish \/ AnswerAccepted \/ AnswerStorageError
    \/ RecordRefusal \/ AnswerRefused

Next ==
    \/ Startup
    \/ \E c \in Command : Dispatch(c)
    \/ Worker
    \/ Crash

Spec == Init /\ [][Next]_vars

\* The runtime runs every fiber that can run.
FairSpec == Spec /\ WF_vars(Startup) /\ WF_vars(Worker)

-----------------------------------------------------------------------------
(* Properties *)

EventsOf(c) == {i \in DOMAIN log : log[i].command = c.id}

\* A command takes effect at most once and as a whole: its events are one
\* unbroken batch, whatever is repeated, aborted or lost in a crash.
AppliedOnce ==
    \A c \in Command :
        EventsOf(c) # {} =>
            \E n \in 0..(Len(log) - Len(Batch(c))) :
                /\ EventsOf(c) = (n + 1)..(n + Len(Batch(c)))
                /\ SubSeq(log, n + 1, n + Len(Batch(c))) = Batch(c)

\* A command has an accepted receipt exactly if its events are in the log, and
\* the receipt names the last of them: a refused command left no event.
ReceiptsExact ==
    \A c \in Command :
        /\ receipts[c].status = "accepted" <=> EventsOf(c) # {}
        /\ receipts[c].status = "accepted" =>
             /\ receipts[c].sequence \in EventsOf(c)
             /\ \A i \in EventsOf(c) : i <= receipts[c].sequence

\* All answers to a command agree, over retries and restarts, and an
\* acknowledged command is in the log (as long as refusals can be recorded).
AnswersAgree ==
    \A c \in Command :
        /\ \A s, r \in answers[c] : s = r
        /\ \A s \in answers[c] \ {Refusal} : s \in EventsOf(c)

\* The log never creates a thing twice or starts a turn in a missing thread:
\* each decision was taken on a read model that had seen all earlier events.
HistoryLegal == Legal(log)

\* Whenever the worker is free or about to decide, the read model in memory is
\* the projection of the whole log: after commits, failures and restarts.
ModelCurrent ==
    pc \in {"idle", "decide"} => model = Projected(EmptyReadModel, log, Readable(0))

\* Subscribers see each event persisted since the server's start once, in
\* order, with none left out, also when a failed dispatch left events behind.
EveryEventPublished ==
    pc \notin {"boot", "failed"} => published \o outbox = Numbers(boot, Len(log))

\* Both: after every dispatch, also one that failed when its events were stored, memory
\* and subscribers have what the log has (reconcileReadModelAfterDispatchFailure).
CaughtUp == ModelCurrent /\ EveryEventPublished

\* Once the worker runs, each projector has applied every event there is, each
\* once and in order: bootstrap resumes where a crash or an upgrade left it.
ProjectionsExact ==
    pc # "boot" => \A p \in Projector : rows[p] \in Ascending(Readable(0))

\* A queued command gets its turn, unless the server restarts.
QueueServed ==
    \A c \in Command : (\E i \in DOMAIN queue : queue[i] = c) ~> (current = c \/ pc = "boot")

\* The engine implements the command log.
Verdict ==
    [c \in Command |-> IF receipts[c].status = "rejected"
                       THEN [status |-> "rejected", sequence |-> Refusal] ELSE receipts[c]]

Promise == INSTANCE CommandLog WITH verdict <- Verdict

Implements == Promise!Spec
=============================================================================
