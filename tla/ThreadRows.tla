------------------------------- MODULE ThreadRows -------------------------------
(* One thread in the projection tables, how the projectors of                    *)
(* ProjectionPipeline.ts write it, and the thread ProjectionSnapshotQuery.ts     *)
(* reads back: what a restarted server starts from and what clients are sent.    *)
EXTENDS ThreadReadModel

NoCount == 0
NoMessage == 0

\* A row of projection_turns that has a turn id; its checkpoint count may be null.
TurnRow(id, pending, assistant, state, requested, started, completed, count) ==
    [turn |-> id, pending |-> pending, assistant |-> assistant, state |-> state,
     requestedAt |-> requested, startedAt |-> started, completedAt |-> completed,
     count |-> count]

\* "pending": the one row without a turn id, a message that waits for its turn.
NewRows(created) ==
    [thread |-> [deleted |-> FALSE, archived |-> FALSE, title |-> "initial",
                 titleSource |-> "auto", status |-> "new", createdAt |-> created,
                 lastInteractedAt |-> created, settled |-> "none", settledAt |-> NoTime,
                 snoozedUntil |-> NoTime, snoozedAt |-> NoTime, latestTurn |-> NoTurnId],
     messages |-> <<>>, activities |-> <<>>, session |-> NoSession, turns |-> {},
     pending |-> NoMessage, approvals |-> {}]

-----------------------------------------------------------------------------
(* projection.thread-messages, projection.thread-activities and                *)
(* projection.thread-sessions.  The first two read the turns as the events     *)
(* before this one left them: the turns' projector runs later.                 *)

KeptTurns(turns, n) == {r \in turns : r.count # NoCount /\ r.count <= n}
TurnIds(turns) == {r.turn : r \in turns}

MessageRows(rows, e) ==
    CASE e.type = "thread.message-sent" ->
            LET same == {i \in DOMAIN rows.messages : rows.messages[i].id = e.message.id}
            IN  IF same = {} THEN Append(rows.messages, e.message)
                ELSE [i \in DOMAIN rows.messages |->
                         IF i \in same THEN [rows.messages[i] EXCEPT !.turn = e.message.turn]
                         ELSE rows.messages[i]]
      [] e.type = "thread.reverted" ->
            LET kept == KeptTurns(rows.turns, e.count)
                named == UNION {{r.pending, r.assistant} : r \in kept}
            IN  RetainMessages(rows.messages, TurnIds(kept), named, e.count)
      [] e.type = "thread.deleted" -> <<>>
      [] OTHER -> rows.messages

ActivityRows(rows, e) ==
    CASE e.type = "thread.activity-appended" -> WithActivity(rows.activities, e.activity)
      [] e.type = "thread.reverted" ->
            RetainActivities(rows.activities, TurnIds(KeptTurns(rows.turns, e.count)))
      [] e.type = "thread.deleted" -> <<>>
      [] OTHER -> rows.activities

SessionRow(rows, e) ==
    CASE e.type = "thread.session-set" -> [status |-> e.session, at |-> e.at]
      [] e.type = "thread.deleted" -> NoSession
      [] OTHER -> rows.session

-----------------------------------------------------------------------------
(* projection.thread-turns                                                     *)

Known(rows, id) == \E r \in rows.turns : r.turn = id
RowOf(rows, id) == CHOOSE r \in rows.turns : r.turn = id
Or(value, default) == IF value = 0 THEN default ELSE value

Upsert(turns, row) == {r \in turns : r.turn # row.turn} \cup {row}

\* A message's id is the instant it was sent.
PendingSince(rows, e) == Or(rows.pending, e.at)

\* A running session takes the waiting message for its turn.
RunningTurn(rows, e) ==
    IF Known(rows, e.turn)
    THEN LET r == RowOf(rows, e.turn)
         IN  [r EXCEPT !.state = IF @ \in {"completed", "error"} THEN @ ELSE "running",
                       !.pending = Or(@, rows.pending),
                       !.startedAt = Or(@, PendingSince(rows, e)),
                       !.requestedAt = Or(@, PendingSince(rows, e))]
    ELSE TurnRow(e.turn, rows.pending, NoMessage, "running",
                 PendingSince(rows, e), PendingSince(rows, e), NoTime, NoCount)

AnsweredTurn(rows, e) ==
    IF Known(rows, e.message.turn)
    THEN LET r == RowOf(rows, e.message.turn)
         IN  [r EXCEPT !.assistant = e.message.id,
                       !.state = IF @ \in {"interrupted", "error"} THEN @ ELSE "completed",
                       !.completedAt = Or(@, e.message.at),
                       !.startedAt = Or(@, e.message.at),
                       !.requestedAt = Or(@, e.message.at)]
    ELSE TurnRow(e.message.turn, NoMessage, e.message.id, "completed",
                 e.message.at, e.message.at, e.message.at, NoCount)

InterruptedTurn(rows, e) ==
    IF Known(rows, e.turn)
    THEN LET r == RowOf(rows, e.turn)
         IN  [r EXCEPT !.state = "interrupted",
                       !.completedAt = Or(@, e.at), !.startedAt = Or(@, e.at),
                       !.requestedAt = Or(@, e.at)]
    ELSE TurnRow(e.turn, NoMessage, NoMessage, "interrupted", e.at, e.at, e.at, NoCount)

\* clearCheckpointTurnConflict: another turn with this count loses its checkpoint.
WithoutConflict(turns, e) ==
    {IF r.count = e.count /\ r.turn # e.turn THEN [r EXCEPT !.count = NoCount] ELSE r :
        r \in turns}

CapturedTurn(rows, e) ==
    IF Known(rows, e.turn)
    THEN LET r == RowOf(rows, e.turn)
         IN  [r EXCEPT !.assistant = NoMessage, !.state = "completed", !.count = e.count,
                       !.startedAt = Or(@, e.at), !.requestedAt = Or(@, e.at),
                       !.completedAt = e.at]
    ELSE TurnRow(e.turn, NoMessage, NoMessage, "completed", e.at, e.at, e.at, e.count)

TurnRows(rows, e) ==
    CASE e.type = "thread.session-set" /\ e.session = "running" /\ e.turn # NoTurnId ->
            Upsert(rows.turns, RunningTurn(rows, e))
      [] e.type = "thread.message-sent" /\ e.message.role = "assistant"
                                        /\ e.message.turn # NoTurnId ->
            Upsert(rows.turns, AnsweredTurn(rows, e))
      [] e.type = "thread.turn-interrupt-requested" ->
            Upsert(rows.turns, InterruptedTurn(rows, e))
      [] e.type = "thread.turn-diff-completed" ->
            Upsert(WithoutConflict(rows.turns, e), CapturedTurn(rows, e))
      [] e.type = "thread.reverted" -> KeptTurns(rows.turns, e.count)
      [] e.type = "thread.deleted" -> {}
      [] OTHER -> rows.turns

PendingRow(rows, e) ==
    CASE e.type = "thread.turn-start-requested" -> e.message
      [] e.type = "thread.session-set" /\ e.session = "running" /\ e.turn # NoTurnId ->
            NoMessage
      [] e.type \in {"thread.reverted", "thread.deleted"} -> NoMessage
      [] OTHER -> rows.pending

-----------------------------------------------------------------------------
(* projection.pending-approvals: once resolved, a request stays resolved.      *)

ApprovalRows(rows, e) ==
    LET resolve(q) == (rows.approvals \ {[request |-> q, status |-> "pending"]})
                        \cup {[request |-> q, status |-> "resolved"]}
    IN  CASE e.type = "thread.activity-appended" /\ e.activity.kind = "approval.resolved" ->
                resolve(e.activity.request)
          [] e.type = "thread.activity-appended" /\ e.activity.kind = "approval.requested" ->
                IF [request |-> e.activity.request, status |-> "resolved"] \in rows.approvals
                THEN rows.approvals
                ELSE rows.approvals
                        \cup {[request |-> e.activity.request, status |-> "pending"]}
          [] e.type = "thread.approval-response-requested" -> resolve(e.request)
          [] e.type = "thread.deleted" -> {}
          [] OTHER -> rows.approvals

-----------------------------------------------------------------------------
(* projection.threads                                                          *)

ThreadRow(row, e) ==
    CASE e.type = "thread.deleted" -> [row EXCEPT !.deleted = TRUE]
      [] e.type = "thread.settled" ->
            [row EXCEPT !.settled = "settled", !.settledAt = e.settledAt]
      [] e.type = "thread.unsettled" ->
            [row EXCEPT !.settled = IF e.reason = "user" THEN "active" ELSE "none",
                        !.settledAt = NoTime]
      [] e.type = "thread.snoozed" ->
            [row EXCEPT !.snoozedUntil = e.snoozedUntil, !.snoozedAt = e.snoozedAt]
      [] e.type = "thread.unsnoozed" ->
            [row EXCEPT !.snoozedUntil = NoTime, !.snoozedAt = NoTime]
      [] e.type = "thread.meta-updated" ->
            IF "archived" \in DOMAIN e THEN [row EXCEPT !.archived = e.archived]
            ELSE IF e.titleSource = "auto" /\ row.titleSource = "manual" THEN row
            ELSE [row EXCEPT !.title = e.title, !.titleSource = e.titleSource]
      [] e.type = "thread.terminal-status-changed" -> [row EXCEPT !.status = e.status]
      [] e.type = "thread.session-set" ->
            [row EXCEPT !.latestTurn = e.turn,
                        !.lastInteractedAt = IF /\ e.session = "running"
                                                /\ e.turn \notin {NoTurnId, row.latestTurn}
                                             THEN e.at ELSE @]
      [] e.type = "thread.turn-diff-completed" -> [row EXCEPT !.latestTurn = e.turn]
      [] e.type = "thread.reverted" -> [row EXCEPT !.latestTurn = NoTurnId]
      [] OTHER -> row

\* Every projector, in one transaction.
ProjectRows(rows, e) ==
    [thread |-> ThreadRow(rows.thread, e), messages |-> MessageRows(rows, e),
     activities |-> ActivityRows(rows, e), session |-> SessionRow(rows, e),
     turns |-> TurnRows(rows, e), pending |-> PendingRow(rows, e),
     approvals |-> ApprovalRows(rows, e)]

ProjectAll(rows, events) ==
    LET after[i \in 0..Len(events)] ==
            IF i = 0 THEN rows ELSE ProjectRows(after[i - 1], events[i])
    IN  after[Len(events)]

-----------------------------------------------------------------------------
(* getSnapshot                                                                 *)

Later(r, s) == \/ r.requestedAt > s.requestedAt
               \/ r.requestedAt = s.requestedAt /\ r.turn >= s.turn

LatestTurn(turns) ==
    IF turns = {} THEN NoTurn
    ELSE LET r == CHOOSE r \in turns : \A s \in turns : Later(r, s)
         IN  [id |-> r.turn, state |-> r.state, requestedAt |-> r.requestedAt,
              startedAt |-> r.startedAt, completedAt |-> r.completedAt]

\* In the order of their counts, which no two rows share.
CheckpointsOf(turns) ==
    LET counts == {r.count : r \in turns} \ {NoCount}
        checkpoint(n) == LET r == CHOOSE r \in turns : r.count = n
                         IN  [turn |-> r.turn, count |-> n, at |-> r.completedAt]
    IN  [i \in 1..Cardinality(counts) |-> checkpoint(Nth(counts, i))]

Snapshot(rows) ==
    [deleted |-> rows.thread.deleted, archived |-> rows.thread.archived,
     title |-> rows.thread.title, titleSource |-> rows.thread.titleSource,
     status |-> rows.thread.status, createdAt |-> rows.thread.createdAt,
     lastInteractedAt |-> rows.thread.lastInteractedAt,
     settled |-> rows.thread.settled, settledAt |-> rows.thread.settledAt,
     snoozedUntil |-> rows.thread.snoozedUntil, snoozedAt |-> rows.thread.snoozedAt,
     session |-> rows.session, turn |-> LatestTurn(rows.turns),
     messages |-> rows.messages, activities |-> rows.activities,
     checkpoints |-> CheckpointsOf(rows.turns)]
=============================================================================
