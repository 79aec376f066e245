----------------------------- MODULE ThreadDecider -----------------------------
(* decider.ts for one thread: the events a command leads to, given the thread of *)
(* the read model; <<>> when the command is rejected.  A command carries the     *)
(* instant "at" it is decided at.                                                *)
EXTENDS ThreadReadModel

CONSTANT Grace  \* QUEUED_TURN_START_GRACE_MS, two minutes

ASSUME GraceAssumption == Grace \in Nat

Event(type) == [type |-> type]

\* Requests asked and not answered, in the order of the activities.
OpenRequests(activities) ==
    {activities[i].request : i \in {j \in DOMAIN activities :
        /\ activities[j].kind \in {"approval.requested", "user-input.requested"}
        /\ ~\E k \in (j + 1)..Len(activities) :
              /\ activities[k].request = activities[j].request
              /\ activities[k].kind =
                    IF activities[j].kind = "approval.requested"
                    THEN "approval.resolved" ELSE "user-input.resolved"}}

\* A message of the last two minutes that no turn has followed.
HasQueuedTurnStart(t, now) ==
    LET users == {t.messages[i].at : i \in {j \in DOMAIN t.messages :
                                                t.messages[j].role = "user"}}
        newest == CHOOSE m \in users : \A n \in users : n <= m
    IN  /\ users # {}
        /\ now - newest <= Grace
        /\ t.session.status # "error"
        /\ \/ t.turn = NoTurn
           \/ \A at \in {t.turn.requestedAt, t.turn.startedAt, t.turn.completedAt} :
                 at < newest

\* hookStatus, which the code tests too, is never set in the read model.
HasActiveWork(t) ==
    t.session.status \in {"starting", "running"} \/ t.turn.state = "running"

Gone(t) == t.archived \/ t.deleted

Settle(t, c) ==
    IF \/ Gone(t) \/ HasActiveWork(t) \/ OpenRequests(t.activities) # {}
       \/ HasQueuedTurnStart(t, c.at)
    THEN <<>>
    ELSE <<[type |-> "thread.settled",
            settledAt |-> IF t.settled = "settled" /\ t.settledAt # NoTime
                          THEN t.settledAt ELSE c.at]>>

Unsettle(t, c) ==
    IF Gone(t) THEN <<>> ELSE <<[type |-> "thread.unsettled", reason |-> c.reason]>>

Snooze(t, c) ==
    IF \/ Gone(t) \/ c.until <= c.at \/ OpenRequests(t.activities) # {}
       \/ HasQueuedTurnStart(t, c.at)
    THEN <<>>
    ELSE <<[type |-> "thread.snoozed", snoozedUntil |-> c.until,
            snoozedAt |-> IF t.snoozedUntil = c.until /\ t.snoozedAt # NoTime
                          THEN t.snoozedAt ELSE c.at]>>

Unsnooze(t, c) == IF Gone(t) THEN <<>> ELSE <<Event("thread.unsnoozed")>>

\* Work that begins takes a thread out of "settled" and out of "kept active".
Unsettled(t) ==
    IF t.settled = "none" THEN <<>>
    ELSE <<[type |-> "thread.unsettled", reason |-> "activity"]>>

Unsnoozed(t) == IF t.snoozedUntil = NoTime THEN <<>> ELSE <<Event("thread.unsnoozed")>>

TurnStart(t, c) ==
    Unsettled(t) \o Unsnoozed(t)
    \o <<[type |-> "thread.message-sent",
          message |-> [id |-> c.at, role |-> "user", turn |-> NoTurnId, at |-> c.at]],
         [type |-> "thread.turn-start-requested", message |-> c.at]>>

SetSession(t, c) ==
    (IF c.session \in {"starting", "running"} THEN Unsettled(t) ELSE <<>>)
    \o <<[type |-> "thread.session-set", session |-> c.session, turn |-> c.turn,
          at |-> c.at]>>

AppendActivity(t, c) ==
    (IF c.activity.kind \in {"approval.requested", "user-input.requested"}
     THEN Unsettled(t) ELSE <<>>)
    \o <<[type |-> "thread.activity-appended", activity |-> c.activity]>>

Decide(t, c) ==
    CASE c.type = "thread.delete" -> <<Event("thread.deleted")>>
      [] c.type = "thread.settle" -> Settle(t, c)
      [] c.type = "thread.unsettle" -> Unsettle(t, c)
      [] c.type = "thread.snooze" -> Snooze(t, c)
      [] c.type = "thread.unsnooze" -> Unsnooze(t, c)
      [] c.type = "thread.archive" ->
            <<[type |-> "thread.meta-updated", archived |-> c.archived]>>
      [] c.type = "thread.rename" ->
            <<[type |-> "thread.meta-updated", title |-> c.title,
               titleSource |-> c.titleSource]>>
      [] c.type = "thread.turn.start" -> TurnStart(t, c)
      [] c.type = "thread.turn.interrupt" ->
            <<[type |-> "thread.turn-interrupt-requested", turn |-> c.turn, at |-> c.at]>>
      [] c.type = "thread.approval.respond" ->
            <<[type |-> "thread.approval-response-requested", request |-> c.request]>>
      [] c.type = "thread.session.set" -> SetSession(t, c)
      [] c.type = "thread.message.assistant.complete" ->
            <<[type |-> "thread.message-sent",
               message |-> [id |-> c.at, role |-> "assistant", turn |-> c.turn,
                            at |-> c.at]]>>
      [] c.type = "thread.turn.diff.complete" ->
            <<[type |-> "thread.turn-diff-completed", turn |-> c.turn,
               count |-> c.count, at |-> c.at]>>
      [] c.type = "thread.revert.complete" ->
            <<[type |-> "thread.reverted", count |-> c.count]>>
      [] c.type = "thread.activity.append" -> AppendActivity(t, c)
      [] c.type = "thread.terminal.statusChanged" ->
            <<[type |-> "thread.terminal-status-changed", status |-> c.status]>>
=============================================================================
