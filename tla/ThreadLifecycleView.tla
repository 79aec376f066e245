--------------------------- MODULE ThreadLifecycleView ---------------------------
(* threadLifecycle.ts of the shared package: what a client offers for a thread   *)
(* of its snapshot and whether it lists it as settled or snoozed.  The server    *)
(* decides the same questions by code of its own (ThreadDecider).  The status of *)
(* the hooks, which only the client has, is not part of the snapshot.            *)
EXTENDS ThreadDecider

CONSTANT SettleAfter  \* autoSettleAfterDays, on the model's clock

UserMessageTimes(t) ==
    {t.messages[i].at : i \in {j \in DOMAIN t.messages : t.messages[j].role = "user"}}

QueuedTurnStart_Short(t, now) ==
    \E at \in UserMessageTimes(t) :
        /\ \A other \in UserMessageTimes(t) : other <= at
        /\ now - at < Grace
        /\ t.session.status # "error"
        /\ \A c \in {t.turn.requestedAt, t.turn.startedAt, t.turn.completedAt} :
              c = NoTime \/ c < at
QueuedTurnStart(t, now) ==
    \E at \in UserMessageTimes(t) :
        /\ \A other \in UserMessageTimes(t) : other <= at
        /\ now - at <= Grace
        /\ t.session.status # "error"
        /\ \A c \in {t.turn.requestedAt, t.turn.startedAt, t.turn.completedAt} :
              c = NoTime \/ c < at

\* The requests that the activities, in their order, open and do not close.
StillOpen(activities, requested, resolved) ==
    {activities[i].request : i \in {j \in DOMAIN activities :
        /\ activities[j].kind = requested
        /\ \A k \in (j + 1)..Len(activities) :
              activities[k].kind = resolved => activities[k].request # activities[j].request}}

PendingApprovals(t) == StillOpen(t.activities, "approval.requested", "approval.resolved")
PendingUserInputs(t) ==
    StillOpen(t.activities, "user-input.requested", "user-input.resolved")
Blocked(t) == PendingApprovals(t) # {} \/ PendingUserInputs(t) # {}

CanSettle(t, now) ==
    /\ ~Blocked(t)
    /\ t.session.status \notin {"starting", "running"}
    /\ t.turn.state # "running"
    /\ ~QueuedTurnStart(t, now)

CanSnooze(t, now) == ~Blocked(t) /\ ~QueuedTurnStart(t, now)

TurnEndedSince(t) ==
    /\ t.snoozedAt # NoTime
    /\ t.turn.state = "completed"
    /\ t.turn.completedAt > t.snoozedAt

\* Something asks for the user, the session failed or a turn ended since the thread was
\* snoozed.
RaisedHandWhileSnoozed(t) ==
    \/ Blocked(t)
    \/ t.session.status = "error" /\ (t.snoozedAt = NoTime \/ t.session.at > t.snoozedAt)
    \/ TurnEndedSince(t)

EffectiveSnoozed_Inclusive(t, now) ==
    t.snoozedUntil >= now /\ ~RaisedHandWhileSnoozed(t)
EffectiveSnoozed(t, now) == t.snoozedUntil > now /\ ~RaisedHandWhileSnoozed(t)

WokeAt(t, now) ==
    IF t.snoozedUntil = NoTime THEN NoTime
    ELSE IF RaisedHandWhileSnoozed(t)
    THEN IF TurnEndedSince(t) THEN t.turn.completedAt
         ELSE IF t.session # NoSession THEN t.session.at ELSE t.snoozedAt
    ELSE IF t.snoozedUntil <= now THEN t.snoozedUntil ELSE NoTime

LastActivityAt(t) ==
    LET times == {t.lastInteractedAt, t.turn.requestedAt, t.turn.startedAt,
                  t.turn.completedAt}
    IN  CHOOSE m \in times : \A other \in times : other <= m

EffectiveSettled(t, now) ==
    /\ CanSettle(t, now)
    /\ \/ t.settled = "settled"
       \/ t.settled = "none" /\ LastActivityAt(t) + SettleAfter < now
=============================================================================
