---------------------------- MODULE ThreadReadModel ----------------------------
(* One thread of the read model the server keeps in memory, and how projector.ts *)
(* folds an event into it.  An instant is the value of a logical clock and 0 is  *)
(* null; a turn is a positive number and 0 is null.  Texts, models, branches and *)
(* attachments are left out: no decision of the server depends on them.          *)
EXTENDS Naturals, Sequences, FiniteSets

CONSTANTS MaxMessages,    \* MAX_THREAD_MESSAGES, 2000 in the code
          MaxCheckpoints, \* MAX_THREAD_CHECKPOINTS, 500 in the code
          MaxActivities   \* the bound on activities, 500 in the code

ASSUME CapsAssumption == {MaxMessages, MaxCheckpoints, MaxActivities} \subseteq Nat \ {0}

NoTime == 0
NoTurnId == 0
NoTurn == [id |-> NoTurnId, state |-> "none",
           requestedAt |-> NoTime, startedAt |-> NoTime, completedAt |-> NoTime]

\* The session's status and when it was last updated; none was ever set.
NoSession == [status |-> "none", at |-> NoTime]

\* A thread as "thread.created" leaves it.
NewThread(created) ==
    [deleted |-> FALSE, archived |-> FALSE, title |-> "initial", titleSource |-> "auto",
     status |-> "new", createdAt |-> created, lastInteractedAt |-> created,
     settled |-> "none", settledAt |-> NoTime,
     snoozedUntil |-> NoTime, snoozedAt |-> NoTime,
     session |-> NoSession, turn |-> NoTurn,
     messages |-> <<>>, activities |-> <<>>, checkpoints |-> <<>>]

\* The i-th number of S, and the elements of a list at the places in S, in order.
Nth(S, i) == CHOOSE k \in S : Cardinality({j \in S : j <= k}) = i
AtPlaces(s, S) == [i \in 1..Cardinality(S) |-> s[Nth(S, i)]]

Newest(s, n) == SubSeq(s, IF Len(s) > n THEN Len(s) - n + 1 ELSE 1, Len(s))

-----------------------------------------------------------------------------
(* A revert to checkpoint n keeps the messages of the turns that remain and,   *)
(* when they are fewer than n of a role, the oldest others of that role.       *)

OldestOthers(messages, kept, turns, role, n) ==
    LET have == {i \in DOMAIN messages : messages[i].role = role /\ messages[i].id \in kept}
        spare == {i \in DOMAIN messages : /\ messages[i].role = role
                                          /\ messages[i].id \notin kept
                                          /\ messages[i].turn \in turns \cup {NoTurnId}}
    IN  {messages[i].id : i \in {j \in spare :
            Cardinality({k \in spare : k <= j}) + Cardinality(have) <= n}}

RetainMessages(messages, turns, named, n) ==
    LET ofTurns == {messages[i].id : i \in {j \in DOMAIN messages :
                        \/ messages[j].role = "system"
                        \/ messages[j].id \in named
                        \/ messages[j].turn \in turns}}
        withUsers == ofTurns \cup OldestOthers(messages, ofTurns, turns, "user", n)
        kept == withUsers \cup OldestOthers(messages, withUsers, turns, "assistant", n)
    IN  AtPlaces(messages, {i \in DOMAIN messages : messages[i].id \in kept})

RetainActivities(activities, turns) ==
    AtPlaces(activities, {i \in DOMAIN activities :
                              activities[i].turn \in turns \cup {NoTurnId}})

-----------------------------------------------------------------------------
(* The cases of projectEvent.                                                  *)

MessageSent(t, e) ==
    LET same == {i \in DOMAIN t.messages : t.messages[i].id = e.message.id}
        sent == IF same = {} THEN Append(t.messages, e.message)
                ELSE [i \in DOMAIN t.messages |->
                         IF i \in same THEN [t.messages[i] EXCEPT !.turn = e.message.turn]
                         ELSE t.messages[i]]
    IN  [t EXCEPT !.messages = Newest(sent, MaxMessages)]

\* The turn keeps the instants it has; a new one starts with the session's.
SessionSet(t, e) ==
    LET known == t.turn.id = e.turn
        running == [id |-> e.turn, state |-> "running",
                    requestedAt |-> IF known THEN t.turn.requestedAt ELSE e.at,
                    startedAt |-> IF known /\ t.turn.startedAt # NoTime
                                  THEN t.turn.startedAt ELSE e.at,
                    completedAt |-> NoTime]
        begins == e.session = "running" /\ e.turn # NoTurnId
    IN  [t EXCEPT !.session = [status |-> e.session, at |-> e.at],
                  !.turn = IF begins THEN running ELSE @,
                  !.lastInteractedAt = IF begins /\ ~known THEN e.at ELSE @]

\* Only a checkpoint of the same turn is replaced: two turns may share a count.
TurnDiffCompleted(t, e) ==
    LET others == {i \in DOMAIN t.checkpoints : t.checkpoints[i].turn # e.turn}
        before == AtPlaces(t.checkpoints, {i \in others : t.checkpoints[i].count <= e.count})
        after == AtPlaces(t.checkpoints, {i \in others : t.checkpoints[i].count > e.count})
        made == [turn |-> e.turn, count |-> e.count, at |-> e.at]
        known == t.turn.id = e.turn
    IN  [t EXCEPT
            !.checkpoints = Newest(before \o <<made>> \o after, MaxCheckpoints),
            !.turn = [id |-> e.turn, state |-> "completed",
                      requestedAt |-> IF known THEN t.turn.requestedAt ELSE e.at,
                      startedAt |-> IF known /\ t.turn.startedAt # NoTime
                                    THEN t.turn.startedAt ELSE e.at,
                      completedAt |-> e.at]]

Reverted_Exclusive(t, e) ==
    [t EXCEPT !.checkpoints = AtPlaces(@, {i \in DOMAIN @ : @[i].count < e.count}),
              !.turn = NoTurn]
Reverted(t, e) ==
    LET kept == AtPlaces(t.checkpoints, {i \in DOMAIN t.checkpoints :
                                             t.checkpoints[i].count <= e.count})
        turns == {kept[i].turn : i \in DOMAIN kept}
        newest == kept[Len(kept)]
    IN  [t EXCEPT
            !.checkpoints = kept,
            !.messages = RetainMessages(t.messages, turns, {}, e.count),
            !.activities = RetainActivities(t.activities, turns),
            !.turn = IF kept = <<>> THEN NoTurn
                     ELSE [id |-> newest.turn, state |-> "completed",
                           requestedAt |-> newest.at, startedAt |-> newest.at,
                           completedAt |-> newest.at]]

\* The activities with one put where its instant, its id here, places it; one of the same
\* id is replaced.
WithActivity(activities, a) ==
    LET others == {i \in DOMAIN activities : activities[i].id # a.id}
        before == AtPlaces(activities, {i \in others : activities[i].id < a.id})
        after == AtPlaces(activities, {i \in others : activities[i].id > a.id})
    IN  before \o <<a>> \o after

ActivityAppended(t, e) ==
    [t EXCEPT !.activities = Newest(WithActivity(@, e.activity), MaxActivities)]

\* A generated title never replaces one the user gave.
MetaUpdated(t, e) ==
    LET skip == e.titleSource = "auto" /\ t.titleSource = "manual"
    IN  IF "archived" \in DOMAIN e THEN [t EXCEPT !.archived = e.archived]
        ELSE IF skip THEN t
        ELSE [t EXCEPT !.title = e.title, !.titleSource = e.titleSource]

ProjectEvent(t, e) ==
    CASE e.type = "thread.deleted" -> [t EXCEPT !.deleted = TRUE]
      [] e.type = "thread.settled" ->
            [t EXCEPT !.settled = "settled", !.settledAt = e.settledAt]
      [] e.type = "thread.unsettled" ->
            [t EXCEPT !.settled = IF e.reason = "user" THEN "active" ELSE "none",
                      !.settledAt = NoTime]
      [] e.type = "thread.snoozed" ->
            [t EXCEPT !.snoozedUntil = e.snoozedUntil, !.snoozedAt = e.snoozedAt]
      [] e.type = "thread.unsnoozed" ->
            [t EXCEPT !.snoozedUntil = NoTime, !.snoozedAt = NoTime]
      [] e.type = "thread.meta-updated" -> MetaUpdated(t, e)
      [] e.type = "thread.message-sent" -> MessageSent(t, e)
      [] e.type = "thread.session-set" -> SessionSet(t, e)
      [] e.type = "thread.turn-diff-completed" -> TurnDiffCompleted(t, e)
      [] e.type = "thread.reverted" -> Reverted(t, e)
      [] e.type = "thread.activity-appended" -> ActivityAppended(t, e)
      [] e.type = "thread.terminal-status-changed" -> [t EXCEPT !.status = e.status]
      [] OTHER -> t

\* The events of a command, one after the other.
ProjectEvents(t, events) ==
    LET after[i \in 0..Len(events)] ==
            IF i = 0 THEN t ELSE ProjectEvent(after[i - 1], events[i])
    IN  after[Len(events)]
=============================================================================
