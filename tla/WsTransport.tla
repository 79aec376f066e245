------------------------------ MODULE WsTransport ------------------------------
(* The web client's WebSocket transport (apps/web/src/wsTransport.ts) as          *)
(* operators on its state, a record:                                               *)
(*   socket   "connecting", "open", "closing": the peer is gone but the close      *)
(*            event has not been dispatched, "down": a reconnect timer runs        *)
(*   pending  the requests awaiting an answer                                      *)
(*   queue    what waits for a connection (outboundQueue), and                     *)
(*   wire     what was sent on this connection and the server has not read, as     *)
(*            sets: ids grow, so their order is the order of the ids               *)
(*   asked    the requests this connection carried and has not answered            *)
(* Handlers run to their end in one thread, so a handler composes operators.  The  *)
(* growing delays of scheduleReconnect are abstracted to a timer that fires.       *)
EXTENDS Naturals, FiniteSets

CONSTANTS NoKey,      \* no coalesceKey
          MaxQueued   \* MAX_QUEUED_OUTBOUND_MESSAGES

ASSUME MaxQueuedAssumption == MaxQueued \in Nat \ {0}

NewTransport == [socket |-> "connecting", nextId |-> 1, pending |-> {}, queue |-> {},
                 wire |-> {}, asked |-> {}]

Message(id, tracked, key, body) == [id |-> id, tracked |-> tracked, key |-> key, body |-> body]

Oldest(messages) == CHOOSE m \in messages : \A other \in messages : m.id <= other.id

\* ws.send, in the order of the ids.
Put(t, messages) ==
    [t EXCEPT !.wire = @ \cup messages,
              !.asked = @ \cup {m.id : m \in {sent \in messages : sent.tracked}}]

\* Forgets the request and what the queue holds of it (request's timeout).
RemoveQueuedMessage(queue, id) == {m \in queue : m.id # id}
TimeOut(t, id) ==
    [t EXCEPT !.pending = @ \ {id}, !.queue = RemoveQueuedMessage(@, id)]

Coalesced(queue, m) ==
    IF m.key = NoKey THEN queue ELSE {q \in queue : q.key # m.key}

EnqueueOutboundMessage_DropsOldest(t, m) ==
    LET queue == Coalesced(t.queue, m)
        room == IF Cardinality(queue) < MaxQueued THEN queue ELSE queue \ {Oldest(queue)}
    IN  [t EXCEPT !.queue = room \cup {m}]
\* A full queue makes room by its oldest untracked message; without one, the new
\* message is the one that goes, and a request is rejected.
EnqueueOutboundMessage(t, m) ==
    LET queue == Coalesced(t.queue, m)
        untracked == {q \in queue : ~q.tracked}
    IN  IF Cardinality(queue) < MaxQueued
        THEN [t EXCEPT !.queue = queue \cup {m}]
        ELSE IF untracked # {}
        THEN [t EXCEPT !.queue = (queue \ {Oldest(untracked)}) \cup {m}]
        ELSE [t EXCEPT !.queue = queue, !.pending = @ \ {m.id}]

Send(t, m) == IF t.socket = "open" THEN Put(t, {m}) ELSE EnqueueOutboundMessage(t, m)

Request(t, body) ==
    Send([t EXCEPT !.nextId = @ + 1, !.pending = @ \cup {t.nextId}],
         Message(t.nextId, TRUE, NoKey, body))
FireAndForget(t, key, body) ==
    Send([t EXCEPT !.nextId = @ + 1], Message(t.nextId, FALSE, key, body))

\* What "open" sends: a request nobody awaits any more is left out.
Wanted(t) == {m \in t.queue : m.tracked => m.id \in t.pending}
FlushOutboundQueue(t) == Put([t EXCEPT !.queue = {}], Wanted(t))
Opened(t) == FlushOutboundQueue([t EXCEPT !.socket = "open"])

\* The connection is lost, with everything on its way.
Dropped(t) == [t EXCEPT !.socket = "closing", !.wire = {}, !.asked = {}]
\* The "close" event, also of a connection that never opened.
Closed(t) == [t EXCEPT !.socket = "down", !.pending = {}, !.queue = {}]
Reconnected(t) == [t EXCEPT !.socket = "connecting"]

\* A response: unknown ids are ignored.
Answered(t, id) == [t EXCEPT !.pending = @ \ {id}, !.asked = @ \ {id}]

-----------------------------------------------------------------------------
(* What must hold of the transport's state.                                    *)

Queued(t) == {m.id : m \in t.queue}

\* Every request awaited waits for a connection or was sent on this one: no
\* promise is left to its two minutes by a connection that is gone.
PendingIsCarried(t) == t.socket # "closing" => t.pending \subseteq Queued(t) \cup t.asked
=============================================================================
