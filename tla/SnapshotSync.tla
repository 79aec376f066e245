------------------------------ MODULE SnapshotSync ------------------------------
(* How a web client keeps its store equal to the server's read model: the         *)
(* EventRouter of apps/web/src/routes/__root.tsx over the transport, with the     *)
(* server's pushes and its answers to getSnapshot.  A snapshot replaces the whole *)
(* store, so the store's content is the number of events it reflects; only the    *)
(* archived flags, which events patch at once, are kept apart (store.ts).         *)
EXTENDS WsTransport, Sequences

CONSTANTS Threads, OldThreads,  \* the threads, and those that exist at first
          Elsewhere,            \* a route that shows no thread (settings)
          Project,              \* the aggregate of project events
          None,
          Routes,               \* the routes the user may take
          Pasts,                \* the events before the client starts
          Budgets               \* bounds: how often [events, moves, drops, faults, writes]

ASSUME ThreadsAssumption == /\ OldThreads \subseteq Threads
                            /\ Elsewhere \notin Threads /\ Project \notin Threads
ASSUME NoneAssumption == None \notin Nat
ASSUME BudgetsAssumption ==
    Budgets \subseteq [events : Nat, moves : Nat, drops : Nat, faults : Nat, writes : Nat]

\* thread.meta-updated events set the archived flag or something else ("renamed").
Kinds == {"created", "archived", "unarchived", "renamed", "deleted", "plain"}
ASSUME PastsAssumption == Pasts \subseteq Seq([on : Threads \cup {Project}, what : Kinds])

VARIABLES
    log,        \* the committed events: [on, what]
    published,  \* how many of them were pushed
    reads,      \* getSnapshot requests the server works on: id -> events read, or None
    inbox,      \* what the connection brings the client, in order
    transport,
    latest,     \* latestSequence
    sync,       \* [request: the getSnapshot in flight or None, again: pending]
    throttled,  \* the throttler's trailing call is due
    deferred,   \* deferredThreadIdsRef
    route,      \* pathnameRef.current
    settling,   \* the route's effect is still to run
    view,       \* the events the store reflects; None before the first snapshot
    archived,   \* the store's threads with an archivedAt
    guarded,    \* pendingArchiveUpdates
    welcomed,   \* this connection's welcome was handled
    excused,    \* the events up to this one whose sync failed or was cancelled
    ignored,    \* events the client took for an archived thread's, wrongly
    left        \* how often each bounded thing may still happen

client == <<latest, sync, throttled, deferred, view, archived, guarded, welcomed, excused,
            ignored>>
server == <<log, published, reads>>
vars == <<server, inbox, transport, client, route, settling, left>>

Welcome == [type |-> "welcome", n |-> 0]
Push(n) == [type |-> "event", n |-> n]
Snapshot(id, n) == [type |-> "snapshot", id |-> id, n |-> n]
\* An answer without a snapshot: a command's, or an error.
Answer(id) == [type |-> "answer", id |-> id, n |-> 0]

Created(n) == OldThreads \cup {log[i].on : i \in {j \in 1..n : log[j].what = "created"}}
Deleted(n) == {log[i].on : i \in {j \in 1..n : log[j].what = "deleted"}}
\* A snapshot's threads, without those marked as deleted.
Existing(n) == Created(n) \ Deleted(n)
ArchivedAfter(n) ==
    {t \in Created(n) : \E i \in 1..n :
        /\ log[i] = [on |-> t, what |-> "archived"]
        /\ \A j \in i..n : log[j] # [on |-> t, what |-> "unarchived"]}
Known == IF view = None THEN {} ELSE Existing(view)

Init ==
    /\ log \in Pasts /\ published = Len(log)
    /\ reads = [id \in {} |-> None]
    /\ inbox = <<>>
    /\ transport = NewTransport
    /\ latest = 0
    /\ sync = [request |-> None, again |-> FALSE]
    /\ throttled = FALSE
    /\ deferred = {}
    /\ route \in Routes
    /\ settling = TRUE
    /\ view = None /\ archived = {} /\ guarded = {}
    /\ welcomed = FALSE
    /\ excused = 0 /\ ignored = {}
    /\ left \in Budgets

Use(what) == left' = [left EXCEPT ![what] = @ - 1]

-----------------------------------------------------------------------------
(* The server.                                                                 *)

\* The engine commits an event.
Commit ==
    /\ left.events > 0 /\ Use("events")
    /\ \E on \in Threads \cup {Project}, what \in Kinds :
          /\ on = Project => what = "plain"
          /\ on \in Threads => (what = "created") = (on \notin Created(Len(log)))
          /\ what = "deleted" => on \notin Deleted(Len(log))
          /\ what = "archived" => on \notin ArchivedAfter(Len(log))
          /\ what = "unarchived" => on \in ArchivedAfter(Len(log))
          /\ log' = Append(log, [on |-> on, what |-> what])
    /\ UNCHANGED <<published, reads, inbox, transport, client, route, settling>>

\* The domain event stream pushes committed events in their order.
Publish ==
    /\ published < Len(log)
    /\ published' = published + 1
    /\ inbox' = IF transport.socket = "open" THEN Append(inbox, Push(published + 1)) ELSE inbox
    /\ UNCHANGED <<log, reads, transport, client, route, settling, left>>

\* A message of the wire is routed; what terminals are sent is not answered.
RouteRequest ==
    /\ transport.wire # {}
    /\ LET m == Oldest(transport.wire) IN
          /\ reads' = IF m.body = "getSnapshot"
                      THEN [id \in DOMAIN reads \cup {m.id} |-> IF id = m.id THEN None ELSE reads[id]]
                      ELSE reads
          /\ inbox' = IF m.body = "command" THEN Append(inbox, Answer(m.id)) ELSE inbox
          /\ transport' = [transport EXCEPT !.wire = @ \ {m}]
    /\ UNCHANGED <<log, published, client, route, settling, left>>

\* getSnapshot reads in one transaction; requests are worked on concurrently.
ReadSnapshot ==
    /\ \E id \in DOMAIN reads :
          /\ reads[id] = None
          /\ reads' = [reads EXCEPT ![id] = Len(log)]
    /\ UNCHANGED <<log, published, inbox, transport, client, route, settling, left>>

Respond ==
    /\ \E id \in DOMAIN reads :
          /\ reads[id] # None
          /\ inbox' = Append(inbox, Snapshot(id, reads[id]))
          /\ reads' = [i \in DOMAIN reads \ {id} |-> reads[i]]
    /\ UNCHANGED <<log, published, transport, client, route, settling, left>>

ReadFails ==
    /\ left.faults > 0
    /\ \E id \in DOMAIN reads :
          /\ inbox' = Append(inbox, Answer(id))
          /\ reads' = [i \in DOMAIN reads \ {id} |-> reads[i]]
    /\ Use("faults")
    /\ UNCHANGED <<log, published, transport, client, route, settling>>

-----------------------------------------------------------------------------
(* Fetching snapshots.                                                         *)

OfThread(t, n) == {i \in 1..n : log[i].on = t}
\* The events that no push will bring any more.
Heard == IF \E i \in DOMAIN inbox : inbox[i].type = "event"
         THEN CHOOSE n \in 0..published :
                 /\ \E i \in DOMAIN inbox : inbox[i] = Push(n + 1)
                 /\ \A i \in DOMAIN inbox : inbox[i].type = "event" => inbox[i].n > n
         ELSE published

NotSyncing == [request |-> None, again |-> FALSE]

StartSync_Forgets(t) ==
    IF sync.request # None
    THEN UNCHANGED sync /\ transport' = t
    ELSE /\ transport' = Request(t, "getSnapshot")
         /\ sync' = [request |-> t.nextId, again |-> FALSE]
\* syncSnapshot: one flush at a time, another one after it if asked for meanwhile.
StartSync(t) ==
    IF sync.request # None
    THEN /\ sync' = [sync EXCEPT !.again = TRUE]
         /\ transport' = t
    ELSE /\ transport' = Request(t, "getSnapshot")
         /\ sync' = IF t.nextId \in Request(t, "getSnapshot").pending
                    THEN [request |-> t.nextId, again |-> FALSE]
                    ELSE NotSyncing

\* The store takes a snapshot; a flag patched by an event survives a snapshot that
\* does not agree with it, while its guard lasts.
SyncServerReadModel(n) ==
    LET both == guarded \cap Known \cap Existing(n)
        agreed == {t \in both : (t \in archived) = (t \in ArchivedAfter(n))}
        kept == both \ agreed
    IN  /\ view' = n
        /\ guarded' = guarded \ agreed
        /\ archived' = ((ArchivedAfter(n) \cap Existing(n)) \ kept) \cup (archived \cap kept)

\* flushSnapshotSync goes on after its answer.
HandleSnapshot ==
    /\ inbox # <<>> /\ Head(inbox).type = "snapshot"
    /\ LET m == Head(inbox)
           t == Answered(transport, m.id)
           again == Request(t, "getSnapshot")
       IN  IF m.id \in transport.pending
           THEN /\ latest' = IF m.n > latest THEN m.n ELSE latest
                /\ SyncServerReadModel(m.n)
                /\ transport' = IF sync.again THEN again ELSE t
                /\ sync' = IF sync.again /\ t.nextId \in again.pending
                           THEN [request |-> t.nextId, again |-> FALSE] ELSE NotSyncing
           ELSE /\ transport' = t
                /\ UNCHANGED <<latest, sync, view, archived, guarded>>
    /\ inbox' = Tail(inbox)
    /\ UNCHANGED <<server, throttled, deferred, route, settling, welcomed, excused, ignored, left>>

SyncFailed_StaysSyncing(t) ==
    /\ transport' = t
    /\ UNCHANGED sync
    /\ excused' = IF sync.request \in t.pending THEN excused ELSE Heard
\* syncSnapshot's catch: what was asked for meanwhile is forgotten as well.
SyncFailed(t) ==
    /\ transport' = t
    /\ sync' = IF sync.request \in t.pending THEN sync ELSE NotSyncing
    /\ excused' = IF sync' # sync THEN Heard ELSE excused

HandleAnswer ==
    /\ inbox # <<>> /\ Head(inbox).type = "answer"
    /\ SyncFailed(Answered(transport, Head(inbox).id))
    /\ inbox' = Tail(inbox)
    /\ UNCHANGED <<server, latest, throttled, deferred, view, archived, guarded, welcomed,
                   ignored, route, settling, left>>

RequestTimesOut ==
    /\ left.faults > 0
    /\ \E id \in transport.pending : SyncFailed(TimeOut(transport, id))
    /\ Use("faults")
    /\ UNCHANGED <<server, inbox, latest, throttled, deferred, view, archived, guarded, welcomed,
                   ignored, route, settling>>

\* The throttler's trailing call.
FlushThrottled ==
    /\ throttled
    /\ throttled' = FALSE
    /\ StartSync(transport)
    /\ UNCHANGED <<server, inbox, latest, deferred, view, archived, guarded, welcomed, excused,
                   ignored, route, settling, left>>

-----------------------------------------------------------------------------
(* Events.                                                                     *)

\* A thread the store does not hold counts as archived.
Suppressed(e) ==
    /\ e.on \in Threads
    /\ e.on \notin Known \ archived'
    /\ e.what \notin {"archived", "unarchived", "renamed", "deleted"}

\* The thread was deleted, which the store knows.
Gone(t) == view # None /\ t \in Deleted(view)
\* What the store takes for archived is not.
Mistaken(t, flagged, n) ==
    (t \notin Known /\ ~Gone(t)) \/ (t \in flagged /\ t \notin ArchivedAfter(n))

\* onDomainEvent
HandleEvent(n) ==
    LET e == log[n]
        unarchive == e.what = "unarchived"
    IN  /\ latest' = n
        /\ archived' = CASE e.what = "archived" -> archived \cup ({e.on} \cap Known)
                         [] unarchive -> archived \ {e.on}
                         [] OTHER -> archived
        /\ guarded' = IF e.what \in {"archived", "unarchived"} THEN guarded \cup {e.on} ELSE guarded
        /\ ignored' = IF Suppressed(e) /\ Mistaken(e.on, archived', n) THEN ignored \cup OfThread(e.on, n) ELSE ignored
        /\ IF Suppressed(e)
           THEN deferred' = deferred \ {e.on} /\ UNCHANGED throttled
           ELSE IF e.on \in {route, Project} \/ unarchive
           THEN throttled' = TRUE /\ deferred' = IF unarchive THEN deferred \ {e.on} ELSE deferred
           ELSE deferred' = deferred \cup {e.on} /\ UNCHANGED throttled

HandlePush ==
    /\ inbox # <<>> /\ Head(inbox).type = "event"
    /\ IF Head(inbox).n <= latest
       THEN UNCHANGED <<latest, throttled, deferred, archived, guarded, ignored>>
       ELSE HandleEvent(Head(inbox).n)
    /\ inbox' = Tail(inbox)
    /\ UNCHANGED <<server, transport, sync, view, welcomed, excused, route, settling, left>>

\* onServerWelcome: what was known of the last connection is forgotten.
HandleWelcome ==
    /\ inbox # <<>> /\ Head(inbox).type = "welcome"
    /\ latest' = 0
    /\ deferred' = {}
    /\ StartSync(transport)
    /\ inbox' = Tail(inbox)
    /\ welcomed' = TRUE
    /\ UNCHANGED <<server, throttled, view, archived, guarded, excused, ignored, route,
                   settling, left>>

\* ARCHIVE_UPDATE_GUARD_MS has passed; a snapshot usually takes less.
GuardExpires ==
    /\ guarded # {} /\ sync.request = None
    /\ guarded' = {}
    /\ UNCHANGED <<server, inbox, transport, latest, sync, throttled, deferred, view, archived,
                   welcomed, excused, ignored, route, settling, left>>

-----------------------------------------------------------------------------
(* The user.                                                                   *)

\* The router renders another route; its effect runs after the paint.
Navigate ==
    /\ left.moves > 0
    /\ ~settling
    /\ route' \in Routes \ {route}
    /\ settling' = TRUE
    /\ Use("moves")
    /\ UNCHANGED <<server, inbox, transport, client>>

\* A route without a thread of the store is treated as an archived thread's.
ShowsPaused == route \notin Known \ archived

\* The route's effect.
RouteEffect ==
    /\ settling
    /\ settling' = FALSE
    /\ IF ShowsPaused
       THEN /\ throttled' = FALSE
            /\ sync' = [sync EXCEPT !.again = FALSE]
            /\ deferred' = deferred \ {route}
            /\ excused' = IF throttled \/ sync.again THEN Heard ELSE excused
            /\ ignored' = IF route \in deferred /\ Mistaken(route, archived, Heard)
                          THEN ignored \cup OfThread(route, Heard) ELSE ignored
            /\ UNCHANGED transport
       ELSE IF route \in deferred
       THEN /\ deferred' = deferred \ {route}
            /\ StartSync(transport)
            /\ UNCHANGED <<throttled, excused, ignored>>
       ELSE UNCHANGED <<throttled, sync, deferred, excused, ignored, transport>>
    /\ UNCHANGED <<server, inbox, latest, view, archived, guarded, welcomed, route, left>>

\* Whatever else the views send: keystrokes, sizes of a terminal, commands.
SendOther ==
    /\ left.writes > 0
    /\ \/ \E key \in {NoKey, "resize"} : transport' = FireAndForget(transport, key, "terminal")
       \/ transport' = Request(transport, "command")
    /\ Use("writes")
    /\ UNCHANGED <<server, inbox, client, route, settling>>

-----------------------------------------------------------------------------
(* The connection.                                                             *)

Open ==
    /\ transport.socket = "connecting"
    /\ transport' = Opened(transport)
    /\ inbox' = <<Welcome>>
    /\ UNCHANGED <<server, client, route, settling, left>>

ConnectionIsLost(socket, t) ==
    /\ transport.socket = socket
    /\ transport' = t
    /\ inbox' = <<>>
    /\ reads' = [id \in {} |-> None]
    /\ welcomed' = FALSE
    /\ UNCHANGED <<log, published, latest, throttled, deferred, view, archived, guarded, ignored, route,
                   settling>>

Drop ==
    /\ left.drops > 0
    /\ ConnectionIsLost("open", Dropped(transport))
    /\ Use("drops")
    /\ UNCHANGED <<sync, excused>>

\* rejectPending makes the fetch in flight fail.
Close ==
    /\ ConnectionIsLost("closing", Closed(transport))
    /\ sync' = NotSyncing
    /\ UNCHANGED <<excused, left>>

ConnectFails ==
    /\ left.drops > 0
    /\ ConnectionIsLost("connecting", Closed(transport))
    /\ sync' = NotSyncing
    /\ Use("drops")
    /\ UNCHANGED excused

Reconnect ==
    /\ transport.socket = "down"
    /\ transport' = Reconnected(transport)
    /\ UNCHANGED <<server, inbox, client, route, settling, left>>

-----------------------------------------------------------------------------

System ==
    \/ Publish \/ RouteRequest \/ ReadSnapshot \/ Respond
    \/ HandleSnapshot \/ HandleAnswer \/ HandlePush \/ HandleWelcome \/ FlushThrottled
    \/ RouteEffect \/ Open \/ Close \/ Reconnect

Next ==
    \/ System
    \/ Commit \/ Navigate \/ SendOther
    \/ ReadFails \/ RequestTimesOut \/ GuardExpires \/ Drop \/ ConnectFails

Spec == Init /\ [][Next]_vars
\* The server's fibers, the sockets and the browser's timers and effects go on.
FairSpec == Spec /\ WF_vars(System)
-----------------------------------------------------------------------------
(* Properties.                                                                 *)

\* The transport's promises, under all that the event router asks of it
\* (rejectPending, enqueueOutboundMessage).
PendingIsCarriedHere == PendingIsCarried(transport)

\* The fetch in flight, or the one after it, reflects event n if it succeeds.
Fetching(n) ==
    /\ sync.request # None
    /\ \/ sync.again
       \/ /\ sync.request \in DOMAIN reads /\ reads[sync.request] # None =>
                reads[sync.request] >= n
          /\ \A i \in DOMAIN inbox :
                inbox[i].type = "snapshot" /\ inbox[i].id = sync.request => inbox[i].n >= n

Reflected(n) == view # None /\ n <= view
Paused(t) == t \notin Known \ archived

\* No event is forgotten: what the store does not reflect is still to be pushed or
\* fetched, belongs to a thread whose fetch is deferred until it is shown, or to one
\* the store does not follow (onDomainEvent, syncSnapshot, the route's effect).
EventsAccountedFor ==
    welcomed => \A n \in 1..published :
        \/ Reflected(n) \/ n <= excused \/ n \in ignored
        \/ \E i \in DOMAIN inbox : inbox[i] = Push(n)
        \/ throttled \/ Fetching(n)
        \/ log[n].on \in Threads /\ Paused(log[n].on)
        \/ log[n].on \in deferred /\ (log[n].on # route \/ settling)

\* Once events, moves and faults have stopped, the shown thread and the projects
\* are up to date, connections lost on the way included.
Shown(e) == e.on = Project \/ (e.on = route /\ ~Paused(route))
ShownIsCurrent ==
    \A n \in 1..Len(log) : Shown(log[n]) => Reflected(n) \/ n <= excused \/ n \in ignored
ShownCatchesUp == <>[]ShownIsCurrent

AtRest == /\ transport.socket = "open" /\ transport.wire = {} /\ inbox = <<>> /\ welcomed
          /\ published = Len(log) /\ DOMAIN reads = {}
          /\ sync.request = None /\ ~throttled /\ ~settling
=============================================================================
