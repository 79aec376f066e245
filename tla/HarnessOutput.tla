----------------------------- MODULE HarnessOutput -----------------------------
(* One thread's terminal as a web client shows it: the server's bounded           *)
(* scrollback with its offsets (terminalUtils.ts, ClaudeSessionManager.ts), the   *)
(* client's output subscription (lib/harnessOutputSubscriptions.ts), the cached   *)
(* terminal (lib/claudeTerminalCache.ts) and the view that catches up before it   *)
(* goes live (components/ThreadTerminalView.tsx), over the transport.             *)
(* A character is [gen, pos]: the server's session it belongs to, counted from    *)
(* one, and its place in that session's output; an output event carries one.      *)
EXTENDS WsTransport, Sequences

CONSTANTS None,
          Retain,      \* how much scrollback the server keeps, in characters
          CompactAt,   \* what a queue holds before it is compacted (128 KiB), in characters
          MaxRetries,  \* MAX_REPAINT_GATE_RETRIES
          Attempts,    \* attemptsRemaining of syncNowWithRetry
          HeldAt,      \* the positions the fence filter holds back until the next
          Budgets      \* bounds: how often [output, mounts, restarts, drops, faults,
                       \* evictions], and how many of a view's attempts at its gate come while its
                       \* container is not in the document [away]

ASSUME BoundsAssumption == /\ Retain \in Nat \ {0} /\ Attempts \in Nat
                           /\ HeldAt \subseteq Nat /\ CompactAt \in Nat \ {0} /\ MaxRetries \in Nat
ASSUME BudgetsAssumption == Budgets \subseteq [output : Nat, mounts : Nat, restarts : Nat, drops : Nat,
                                               faults : Nat, evictions : Nat, away : Nat]

VARIABLES
    session,     \* the server's session: [gen, offset]
    subscribed,  \* the server's subscriptions of this connection hold the thread
    inbox,       \* what the connection brings the client, in order
    transport,
    wanted,      \* the thread is in claudeThreadIds (piThreadIds)
    sent,        \* lastSentSignature, by what it says of the thread; None: null
    syncs,       \* setHarnessOutputSubscriptions in progress: [of, request, left]
    entry,       \* the cached terminal, or None
    view,        \* the mounted view, or NoView
    mounts,      \* the views so far
    spoiled,     \* the cached terminal missed something (see below): "no", "yes", or
                 \* "healing": a reset is on its way
    cut,         \* what the compaction dropped of the session's output (ghost)
    left         \* how often each bounded thing may still happen

server == <<session, subscribed>>
subscription == <<wanted, sent, syncs>>
terminal == <<entry, view, mounts, spoiled, cut>>
vars == <<server, inbox, transport, subscription, terminal, left>>

Text(gen, first, last) == [i \in 1..(last + 1 - first) |-> [gen |-> gen, pos |-> first + i - 1]]
Max2(a, b) == IF a > b THEN a ELSE b

\* xterm's own buffer of writes and the write queue in front of it, whose first
\* item is in the buffer (lib/terminalWriteQueue.ts).  shown: what was parsed.
NewEntry == [shown |-> <<>>, last |-> 0, xterm |-> <<>>]
\* A write of a view; its completion records the offset unless that is None.
Write(what, text, offset) == [what |-> what, text |-> text, offset |-> offset]
Handed(v, w) == [of |-> v.id, write |-> w, force |-> FALSE]

NoView == [id |-> 0]
NewView(id, since, request) ==
    [id |-> id, since |-> since, phase |-> "subscribing", request |-> request,
     fit |-> FALSE, catchUp |-> None, gate |-> "closed",
     synced |-> None,                 \* gateSyncedOffset, then syncedOffset
     away |-> left.away, retries |-> 0,
     retrying |-> FALSE,              \* repaintGateRetryRafId is set
     pre |-> <<>>, preMax |-> 0,      \* preReadyOutputData, preReadyOutputMaxOffset
     data |-> <<>>, max |-> 0,        \* queuedOutputData, queuedOutputMaxOffset
     held |-> <<>>,                   \* the fence filter's pendingLine
     invalid |-> FALSE,               \* repaintOffsetBaselineInvalid
     queue |-> <<>>]                  \* the write queue, without the item in xterm

Init ==
    /\ session = [gen |-> 1, offset |-> 0] /\ subscribed = FALSE
    /\ inbox = <<>>
    /\ transport = NewTransport
    /\ wanted = FALSE /\ sent = None /\ syncs = {}
    /\ entry = None /\ view = NoView /\ mounts = 0
    /\ spoiled = "no" /\ cut = {}
    /\ left \in Budgets

Use(what) == left' = [left EXCEPT ![what] = @ - 1]
-----------------------------------------------------------------------------
(* The server.                                                                 *)

Output(c, offset) == [type |-> "output", id |-> 0, char |-> c, offset |-> offset]
Answer(id, body) == [type |-> "answer", id |-> id, body |-> body]
Welcome == [type |-> "welcome", id |-> 0]

\* onProcessData, and broadcastClaudeSessionEvent to the clients that subscribed.
ProcessData ==
    LET offset == session.offset + 1
        c == [gen |-> session.gen, pos |-> offset]
    IN  /\ left.output > 0
        /\ session' = [session EXCEPT !.offset = offset]
        /\ inbox' = IF transport.socket = "open" /\ subscribed
                    THEN Append(inbox, Output(c, offset)) ELSE inbox
        /\ Use("output")
        /\ UNCHANGED <<subscribed, transport, subscription, terminal>>

\* A session that starts again, here or with a new server entry, counts from 0.
RestartSession ==
    /\ left.restarts > 0 /\ session.offset > 0
    /\ session' = [gen |-> session.gen + 1, offset |-> 0]
    /\ spoiled' = IF entry = None THEN spoiled ELSE "yes"
    /\ Use("restarts")
    /\ UNCHANGED <<subscribed, inbox, transport, subscription, entry, view, mounts, cut>>

\* getScrollback with BoundedLineBuffer.materializeSince (gen is not in the answer;
\* only spoiled looks at it).
AvailableStart == IF session.offset > Retain THEN session.offset - Retain ELSE 0
Scrollback(since) ==
    LET reset == since > session.offset \/ since < AvailableStart
        start == IF reset THEN AvailableStart ELSE since
    IN  [text |-> Text(session.gen, start + 1, session.offset), gen |-> session.gen,
         offset |-> session.offset, reset |-> reset]

RouteRequest ==
    /\ transport.socket = "open" /\ transport.wire # {}
    /\ LET m == Oldest(transport.wire)
       IN  /\ subscribed' = IF m.body.method = "subscribe" THEN m.body.on ELSE subscribed
           /\ inbox' = Append(inbox, Answer(m.id, IF m.body.method = "scrollback"
                                                  THEN Scrollback(m.body.since) ELSE None))
           /\ transport' = [transport EXCEPT !.wire = @ \ {m}]
    /\ UNCHANGED <<session, subscription, terminal, left>>
-----------------------------------------------------------------------------
(* The subscription: what syncNow makes of <<transport, sent, syncs>>.  A sync is *)
(* [of: the view whose registration waits for it or None, request: in flight or   *)
(* None while its retry timer runs, left: attemptsRemaining].                     *)

Subscribe(on) == [method |-> "subscribe", on |-> on, since |-> 0]
GetScrollback(since) == [method |-> "scrollback", on |-> FALSE, since |-> since]

State(t, s, ss) == [transport |-> t, sent |-> s, syncs |-> ss]
IsSent(s, on) == s # None /\ s = <<on>>
SyncNow(st, on, of, attempts) ==
    IF IsSent(st.sent, on) THEN st
    ELSE State(Request(st.transport, Subscribe(on)), <<on>>,
               st.syncs \cup {[of |-> of, request |-> st.transport.nextId, left |-> attempts]})
Becomes(st) == transport' = st.transport /\ sent' = st.sent /\ syncs' = st.syncs

\* The .catch of syncNow and of syncNowWithRetry, for the requests that failed.
Retrying(failed) == {[s EXCEPT !.request = None, !.left = @ - 1] : s \in {f \in failed : f.left > 0}}
GivenUp(failed) == {s.of : s \in {f \in failed : f.left = 0}}
SyncsFailed(failed) ==
    /\ sent' = IF failed = {} THEN sent ELSE None
    /\ syncs' = (syncs \ failed) \cup Retrying(failed)
-----------------------------------------------------------------------------
(* The terminal.                                                               *)

Writing(e, v) == \E i \in DOMAIN e.xterm : e.xterm[i].of = v.id
Pump_OnlyFirst(e, v) ==
    IF v.queue = <<>> \/ Writing(e, v) \/ entry.xterm # <<>> THEN <<e, v>>
    ELSE <<[e EXCEPT !.xterm = Append(@, Handed(v, Head(v.queue)))], [v EXCEPT !.queue = Tail(@)]>>
\* The queue hands its next item to xterm once the one before is written.
Pump(e, v) ==
    IF v.queue = <<>> \/ Writing(e, v) THEN <<e, v>>
    ELSE <<[e EXCEPT !.xterm = Append(@, Handed(v, Head(v.queue)))], [v EXCEPT !.queue = Tail(@)]>>
Enqueue(e, v, w) == Pump(e, [v EXCEPT !.queue = Append(@, w)])

\* The filter's process: what it lets pass, and what it goes on holding.
Released(text) ==
    LET passing == {i \in DOMAIN text : text[i].pos \notin HeldAt}
    IN  IF passing = {} THEN 0 ELSE CHOOSE i \in passing : \A j \in passing : j <= i
Filtered(v, text) == SubSeq(v.held \o text, 1, Released(v.held \o text))
Holding(v, text) == SubSeq(v.held \o text, Released(v.held \o text) + 1, Len(v.held \o text))

\* recordOutputOffset, of the current view.
Recorded(e, v, offset) ==
    IF offset # None /\ (v.invalid \/ offset > e.last)
    THEN <<[e EXCEPT !.last = offset], [v EXCEPT !.invalid = FALSE]>>
    ELSE <<e, v>>

\* A text to write through the filter; without anything to write the offset is
\* recorded at once.
FilteredWrite(e, v, text, offset) ==
    LET data == Filtered(v, text)
        w == [v EXCEPT !.held = Holding(v, text)]
    IN  IF data = <<>> THEN Recorded(e, w, offset)
        ELSE Enqueue(e, w, Write("text", data, offset))

Replay_Twice(text, result, reset, since, last) ==
    IF result <= last THEN [text |-> <<>>, next |-> last] ELSE [text |-> text, next |-> result]
\* resolveScrollbackReplay: the text still missing, and the offset after it.
Replay(text, result, reset, since, last) ==
    LET start == result - Len(text)
        missing == Max2(since, last)
    IN  IF result <= last THEN [text |-> <<>>, next |-> last]
        ELSE IF reset \/ missing <= start THEN [text |-> text, next |-> result]
        ELSE IF missing >= result THEN [text |-> <<>>, next |-> last]
        ELSE [text |-> SubSeq(text, missing - start + 1, Len(text)), next |-> result]

\* openTerminalGate's treatment of the catch-up.
CaughtUp(e, v) ==
    LET c == v.catchUp
        r == Replay(c.text, c.offset, c.reset, v.since, IF c.reset THEN 0 ELSE e.last)
        w == [v EXCEPT !.synced = r.next, !.catchUp = None, !.invalid = @ \/ c.reset]
        cleared == IF c.reset THEN Enqueue(e, w, Write("reset", <<>>, None)) ELSE <<e, w>>
    IN  FilteredWrite(cleared[1], cleared[2], r.text, r.next)

\* openTerminalGate: the catch-up is written, once, and the gate opens if the repaint
\* can be asked for (requestInitialTerminalPtyRepaint); if not, a frame tries again.
Attempted(v) == v.fit /\ v.phase = "caughtUp" /\ v.gate = "closed"
OpenGate(e, v) ==
    IF ~Attempted(v) THEN <<e, v>>
    ELSE LET ev == IF v.catchUp = None THEN <<e, v>> ELSE CaughtUp(e, v)
             w == ev[2]
         IN  IF v.away = 0
             THEN <<ev[1], [w EXCEPT !.gate = "opened", !.invalid = TRUE,
                                     !.synced = IF @ = None THEN e.last ELSE @]>>
             ELSE <<ev[1], [w EXCEPT !.away = @ - 1, !.retrying = v.retries < MaxRetries,
                                     !.retries = IF @ < MaxRetries THEN @ + 1 ELSE @]>>

\* A catch-up is written while xterm still holds text of an earlier view, whose
\* offset is therefore not recorded: what both hold appears twice.
Overtakes(v) ==
    /\ Attempted(v) /\ v.catchUp # None /\ ~v.catchUp.reset
    /\ \E i \in DOMAIN entry.xterm : entry.xterm[i].of # v.id /\ entry.xterm[i].write.what = "text"

Shows(ev) == entry' = ev[1] /\ view' = ev[2]
-----------------------------------------------------------------------------
(* The view's life.                                                            *)

\* ready resolved: the view asks for what its cached terminal misses.
Fetch(st, v, ready) ==
    IF v # NoView /\ ready
    THEN <<[st EXCEPT !.transport = Request(@, GetScrollback(v.since))],
           [v EXCEPT !.phase = "fetching", !.request = st.transport.nextId]>>
    ELSE <<st, v>>
Now == State(transport, sent, syncs)

\* registerHarnessOutputSubscription: ready is resolved at once when the server
\* was last told the same.
Register(e, v) ==
    LET st == SyncNow(Now, TRUE, v.id, Attempts)
        fetched == Fetch(st, v, st = Now)
    IN  Becomes(fetched[1]) /\ entry' = e /\ view' = fetched[2]

Attached == IF entry = None THEN NewEntry ELSE entry

Mount ==
    /\ view = NoView /\ left.mounts > 0
    /\ wanted' = TRUE
    /\ mounts' = mounts + 1
    /\ Register(Attached, NewView(mounts + 1, Attached.last, None))
    /\ Use("mounts")
    /\ UNCHANGED <<server, inbox, spoiled, cut>>

\* The effect's cleanup: what waits in the queues is dropped, with its offsets;
\* what xterm holds will be written, and then reported to the view that is gone.
Disposed(e, v) ==
    LET flushed == IF v.held = <<>> THEN <<e, v>> ELSE Enqueue(e, v, Write("text", v.held, None))
        gone(item) == IF item.of = v.id THEN [item EXCEPT !.force = v.invalid] ELSE item
    IN  [flushed[1] EXCEPT !.xterm = [i \in DOMAIN @ |-> gone(@[i])]]

\* What was cut of a write that is dropped will be fetched again.
StillCut(e) ==
    LET written == {e.shown[i] : i \in DOMAIN e.shown}
                   \cup UNION {{e.xterm[i].write.text[j] : j \in DOMAIN e.xterm[i].write.text} :
                              i \in DOMAIN e.xterm}
    IN  {c \in cut : \E d \in written : d.gen = c.gen /\ d.pos > c.pos}

\* A reset whose replay is dropped leaves an emptied terminal with its old offset.
CutShort ==
    spoiled' = IF spoiled = "healing" \/ \E i \in DOMAIN entry.xterm : entry.xterm[i].write.what = "reset"
               THEN "yes" ELSE spoiled

\* The cleanup's unsubscribe syncs in a microtask, before anything else happens.
Unmount ==
    /\ view # NoView
    /\ wanted' = FALSE
    /\ Becomes(SyncNow(Now, FALSE, None, 0))
    /\ entry' = Disposed(entry, view) /\ view' = NoView
    /\ cut' = StillCut(entry')
    /\ CutShort
    /\ UNCHANGED <<server, inbox, mounts, left>>

\* An effect that runs again mounts before that microtask, which then finds
\* nothing new to say.
Remount ==
    /\ view # NoView /\ left.mounts > 0
    /\ mounts' = mounts + 1
    /\ LET e == Disposed(entry, view) IN Register(e, NewView(mounts + 1, e.last, None))
    /\ cut' = StillCut(entry')
    /\ CutShort
    /\ Use("mounts")
    /\ UNCHANGED <<server, inbox, wanted>>

\* The cache disposes of a detached terminal (evictDetachedIfOverCap and others).
Evict ==
    /\ view = NoView /\ entry # None /\ left.evictions > 0
    /\ entry' = None /\ spoiled' = "no" /\ cut' = {}
    /\ Use("evictions")
    /\ UNCHANGED <<server, inbox, transport, subscription, view, mounts>>

\* The first frame has laid the terminal out.
Fit ==
    LET v == [view EXCEPT !.fit = TRUE] IN
    /\ view # NoView /\ ~view.fit
    /\ Shows(OpenGate(entry, v))
    /\ spoiled' = IF Overtakes(v) THEN "yes" ELSE spoiled
    /\ UNCHANGED <<server, inbox, transport, subscription, mounts, cut, left>>

RetryGate ==
    /\ view # NoView /\ view.retrying
    /\ Shows(OpenGate(entry, [view EXCEPT !.retrying = FALSE]))
    /\ UNCHANGED <<server, inbox, transport, subscription, mounts, spoiled, cut, left>>

\* A resize or the thread's selection finds the gate not yet open; so does the
\* observer of the container's size once the container is in the document again.
Refit ==
    /\ view # NoView /\ Attempted(view)
    /\ Shows(OpenGate(entry, view))
    /\ UNCHANGED <<server, inbox, transport, subscription, mounts, spoiled, cut, left>>

\* The repaint had its time: what arrived meanwhile follows the catch-up.  xterm's
\* timer for a reset is due long before this one.
SettleGate ==
    /\ view # NoView /\ view.gate = "opened"
    /\ \A i \in DOMAIN entry.xterm : entry.xterm[i].write.what # "reset"
    /\ LET r == Replay(view.pre, view.preMax, FALSE,
                       IF view.preMax > Len(view.pre) THEN view.preMax - Len(view.pre) ELSE 0,
                       view.synced)
           v == [view EXCEPT !.gate = "live", !.pre = <<>>, !.preMax = 0]
       IN  Shows(IF view.pre = <<>> THEN <<entry, v>> ELSE FilteredWrite(entry, v, r.text, r.next))
    /\ UNCHANGED <<server, inbox, transport, subscription, mounts, spoiled, cut, left>>

FlushQueued ==
    /\ view # NoView /\ view.data # <<>>
    /\ Shows(Enqueue(entry, [view EXCEPT !.data = <<>>, !.max = 0],
                     Write("text", view.data, view.max)))
    /\ UNCHANGED <<server, inbox, transport, subscription, mounts, spoiled, cut, left>>

Parsed(shown, item) == IF item.write.what = "reset" THEN <<>> ELSE shown \o item.write.text

\* xterm has parsed a write: the view's callback records its offset and pumps.
XtermWrites ==
    /\ entry # None /\ entry.xterm # <<>>
    /\ LET item == Head(entry.xterm)
           e == [entry EXCEPT !.xterm = Tail(@),
                              !.shown = Parsed(@, item)]
           alive == view # NoView /\ item.of = view.id
           offset == item.write.offset
           recorded == IF offset # None /\ (item.force \/ offset > e.last)
                       THEN [e EXCEPT !.last = offset] ELSE e
       IN  IF alive
           THEN LET ev == Recorded(e, view, offset) IN Shows(Pump(ev[1], ev[2]))
           ELSE entry' = recorded /\ UNCHANGED view
    /\ spoiled' = IF spoiled = "healing" /\ entry'.xterm = <<>> /\ (view # NoView => view.catchUp = None)
                  THEN "no" ELSE spoiled
    /\ UNCHANGED <<server, inbox, transport, subscription, mounts, cut, left>>
-----------------------------------------------------------------------------
(* What the connection brings.                                                 *)

\* appendCompactedTerminalOutput: of a text that grew too long a part of its end is
\* kept, from a repaint or an escape sequence on; which part, its characters decide.
Compacted(text, n) == IF Len(text) <= CompactAt THEN text ELSE SubSeq(text, Len(text) + 1 - n, Len(text))
CutFrom(text, n) == {text[i] : i \in 1..(Len(text) - Len(Compacted(text, n)))}

\* enqueueOutputWrite of what the filter lets pass, or bufferPreReadyEvent.
OutputFor(e, v, m, n) ==
    LET data == Filtered(v, <<m.char>>)
        w == [v EXCEPT !.held = Holding(v, <<m.char>>)]
    IN  IF v.gate # "live"
        THEN <<e, [v EXCEPT !.pre = Compacted(Append(@, m.char), n), !.preMax = Max2(@, m.offset)]>>
        ELSE IF data = <<>> THEN Recorded(e, w, m.offset)
        ELSE <<e, [w EXCEPT !.data = Compacted(@ \o data, n), !.max = Max2(@, m.offset)]>>
Grown(v, m) == IF v.gate # "live" THEN Append(v.pre, m.char) ELSE v.data \o Filtered(v, <<m.char>>)

HandleOutput ==
    /\ inbox # <<>> /\ Head(inbox).type = "output"
    /\ \E n \in 1..CompactAt :
          /\ Shows(IF view = NoView THEN <<entry, view>> ELSE OutputFor(entry, view, Head(inbox), n))
          /\ cut' = IF view = NoView THEN cut ELSE cut \cup CutFrom(Grown(view, Head(inbox)), n)
    /\ inbox' = Tail(inbox)
    /\ UNCHANGED <<server, transport, subscription, mounts, spoiled, left>>

HandleWelcome_KeepsSignature ==
    /\ inbox # <<>> /\ Head(inbox).type = "welcome"
    /\ inbox' = Tail(inbox)
    /\ Becomes(SyncNow(Now, wanted, None, 0))
    /\ UNCHANGED <<server, wanted, terminal, left>>
HandleWelcome ==
    /\ inbox # <<>> /\ Head(inbox).type = "welcome"
    /\ inbox' = Tail(inbox)
    /\ Becomes(SyncNow([Now EXCEPT !.sent = None], wanted, None, 0))
    /\ UNCHANGED <<server, wanted, terminal, left>>

Of(v, s) == v # NoView /\ s.of = v.id
Fetching(v, id) == v # NoView /\ v.phase = "fetching" /\ v.request = id

\* The buffered output is the end of what the answer reports.
Whole(v, c) == v.pre = Text(c.gen, c.offset + 1 - Len(v.pre), c.offset)

HandleAnswer ==
    /\ inbox # <<>> /\ Head(inbox).type = "answer"
    /\ LET id == Head(inbox).id
           body == Head(inbox).body
           known == id \in transport.pending
           answered == {s \in syncs : known /\ s.request = id}
           st == [Now EXCEPT !.transport = Answered(@, id), !.syncs = @ \ answered]
           fetched == Fetch(st, view, \E s \in answered : Of(view, s))
           caught == known /\ Fetching(view, id)
           v == [view EXCEPT !.phase = "caughtUp", !.catchUp = body]
       IN  /\ Becomes(fetched[1])
           /\ Shows(IF caught THEN OpenGate(entry, v) ELSE <<entry, fetched[2]>>)
           /\ spoiled' = IF caught /\ Overtakes(v) THEN "yes"
                         ELSE IF spoiled = "yes" /\ caught /\ body.reset /\ Whole(view, body)
                             /\ body.gen = session.gen
                         THEN "healing" ELSE spoiled
    /\ inbox' = Tail(inbox)
    /\ UNCHANGED <<server, wanted, mounts, cut, left>>

\* Requests that failed: a sync is tried again or given up, and a view without its
\* catch-up opens all the same.
RequestsFail(ids) ==
    LET failed == {s \in syncs : s.request \in ids}
        caught == \E id \in ids : Fetching(view, id)
        given == view # NoView /\ view.id \in GivenUp(failed)
    IN  /\ SyncsFailed(failed)
        /\ Shows(IF caught THEN OpenGate(entry, [view EXCEPT !.phase = "caughtUp"])
                 ELSE IF given THEN <<entry, [view EXCEPT !.phase = "failed"]>>
                 ELSE <<entry, view>>)

\* What a view that does not wait for its subscription is not sent, it never fetches.
Missed == spoiled' = IF view # NoView /\ (view.phase # "subscribing" \/ view.pre # <<>>)
                     THEN "yes" ELSE spoiled

RequestTimesOut ==
    /\ left.faults > 0
    /\ \E id \in transport.pending :
          /\ transport' = TimeOut(transport, id)
          /\ RequestsFail({id})
          /\ Missed
    /\ Use("faults")
    /\ UNCHANGED <<server, inbox, wanted, mounts, cut>>

RetrySync ==
    /\ \E s \in syncs :
          /\ s.request = None
          /\ LET st == [Now EXCEPT !.syncs = @ \ {s}]
                 next == SyncNow(st, wanted, s.of, s.left)
                 fetched == Fetch(next, view, Of(view, s) /\ next = st)
             IN  Becomes(fetched[1]) /\ view' = fetched[2]
    /\ UNCHANGED <<server, inbox, wanted, entry, mounts, spoiled, cut, left>>
-----------------------------------------------------------------------------
(* The connection.                                                             *)

Open ==
    /\ transport.socket = "connecting"
    /\ transport' = Opened(transport)
    /\ inbox' = <<Welcome>>
    /\ UNCHANGED <<server, subscription, terminal, left>>

Drop ==
    /\ left.drops > 0 /\ transport.socket = "open"
    /\ transport' = Dropped(transport)
    /\ inbox' = <<>> /\ subscribed' = FALSE
    /\ Missed
    /\ Use("drops")
    /\ UNCHANGED <<session, subscription, entry, view, mounts, cut>>

Close ==
    /\ transport.socket = "closing"
    /\ transport' = Closed(transport)
    /\ RequestsFail(transport.pending)
    /\ Missed
    /\ UNCHANGED <<server, inbox, wanted, mounts, cut, left>>

ConnectFails ==
    /\ left.drops > 0 /\ transport.socket = "connecting"
    /\ transport' = Closed(transport)
    /\ RequestsFail(transport.pending)
    /\ Missed
    /\ Use("drops")
    /\ UNCHANGED <<server, inbox, wanted, mounts, cut>>

Reconnect ==
    /\ transport.socket = "down"
    /\ transport' = Reconnected(transport)
    /\ UNCHANGED <<server, inbox, subscription, terminal, left>>
-----------------------------------------------------------------------------

System ==
    \/ RouteRequest \/ HandleOutput \/ HandleWelcome \/ HandleAnswer
    \/ Fit \/ RetryGate \/ Refit \/ SettleGate \/ FlushQueued \/ XtermWrites \/ RetrySync
    \/ Open \/ Close \/ Reconnect

Next ==
    \/ System
    \/ ProcessData \/ RestartSession \/ Mount \/ Unmount \/ Remount \/ Evict
    \/ RequestTimesOut \/ Drop \/ ConnectFails

Spec == Init /\ [][Next]_vars
\* The server, the sockets, timers, frames and xterm go on; nobody has to write,
\* mount or unmount.
FairSpec == Spec /\ WF_vars(System)
-----------------------------------------------------------------------------
(* Properties.  A cached terminal is spoiled by a session that starts again, by a *)
(* connection lost or a catch-up that fails under a mounted view, and by a        *)
(* catch-up that overtakes xterm; a reset heals it.  Nothing is promised of what  *)
(* a spoiled one shows.                                                           *)

End(text) == IF text = <<>> THEN 0 ELSE text[Len(text)].pos

\* What a cached terminal shows is the session's output in order, from some place on:
\* no character twice, and none left out but what the compaction dropped, across every
\* detach, catch-up, dropped queue, trimmed scrollback and retried gate (openTerminalGate,
\* resolveScrollbackReplay, appendCompactedTerminalOutput).
Shown(c) == \E i \in DOMAIN entry.shown : entry.shown[i] = c
ShownOnceInOrder ==
    entry # None /\ spoiled = "no" /\ entry.shown # <<>> =>
        LET text == Text(session.gen, entry.shown[1].pos, End(entry.shown))
        IN  /\ entry.shown = SelectSeq(text, Shown)
            /\ \A i \in DOMAIN text : Shown(text[i]) \/ text[i] \in cut

\* Once everything sent is answered, the server's subscription is what the client
\* wants (syncNow's signature, retries and the welcome's reset).
Quiet == /\ transport.socket = "open" /\ transport.wire = {} /\ syncs = {}
         /\ \A i \in DOMAIN inbox : inbox[i].type = "output"
SubscriptionFollows == Quiet => subscribed = wanted /\ wanted = (view # NoView)

\* In the end a mounted view shows the session's output to its end.
ShownCatchesUp ==
    <>[](view # NoView /\ spoiled = "no" => End(entry.shown) = session.offset)

=============================================================================
