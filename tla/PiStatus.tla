-------------------------------- MODULE PiStatus --------------------------------
(* Where the status badge of a running Pi session comes from: the session file Pi   *)
(* appends to (PiSessionJsonlHook.ts), the sync file Clui's extension overwrites,   *)
(* the lines of the RPC mode, typed prompts and the terminal's own "Working" line   *)
(* (PiSessionManager.ts), each read in its own time, and what the client makes of   *)
(* the server's status (sessionEventState.ts) and of that line                      *)
(* (piOutputActivityFallback.ts).  A tick is longer than a status takes from Pi to  *)
(* the client.                                                                      *)
EXTENDS SessionEventState, Sequences

CONSTANTS
    Modes,    \* of the session: "terminal" or "rpc"
    PiBudgets \* bounds: how many [turns, replies, outputs, resumes]

ASSUME ModesAssumption == Modes \subseteq {"terminal", "rpc"}
ASSUME PiBudgetsAssumption == PiBudgets \subseteq [{"turns", "replies", "outputs", "resumes"} -> Nat]

VARIABLES
    mode,      \* of this session
    pi,        \* what Pi does: doing, its extension's lastHookStatus, and of its session
               \* file whether it is written, has a completed turn, and what its last line is
    sync,      \* the sync file: the status it carries, whether it is to be read, and what a
               \* readFile under way will return
    jsonl,     \* what the session file's lines mean, of those not read
    emitted,   \* lastEmitted of the JSONL watcher
    watcher,   \* of the session file: it "waits", or waits for longer than the readFile of the
               \* sync file ("held"), or is between two lines, when nothing else runs ("reads")
    rpc,       \* RPC lines on their way
    typed,     \* notifyPromptSubmitted waits for the thread lock
    server,    \* the entry's hookStatus and whether pendingExtensionUiRequest is set
    view,      \* the thread's entries of the client's session event state, and its badge
    restore,   \* the badge the output fallback will restore
    behind,    \* the idle timer gave up a turn that goes on, or a status came while the session
               \* was not started; the client has taken none since
    stale,     \* the server's status is of no turn: of one cut short by a resume, or of a
               \* typed line that started none
    piLeft     \* how often each bounded thing may still happen

piVars == <<mode, pi, sync, jsonl, emitted, watcher, rpc, typed, server, view, restore,
            behind, stale, piLeft>>

None == "none"
Statuses == {None, "working", "needsInput", "error", "completed"}
Doing == {"starting", "idle", "submitted", "started", "asked", "thinking", "tool", "running", "gated",
          "question", "calling", "asking", "answered", "ending"}

NewPi == [doing |-> "idle", hook |-> None, written |-> FALSE, held |-> <<>>, last |-> None,
          ended |-> FALSE]
NewSync == [status |-> None, unread |-> TRUE, reading |-> "no"]

PiInit ==
    /\ mode \in Modes
    /\ pi = NewPi
    /\ sync = NewSync
    /\ jsonl = <<>> /\ emitted = None /\ watcher = "waits" /\ rpc = <<>> /\ typed = FALSE
    /\ server = [hook |-> None, dialog |-> FALSE]
    /\ view = HandleStarted(Cleared) /\ restore = "no"
    /\ behind = FALSE /\ stale = FALSE
    /\ piLeft \in PiBudgets

UsePi(what) == piLeft[what] > 0 /\ piLeft' = [piLeft EXCEPT ![what] = @ - 1]

-----------------------------------------------------------------------------
(* The client.                                                                 *)

\* Mutant: a "working" of Pi is weighed like a late hook.
Hears_Weighs(c, status) ==
    CASE status = "completed" -> HandleCompleted(c)
      [] status = "working" -> HandleWorking(c, FALSE)
      [] OTHER -> HandleBlocking(c, status)

\* handleHookStatus, as __root.tsx calls it for Pi.
Hears(c, status) ==
    CASE status = "completed" -> HandleCompleted(c)
      [] status = "working" -> HandleWorking(c, TRUE)
      [] OTHER -> HandleBlocking(c, status)

\* What it refuses: an error or a question just after a completion, and anything but a
\* completion of a session that does not run.
Refuses(c, status) ==
    /\ status # "completed"
    /\ c.terminal # "active" \/ (status # "working" /\ Within(c.completed, Grace))

\* Mutant: a status of the server does not cancel the restore.
ClientHears_Restores(status) ==
    /\ view' = Hears(view, status)
    /\ restore' = restore
    /\ behind' = (Refuses(view, status) /\ (behind \/ view.terminal # "active"))

\* A hookStatus event: handleRealHookStatus of the fallback, then handleHookStatus.
ClientHears(status) ==
    /\ view' = Hears(view, status)
    /\ restore' = "no"
    /\ behind' = (Refuses(view, status) /\ (behind \/ view.terminal # "active"))

\* handleOutput of the fallback, with what it will restore.  A completion is not restored: it
\* would look unread again.
Fallback(c, old) ==
    IF c.terminal # "active" \/ c.badge \in BlockingBadges \cup {"error"}
       \/ (c.badge = "working" /\ old = "no")
    THEN [view |-> c, restore |-> old]
    ELSE [view |-> [c EXCEPT !.badge = "working"],
          restore |-> IF old = "no" THEN None ELSE old]

\* Five seconds without such a line.
Restore ==
    /\ restore # "no"
    /\ restore' = "no"
    /\ view' = IF view.terminal = "active" /\ view.badge = "working"
               THEN [view EXCEPT !.badge = restore] ELSE view
    /\ UNCHANGED <<mode, pi, sync, jsonl, emitted, watcher, rpc, typed, server, behind, stale,
                   piLeft>>

PiIdleTimerFires ==
    /\ view.armed /\ view.reset = IdleTimeout
    /\ view' = HandleIdle(view)
    /\ behind' = (behind \/ (server.hook = "working" /\ view'.badge # view.badge))
    /\ UNCHANGED <<mode, pi, sync, jsonl, emitted, watcher, rpc, typed, server, restore, stale,
                   piLeft>>

\* The route's effect: a completion that is seen is no longer shown.
SeePiCompletion ==
    /\ view.badge = "completed"
    /\ view' = [view EXCEPT !.badge = None]
    /\ UNCHANGED <<mode, pi, sync, jsonl, emitted, watcher, rpc, typed, server, restore, behind,
                   stale, piLeft>>

\* A snapshot of the read model, which carries the server's status.
Hydrate ==
    /\ view.badge # server.hook
    /\ view' = [view EXCEPT !.badge = server.hook]
    /\ UNCHANGED <<mode, pi, sync, jsonl, emitted, watcher, rpc, typed, server, restore, behind,
                   stale, piLeft>>

-----------------------------------------------------------------------------
(* The server.                                                                 *)

\* applyHookStatusIfChanged.
Apply(status, dialog) ==
    /\ server' = [hook |-> status, dialog |-> dialog]
    /\ IF status = server.hook THEN UNCHANGED <<view, restore, behind>> ELSE ClientHears(status)

\* refreshSessionSyncFile under the thread lock: the file is read ...
BeginReadSync ==
    /\ sync.unread /\ sync.reading = "no"
    /\ sync' = [sync EXCEPT !.unread = FALSE, !.reading = sync.status]
    /\ UNCHANGED <<mode, pi, jsonl, emitted, watcher, rpc, typed, server, view, restore, behind,
                   stale, piLeft>>

\* ... and what it said is applied, whatever has happened meanwhile.
ReadSync ==
    /\ sync.reading # "no"
    /\ sync' = [sync EXCEPT !.reading = "no"]
    /\ watcher' = "waits"
    /\ IF sync.reading = None THEN UNCHANGED <<server, view, restore, behind>>
       ELSE Apply(sync.reading, server.dialog)
    /\ UNCHANGED <<mode, pi, jsonl, emitted, rpc, typed, stale, piLeft>>

\* rescan and processChunk, 80 ms after the last line was appended: each line that differs from
\* the last emitted, one after the other.
Rescan ==
    /\ jsonl # <<>> /\ watcher # "held"
    /\ IF Head(jsonl) = emitted THEN UNCHANGED <<server, view, restore, behind>>
       ELSE Apply(Head(jsonl), server.dialog)
    /\ emitted' = Head(jsonl)
    /\ jsonl' = Tail(jsonl)
    /\ watcher' = IF Tail(jsonl) = <<>> THEN "waits" ELSE "reads"
    /\ UNCHANGED <<mode, pi, sync, rpc, typed, stale, piLeft>>

\* handleRpcEvent; errors of extensions are left out.
ReadRpc ==
    /\ rpc # <<>>
    /\ rpc' = Tail(rpc)
    /\ CASE Head(rpc) = "update" -> IF server.dialog THEN UNCHANGED <<server, view, restore, behind>>
                                    ELSE Apply("working", FALSE)
         [] Head(rpc) = "agentEnd" -> Apply("completed", FALSE)
         [] Head(rpc) = "dialog" -> Apply("needsInput", TRUE)
    /\ UNCHANGED <<mode, pi, sync, jsonl, emitted, watcher, typed, stale, piLeft>>

\* notifyPromptSubmitted, which waits for the lock a refresh of the sync file holds.
PromptStatus == "working"
NotifyPrompt ==
    /\ typed /\ sync.reading = "no"
    /\ typed' = FALSE
    /\ Apply(PromptStatus, server.dialog)
    /\ UNCHANGED <<mode, pi, sync, jsonl, emitted, watcher, rpc, stale, piLeft>>

\* applyOutputInferredHookStatus: only while nothing authoritative is known.
\* Mutant: the terminal's text overwrites what the server knows.
Infers_Always == server.hook # "working"
Infers == server.hook = None

\* A redraw of Pi's "Working" line, which may be older than what it is of.  Only a client that
\* shows the thread is sent it, after the status the server infers from it.
Output ==
    /\ mode = "terminal" /\ pi.doing # "starting"
    /\ UsePi("outputs")
    /\ \/ Infers /\ Apply("working", server.dialog)
       \/ /\ ~Infers
          /\ LET shown == Fallback(view, restore) IN
             /\ view' = HandleOutput(shown.view, "plain")
             /\ restore' = shown.restore
          /\ UNCHANGED <<server, behind>>
    /\ UNCHANGED <<mode, pi, sync, jsonl, emitted, watcher, rpc, typed, stale>>

-----------------------------------------------------------------------------
(* Pi, its session file and Clui's extension in it.                            *)

\* writePayload without a status, and setHookStatus: only a change carries one.
WritePlain == sync' = [sync EXCEPT !.status = None, !.unread = TRUE]
SetHook(status) ==
    sync' = [sync EXCEPT !.status = IF pi.hook = status THEN None ELSE status, !.unread = TRUE]

\* A line of the session file; the first turn is held back until Pi has an answer.
Line(status, answers) ==
    IF pi.written \/ answers
    THEN /\ jsonl' = jsonl \o pi.held \o <<status>>
         /\ watcher' = IF sync.reading = "no" THEN watcher ELSE "held"
    ELSE UNCHANGED <<jsonl, watcher>>
Becomes(doing, hook, status, answers) ==
    pi' = IF pi.written \/ answers
          THEN [doing |-> doing, hook |-> hook, written |-> TRUE, held |-> <<>>, last |-> status,
                ended |-> pi.ended \/ status = "completed"]
          ELSE [pi EXCEPT !.doing = doing, !.hook = hook, !.held = Append(@, status)]
Goes(doing, hook) == pi' = [pi EXCEPT !.doing = doing, !.hook = hook] /\ UNCHANGED <<jsonl, watcher>>
Sends(line) == rpc' = IF mode = "rpc" THEN Append(rpc, line) ELSE rpc

\* What does not reach Clui by itself.
Silent == UNCHANGED <<mode, emitted, server, view, restore, behind, stale>>

\* A person or a provider takes longer than the sync file is read.
IsSlow == sync.reading = "no"

Submit ==
    /\ pi.doing = "idle" /\ IsSlow /\ UsePi("turns")
    /\ Goes("submitted", pi.hook)
    /\ typed' = (mode = "terminal")
    /\ stale' = FALSE
    /\ UNCHANGED <<mode, sync, emitted, rpc, server, view, restore, behind>>

\* A line that starts no turn: a command of Pi's own, or the first of a pasted text.
TypeCommand ==
    /\ mode = "terminal" /\ pi.doing = "idle" /\ UsePi("turns")
    /\ typed' = TRUE
    /\ stale' = TRUE
    /\ UNCHANGED <<mode, pi, sync, jsonl, emitted, watcher, rpc, server, view, restore, behind>>

\* agent_start, and the user's message.
StartAgent ==
    /\ pi.doing = "submitted"
    /\ SetHook("working") /\ Line("working", FALSE) /\ Becomes("started", "working", "working", FALSE)
    /\ Sends("update")
    /\ UNCHANGED <<typed, piLeft>> /\ Silent

\* before_provider_request.
RequestProvider ==
    /\ pi.doing = "started"
    /\ WritePlain /\ Goes("thinking", pi.hook)
    /\ UNCHANGED <<rpc, typed, piLeft>> /\ Silent

\* hookStatusFromSessionJsonlLine, of an assistant's message.
MessageStatus(next) ==
    IF next = "ending" THEN {"completed", "error"} ELSE IF next = "question" THEN {"needsInput"} ELSE {"working"}

\* The assistant's message: an answer, an error, or a call of a tool.  The provider takes
\* longer than a typed prompt waits for the lock.
Reply(next) ==
    /\ pi.doing = "thinking" /\ ~typed /\ IsSlow
    /\ next = "ending" \/ piLeft.replies > 0
    /\ piLeft' = IF next = "ending" THEN piLeft ELSE [piLeft EXCEPT !.replies = @ - 1]
    /\ \E status \in MessageStatus(next) :
        Line(status, TRUE) /\ Becomes(next, pi.hook, status, TRUE)
    /\ Sends("update")
    /\ UNCHANGED <<sync, typed>> /\ Silent

\* tool_execution_start.
StartTool ==
    /\ pi.doing \in {"tool", "question"}
    /\ LET hook == IF pi.doing = "question" THEN "needsInput" ELSE "working" IN
       SetHook(hook) /\ Goes(IF pi.doing = "question" THEN "calling" ELSE "asked", hook)
    /\ Sends("update")
    /\ UNCHANGED <<typed, piLeft>> /\ Silent

\* tool_call: a question becomes a dialog of the RPC mode, and so does a tool another
\* extension wants confirmed.
CallTool ==
    /\ pi.doing \in {"asked", "calling"}
    /\ WritePlain
    /\ \/ pi.doing = "asked" /\ Goes("running", pi.hook) /\ UNCHANGED rpc
       \/ pi.doing = "asked" /\ mode = "rpc" /\ Goes("gated", pi.hook) /\ Sends("dialog")
       \/ pi.doing = "calling" /\ Goes("asking", pi.hook) /\ Sends("dialog")
    /\ UNCHANGED <<typed, piLeft>> /\ Silent

\* The user answers in the terminal, by a line or by a key, or respondExtensionUi answers the
\* dialog Pi waits in, after whose line it sends no other.
Answer ==
    /\ pi.doing \in {"asking", "gated"} /\ IsSlow
    /\ mode = "rpc" => server.dialog /\ rpc = <<>>
    /\ Goes(IF pi.doing = "gated" THEN "running" ELSE "answered", pi.hook)
    /\ IF mode = "rpc" THEN Apply("working", FALSE) ELSE UNCHANGED <<server, view, restore, behind>>
    /\ typed' \in {typed, mode = "terminal"}
    /\ UNCHANGED <<mode, sync, emitted, rpc, stale, piLeft>>

\* tool_execution_end, and the tool's result.
EndTool ==
    /\ pi.doing \in {"running", "answered"}
    /\ IF pi.doing = "answered" THEN SetHook("working") ELSE UNCHANGED sync
    /\ Line("working", TRUE)
    /\ Becomes("started", IF pi.doing = "answered" THEN "working" ELSE pi.hook, "working", TRUE)
    /\ UNCHANGED <<rpc, typed, piLeft>> /\ Silent

\* Escape, or abortSession.
Abort ==
    /\ ~typed /\ IsSlow /\ pi.doing \in {"thinking", "running", "asking", "gated"}
    /\ Line("error", TRUE) /\ Becomes("ending", pi.hook, "error", TRUE)
    /\ UNCHANGED <<sync, rpc, typed, piLeft>> /\ Silent

\* agent_end.
EndAgent ==
    /\ pi.doing = "ending"
    /\ SetHook("completed") /\ Goes("idle", "completed")
    /\ Sends("agentEnd")
    /\ UNCHANGED <<typed, piLeft>> /\ Silent

\* What the lines of the session file say from the start, in short.
Retold ==
    IF pi.ended /\ pi.last # "completed" THEN <<"completed", "working", pi.last>>
    ELSE <<"working", pi.last>>

\* The session is hibernated, its process exits, or another start replaces it, and it is
\* started with its file, which the new watcher reads from the start.
Resume ==
    /\ pi.written /\ UsePi("resumes")
    /\ pi' = [NewPi EXCEPT !.doing = "starting", !.written = TRUE, !.last = pi.last,
                          !.ended = pi.ended]
    /\ sync' = NewSync
    /\ jsonl' = Retold /\ emitted' = None /\ watcher' = "reads"
    /\ rpc' = <<>> /\ typed' = FALSE
    /\ server' = [hook |-> None, dialog |-> FALSE]
    /\ \/ view' = HandleDormant(view) /\ restore' = "no"
       \/ UNCHANGED <<view, restore>>
    /\ stale' = (pi.last \in {"working", "needsInput"})
    /\ UNCHANGED <<mode, behind>>

\* The process is spawned, and the client hears so.
StartProcess ==
    /\ pi.doing = "starting"
    /\ Goes("idle", pi.hook)
    /\ view' = HandleStarted(view)
    /\ UNCHANGED <<mode, sync, emitted, rpc, typed, server, restore, behind, stale, piLeft>>

AllRead == ~sync.unread /\ sync.reading = "no" /\ jsonl = <<>> /\ rpc = <<>> /\ ~typed

\* Time goes on when nothing is on its way and the idle timer has not run out.
PiTick ==
    /\ AllRead /\ ~(view.armed /\ view.reset = IdleTimeout)
    /\ view' = [view EXCEPT !.completed = Older(@), !.started = Older(@),
                           !.blocking = Older(@), !.reset = Older(@)]
    /\ UNCHANGED <<mode, pi, sync, jsonl, emitted, watcher, rpc, typed, server, restore, behind,
                   stale, piLeft>>

PiStep ==
    \/ Submit \/ TypeCommand \/ StartAgent \/ RequestProvider
    \/ \E next \in {"ending", "tool", "question"} : Reply(next)
    \/ StartTool \/ CallTool \/ Answer \/ EndTool \/ Abort \/ EndAgent
    \/ Resume \/ StartProcess
ServerStep == BeginReadSync \/ ReadSync \/ ReadRpc \/ NotifyPrompt
ClientStep == Restore \/ PiIdleTimerFires \/ SeePiCompletion \/ Hydrate

PiNext == Rescan \/ (watcher # "reads" /\ (PiStep \/ ServerStep \/ Output \/ ClientStep \/ PiTick))
PiSpec == PiInit /\ [][PiNext]_piVars

-----------------------------------------------------------------------------
(* Properties.                                                                 *)

AtRest == AllRead /\ ~stale

PiTypeOK ==
    /\ mode \in Modes
    /\ pi \in [doing : Doing, hook : Statuses, written : BOOLEAN, held : Seq(Statuses),
               last : Statuses, ended : BOOLEAN]
    /\ sync \in [status : Statuses, unread : BOOLEAN, reading : Statuses \cup {"no"}]
    /\ jsonl \in Seq(Statuses) /\ emitted \in Statuses /\ watcher \in {"waits", "held", "reads"}
    /\ rpc \in Seq({"update", "agentEnd", "dialog"}) /\ typed \in BOOLEAN
    /\ server \in [hook : Statuses, dialog : BOOLEAN]
    /\ view \in Entries /\ restore \in {"no", None}
    /\ behind \in BOOLEAN /\ stale \in BOOLEAN
    /\ piLeft \in [{"turns", "replies", "outputs", "resumes"} -> Nat]

\* Once everything was read the status is what Pi does: a session that waits for the answer
\* to a question says so, although the extension's report of it is overwritten before it
\* can be read; a turn that has ended is not revived by a redraw of the terminal; and one
\* that works says so, also the first, which is not in the session file before Pi answers.
StatusIsWhatPiDoes ==
    AtRest =>
        /\ pi.doing = "asking" => server.hook = "needsInput"
        /\ pi.doing = "idle" /\ pi.hook = "completed" => server.hook \in {"completed", "error"}
        /\ pi.doing \in {"thinking", "running"} => server.hook = "working"

\* When no restore is due the badge is the server's status, whatever the client refused as
\* late and whatever the fallback showed meanwhile: only a completion may have been seen, and
\* only an error may have come too soon after a completion (COMPLETED_GRACE_MS), which never
\* hides a question nor leaves one shown.  Not so where the idle timer gave up a turn that is
\* silent, or statuses came while the session was not started (behind).
BadgeAgrees ==
    AllRead /\ restore = "no" /\ ~behind =>
        \/ view.badge = server.hook
        \/ view.badge = None /\ server.hook = "completed"
        \/ view.badge # "needsInput" /\ server.hook = "error"
=============================================================================
