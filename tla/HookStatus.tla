------------------------------- MODULE HookStatus -------------------------------
(* The status badge of one Claude thread: the hooks an agent fires reach the       *)
(* server by curl, each in its own time, and the client's session event state      *)
(* tells stale ones by their age.  A hook's handler on the server and the client's *)
(* handling of the events it broadcasts are one step: the socket keeps their order.*)
EXTENDS SessionEventState, Sequences, SequencesExt

CONSTANTS
    HookDelay,       \* ticks until a hook, or a line the agent printed, has arrived
    Budgets          \* bounds: how often [turns, tools, late, visits, outputs, exits]

ASSUME HookDelayAssumption == HookDelay \in Nat /\ HookDelay < BlockingWindow
ASSUME BudgetsAssumption ==
    Budgets \subseteq [turns : Nat, tools : Nat, late : Nat, visits : Nat, outputs : Nat,
                       exits : Nat]

VARIABLES
    agent,      \* the agent's turn: gone, idle, submitted, running or blocked
    subagents,  \* tools the turn's background subagents still run
    inFlight,   \* what the agent sent and has not arrived: [hook, age], oldest first
    approvals,  \* how many approval.requested activities are not resolved
    awake,      \* inProgressThreadIds of the sleep preventer has the thread
    client,     \* the thread's entries of the session event state, and its badge
    viewing,    \* the client shows the thread, and so is sent its output
    late,       \* PostToolUse hooks sent after the end of the turn they are of
    unheard,    \* the client was not told of the turn's end, or it forgot or gave up the turn
    beside,     \* another tool finished after the one the agent waits for was asked about
    left        \* how often each bounded thing may still happen

vars == <<agent, subagents, inFlight, approvals, awake, client, viewing, late, unheard, beside,
          left>>

Printed == {"interrupted", "apiError"}
Hooks == {"promptSubmit", "postTool", "permission", "question", "stop"}

Init ==
    /\ agent = "gone" /\ subagents = 0
    /\ inFlight = <<>>
    /\ approvals = 0 /\ awake = FALSE
    /\ client = Cleared
    /\ viewing \in BOOLEAN
    /\ late = 0 /\ unheard = FALSE /\ beside = FALSE
    /\ left \in Budgets

Use(what) == left[what] > 0 /\ left' = [left EXCEPT ![what] = @ - 1]

-----------------------------------------------------------------------------
(* The agent: a command line program outside this repository.                  *)

Fire(hook) == inFlight' = Append(inFlight, [hook |-> hook, age |-> 0])
Settled == inFlight = <<>>

Start ==
    /\ agent = "gone" /\ Use("exits")
    /\ Settled
    /\ agent' = "idle"
    /\ client' = HandleStarted(client)
    /\ late' = 0 /\ unheard' = FALSE
    /\ UNCHANGED <<subagents, inFlight, approvals, awake, viewing, beside>>

\* The agent's process ends, at any moment; the hooks it fired still arrive.
Exit ==
    /\ agent # "gone"
    /\ agent' = "gone" /\ subagents' = 0
    /\ client' = HandleDormant(client)
    /\ awake' = FALSE
    /\ beside' = FALSE
    /\ UNCHANGED <<inFlight, approvals, viewing, late, unheard, left>>

\* A person submits a prompt, later than the hooks of the turn before arrive.
Prompt ==
    /\ agent = "idle" /\ Settled /\ Use("turns")
    /\ agent' = "submitted"
    /\ Fire("promptSubmit")
    /\ late' = 0 /\ unheard' = FALSE
    /\ UNCHANGED <<subagents, approvals, awake, client, viewing, beside>>

Begin ==
    /\ agent = "submitted" /\ Settled
    /\ agent' = "running"
    /\ UNCHANGED <<subagents, inFlight, approvals, awake, client, viewing, late, unheard, beside, left>>

\* Tools run side by side: one may finish while another waits for the user.
FinishTool ==
    /\ agent \in {"running", "blocked"} /\ Use("tools")
    /\ Fire("postTool")
    /\ beside' = (agent = "blocked")
    /\ UNCHANGED <<agent, subagents, approvals, awake, client, viewing, late, unheard>>

\* A tool needs an approval, or asks a question.
AskUser ==
    /\ agent = "running" /\ Use("tools")
    /\ agent' = "blocked"
    /\ \E hook \in {"permission", "question"} : Fire(hook)
    /\ UNCHANGED <<subagents, approvals, awake, client, viewing, late, unheard, beside>>

\* A person answers, which is slower than a hook; a rejected tool fires no hook.
AnswerUser ==
    /\ agent = "blocked" /\ Settled
    /\ agent' = "running"
    /\ inFlight' \in {<<>>, <<[hook |-> "postTool", age |-> 0]>>}
    /\ beside' = FALSE
    /\ UNCHANGED <<subagents, approvals, awake, client, viewing, late, unheard, left>>

\* The turn ends; subagents may go on in the background.
FinishTurn ==
    /\ agent = "running"
    /\ agent' = "idle"
    /\ subagents' \in 0 .. left.late
    /\ Fire("stop")
    /\ UNCHANGED <<approvals, awake, client, viewing, late, unheard, beside, left>>

FinishSubagentTool ==
    /\ agent # "gone" /\ subagents > 0 /\ Use("late")
    /\ subagents' = subagents - 1
    /\ late' = late + 1
    /\ Fire("postTool")
    /\ beside' = (agent = "blocked")
    /\ UNCHANGED <<agent, approvals, awake, client, viewing, unheard>>

\* Escape: before the agent's loop begins it leaves no trace, later a banner.
Interrupt ==
    /\ agent \in {"submitted", "running", "blocked"} /\ Settled
    /\ viewing
    /\ agent' = "idle"
    /\ IF agent = "submitted" THEN inFlight' = inFlight ELSE Fire("interrupted")
    /\ unheard' = (unheard \/ (agent = "submitted" /\ (subagents > 0 \/ late > 0)))
    /\ beside' = FALSE
    /\ UNCHANGED <<subagents, approvals, awake, client, viewing, late, left>>

\* A call of the API fails, which takes longer than a hook.
FailOnApi ==
    /\ agent = "running" /\ Settled
    /\ agent' = "idle"
    /\ Fire("apiError")
    /\ UNCHANGED <<subagents, approvals, awake, client, viewing, late, unheard, beside, left>>

-----------------------------------------------------------------------------
(* The server's hook routes and the client's handlers.                         *)

\* pendingApprovalRequestIdsByThread, with the activities it mirrors.
ApprovalsAfter(hook) ==
    CASE hook \in {"promptSubmit", "stop"} -> 0
      [] hook = "permission" -> approvals + 1
      [] hook = "postTool" /\ approvals > 0 -> approvals - 1
      [] OTHER -> approvals

\* updateMacosSleepPrevention.
AwakeAfter(hook) == hook \in {"promptSubmit", "postTool"}

ClientAfter(hook) ==
    CASE hook = "promptSubmit" -> HandleTurnStart(client)
      [] hook = "postTool" -> HandleWorking(client, FALSE)
      [] hook = "permission" -> HandleBlocking(client, "pendingApproval")
      [] hook = "question" -> HandleBlocking(client, "needsInput")
      [] hook = "stop" -> HandleCompleted(client)

HookArrives(i) ==
    LET hook == inFlight[i].hook
    IN  /\ hook \in Hooks
        /\ approvals' = ApprovalsAfter(hook)
        /\ awake' = AwakeAfter(hook)
        /\ client' = ClientAfter(hook)
        /\ inFlight' = RemoveAt(inFlight, i)
        /\ UNCHANGED <<agent, subagents, viewing, late, unheard, beside, left>>

\* What the agent prints reaches only a client that shows the thread.
LineArrives(i) ==
    LET text == inFlight[i].hook
    IN  /\ text \in Printed
        /\ client' = IF viewing THEN HandleOutput(client, text) ELSE client
        /\ unheard' = (unheard \/ client'.turn)
        /\ inFlight' = RemoveAt(inFlight, i)
        /\ UNCHANGED <<agent, subagents, approvals, awake, viewing, late, beside, left>>

\* Redraws, echoed keys: output without a meaning.
OutputArrives ==
    /\ agent # "gone" /\ viewing /\ Use("outputs")
    /\ client' = HandleOutput(client, "plain")
    /\ UNCHANGED <<agent, subagents, inFlight, approvals, awake, viewing, late, unheard, beside>>

IdleTimerFires ==
    /\ client.armed /\ client.reset = IdleTimeout
    /\ client' = HandleIdle(client)
    /\ unheard' = (unheard \/ (agent \notin {"idle", "gone"} /\ ~client.confirmed))
    /\ UNCHANGED <<agent, subagents, inFlight, approvals, awake, viewing, late, beside, left>>

\* The route's effect: a completion that is seen is no longer shown.
SeeCompletion ==
    /\ viewing /\ client.badge = "completed"
    /\ client' = [client EXCEPT !.badge = "none"]
    /\ UNCHANGED <<agent, subagents, inFlight, approvals, awake, viewing, late, unheard, beside, left>>

ChangeRoute ==
    /\ Use("visits")
    /\ viewing' = ~viewing
    /\ UNCHANGED <<agent, subagents, inFlight, approvals, awake, client, late, unheard, beside>>

\* The sidebar's reset, and the welcome of a new connection.
ResetStatus ==
    /\ Use("visits")
    /\ client' = Reset(client) /\ unheard' = TRUE
    /\ UNCHANGED <<agent, subagents, inFlight, approvals, awake, viewing, late, beside>>

Tick ==
    /\ \A i \in 1 .. Len(inFlight) : inFlight[i].age < HookDelay
    /\ ~(client.armed /\ client.reset = IdleTimeout)
    /\ inFlight' = [i \in 1 .. Len(inFlight) |-> [inFlight[i] EXCEPT !.age = @ + 1]]
    /\ client' = [client EXCEPT !.completed = Older(@), !.started = Older(@),
                                !.blocking = Older(@), !.reset = Older(@)]
    /\ UNCHANGED <<agent, subagents, approvals, awake, viewing, late, unheard, beside, left>>

Arrive == \E i \in 1 .. Len(inFlight) : HookArrives(i) \/ LineArrives(i)
User == Prompt \/ AnswerUser \/ Interrupt \/ ChangeRoute \/ ResetStatus
Agent == Start \/ Exit \/ Begin \/ FinishTool \/ AskUser \/ FinishTurn \/ FinishSubagentTool
         \/ FailOnApi
Next == Agent \/ User \/ Arrive \/ OutputArrives \/ IdleTimerFires \/ SeeCompletion \/ Tick

Spec == Init /\ [][Next]_vars

\* Clocks run, hooks arrive and timers fire; an agent or a person owes nothing.
FairSpec == Spec /\ WF_vars(Tick) /\ WF_vars(Arrive) /\ WF_vars(IdleTimerFires)

-----------------------------------------------------------------------------
(* Properties.                                                                 *)

\* The variables have their types; every age is one of the clock's.
TypeOK ==
    /\ agent \in {"gone", "idle", "submitted", "running", "blocked"}
    /\ {subagents, approvals, late} \subseteq Nat
    /\ inFlight \in Seq([hook : Hooks \cup Printed, age : 0 .. HookDelay])
    /\ {awake, viewing, unheard, beside} \subseteq BOOLEAN
    /\ client \in Entries
    /\ left \in [turns : Nat, tools : Nat, late : Nat, visits : Nat, outputs : Nat, exits : Nat]

\* A hook or a line that ends the turn is on its way.
EndIsComing == \E i \in 1 .. Len(inFlight) : inFlight[i].hook \in Printed \cup {"stop"}

\* A tool's PostToolUse that arrives after the Stop, the banner or the error of its turn
\* does not bring "working" back: an idle agent is shown as working only while the end of
\* its turn is on its way, after a background tool finished, or as long as the timer waits
\* for a turn that no hook has confirmed (handleHookStatus' windows, handleOutput).
CompletionSticks ==
    client.badge = "working" /\ agent = "idle" /\ late = 0 /\ ~unheard =>
        EndIsComing \/ (client.armed /\ ~client.confirmed)

\* Once its hook has arrived, a question or an approval the agent waits for is shown, however
\* the PostToolUse of a tool that finished before it was delayed
\* (BLOCKING_STATUS_STALE_WORKING_WINDOW_MS), unless another tool finished beside it.
BlockedIsShown ==
    agent = "blocked" /\ Settled /\ ~unheard /\ ~beside => client.badge \in BlockingBadges

\* An agent that rests is not shown as working for ever: the end of the turn arrives, or the
\* idle timer clears a turn nobody confirmed, or whose only late hook came after the end.
WorkingEnds ==
    (agent = "idle" /\ late <= 1 /\ ~unheard) ~>
        (client.badge # "working" \/ agent # "idle" \/ late > 1 \/ unheard)
=============================================================================
