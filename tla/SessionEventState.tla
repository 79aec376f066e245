--------------------------- MODULE SessionEventState ---------------------------
(* What the client keeps of one thread's session (apps/web/src/lib/sessionEventState.ts): *)
(* the status badge and the entries that decide which late status it may still show.     *)
(* Each handler is an operator from the thread's entries to the entries after it; the     *)
(* modules of Claude's hooks and of Pi's statuses say when they are called.  Time is      *)
(* discrete, and ages saturate at the longest timeout.                                    *)
EXTENDS Integers

CONSTANTS
    BlockingWindow,  \* BLOCKING_STATUS_STALE_WORKING_WINDOW_MS
    StaleWindow,     \* POST_COMPLETION_STALE_MS
    Throttle,        \* IDLE_TIMER_RESET_THROTTLE_MS
    Grace,           \* COMPLETED_GRACE_MS and STARTUP_GRACE_MS
    IdleTimeout      \* WORKING_IDLE_TIMEOUT_MS

ASSUME WindowsAssumption ==
    /\ {BlockingWindow, StaleWindow, Throttle, Grace, IdleTimeout} \subseteq Nat
    /\ BlockingWindow <= StaleWindow /\ StaleWindow <= Throttle
    /\ Throttle < Grace /\ Grace < IdleTimeout

Never == 0 - 1
Ages == Never .. IdleTimeout
Within(age, window) == age # Never /\ age < window
Older(age) == IF age = Never \/ age = IdleTimeout THEN age ELSE age + 1

Badges == {"none", "working", "pendingApproval", "needsInput", "completed", "error"}
BlockingBadges == {"pendingApproval", "needsInput"}

Entries == [badge : Badges, terminal : {"new", "active", "dormant"},
            completed : Ages, started : Ages, blocking : Ages, reset : Ages,
            armed : BOOLEAN, turn : BOOLEAN, confirmed : BOOLEAN]

Cleared == [badge |-> "none", terminal |-> "new", completed |-> Never, started |-> Never,
            blocking |-> Never, reset |-> Never, armed |-> FALSE, turn |-> FALSE,
            confirmed |-> FALSE]

\* What every end of a turn does to the entries of its thread.
TurnEnded(c) ==
    [c EXCEPT !.completed = 0, !.turn = FALSE, !.blocking = Never, !.confirmed = FALSE,
              !.armed = FALSE, !.reset = Never]

\* resetWorkingIdleTimer, forced.
RestartIdleTimer(c) == [c EXCEPT !.reset = 0, !.armed = (c.badge = "working")]

HandleCompleted(c) == [TurnEnded(c) EXCEPT !.badge = "completed"]

\* Mutant: no window after a completion.
IsStale_NoStaleWindow(c) == c.badge \in BlockingBadges /\ Within(c.blocking, BlockingWindow)

\* Mutant: no window after a blocking status.
IsStale_NoBlockingWindow(c) == Within(c.completed, StaleWindow)

\* A "working" that raced with a blocking status, or with the Stop of its tool.
IsStale(c) ==
    \/ c.badge \in BlockingBadges /\ Within(c.blocking, BlockingWindow)
    \/ Within(c.completed, StaleWindow)

\* Mutant: a tool that finishes in the background confirms the turn.
HandleWorking_Confirms(c, acceptStale) ==
    IF c.terminal # "active" \/ (~acceptStale /\ IsStale(c)) THEN c
    ELSE RestartIdleTimer(
            [c EXCEPT !.badge = "working", !.completed = Never, !.started = Never,
                      !.blocking = Never, !.turn = TRUE, !.confirmed = TRUE])

\* handleHookStatus of "working"; Pi's is never taken for stale.
HandleWorking(c, acceptStale) ==
    IF c.terminal # "active" \/ (~acceptStale /\ IsStale(c)) THEN c
    ELSE RestartIdleTimer(
            [c EXCEPT !.badge = "working", !.completed = Never, !.started = Never,
                      !.blocking = Never, !.turn = TRUE,
                      !.confirmed = c.confirmed \/ c.completed = Never])

\* handleHookStatus of the other statuses, refused for a while after a completion.
HandleBlocking(c, status) ==
    IF c.terminal # "active" \/ Within(c.completed, Grace) THEN c
    ELSE [c EXCEPT !.badge = status, !.started = Never, !.turn = TRUE, !.confirmed = TRUE,
                   !.armed = FALSE, !.reset = Never,
                   !.blocking = IF status \in BlockingBadges THEN 0 ELSE Never]

HandleTurnStart(c) ==
    RestartIdleTimer([c EXCEPT !.badge = "working", !.completed = Never, !.started = Never,
                               !.blocking = Never, !.turn = TRUE, !.confirmed = FALSE])

\* Output while a turn is known to run, but no status is shown.
Recovers(c) ==
    /\ c.terminal = "active" /\ c.badge = "none" /\ c.turn
    /\ ~Within(c.started, Grace) /\ ~Within(c.completed, Grace)

HandleOutput(c, text) ==
    LET renewed ==
            IF c.badge = "working" /\ ~Within(c.reset, Throttle) THEN RestartIdleTimer(c)
            ELSE IF Recovers(c) THEN RestartIdleTimer([c EXCEPT !.badge = "working"])
            ELSE c
    IN  IF text = "interrupted" /\ c.badge \in BlockingBadges \cup {"working"}
        THEN [TurnEnded(renewed) EXCEPT !.badge = "none"]
        ELSE IF text = "apiError" /\ c.badge = "working"
        THEN [TurnEnded(renewed) EXCEPT !.badge = "error", !.blocking = c.blocking]
        ELSE renewed

HandleStarted(c) == [c EXCEPT !.started = 0, !.completed = Never, !.terminal = "active"]

HandleDormant(c) ==
    [TurnEnded(c) EXCEPT !.started = Never, !.terminal = "dormant", !.badge = "none"]

\* The idle timer: silence ends a turn that no hook has confirmed.
HandleIdle(c) ==
    LET fired == [c EXCEPT !.armed = FALSE, !.reset = Never]
    IN  IF c.badge # "working" THEN fired
        ELSE IF ~(c.turn /\ c.terminal = "active") THEN [fired EXCEPT !.badge = "none"]
        ELSE IF c.confirmed THEN RestartIdleTimer(fired)
        ELSE [TurnEnded(fired) EXCEPT !.badge = "none"]

\* clearThread and resetThreadStatus; for all threads, clearAll and a new connection.
Reset(c) == [Cleared EXCEPT !.terminal = c.terminal]

=============================================================================
