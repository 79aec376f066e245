--------------------------- MODULE MCThreadLifecycle ---------------------------
(* The inputs of the thread's runs. *)
EXTENDS ThreadLifecycle

\* Approvals of a session against what clients ask.
Approvals == {"session", "ask", "exit", "restart", "thread.settle",
              "thread.approval.respond", "thread.delete"}

\* Restarts, titles and the lifecycle a user drives.
Restarts == {"session", "exit", "restart", "title", "thread.settle", "thread.unsettle",
             "thread.archive", "thread.rename"}

\* Turns, captures that overlap and reverts.
Turns == {"session", "capture", "revert", "restart", "thread.turn.start", "thread.settle"}

\* What hides a thread against the turns, and the requests, that bring it back.
Snoozes == {"session", "capture", "tick", "thread.turn.start", "thread.turn.interrupt",
            "thread.settle", "thread.snooze", "thread.unsnooze"}
Asks == {"session", "ask", "tick", "thread.turn.start", "thread.settle", "thread.snooze",
         "thread.unsnooze"}

Internal == {"thread.session.set", "thread.message.assistant.complete", "thread.turn.start",
             "thread.settle", "thread.unsettle"}

\* A session that fails, starts or runs in a thread the user has put to sleep.
Failures == {"thread.session.set", "thread.snooze", "thread.settle", "tick"}

Sweeps == {"sweep", "tick", "session", "thread.settle", "thread.turn.start"}

AllScenarios == {Approvals, Restarts, Turns, Snoozes, Asks, Internal, Failures, Sweeps}
=============================================================================
