------------------------------ MODULE DesktopShell ------------------------------
(* The desktop shell (apps/desktop/src/main.ts): one backend process at a time, *)
(* started again when it ends, and in-app updates (updateMachine.ts), whose     *)
(* installation stops the backend for good.  The client offers what the         *)
(* update's state allows (desktopUpdate.logic.ts).                              *)
EXTENDS Integers, Sequences

CONSTANTS
    MaxBackends,   \* bound: how many backends are spawned in a run of the app
    MaxAttempt,    \* restartAttempt from which the delay stays at ten seconds
    ShellBudgets   \* bounds: how many [crashes, failures, checks, installs]

ASSUME MaxBackendsAssumption == MaxBackends \in Nat \ {0}
ASSUME MaxAttemptAssumption == MaxAttempt \in Nat \ {0}
ASSUME ShellBudgetsAssumption == ShellBudgets \subseteq [{"crashes", "failures", "checks", "installs"} -> Nat]

VARIABLES
    app,        \* "up", "quitting" once app.quit was called, "ended"
    isQuitting,
    children,   \* every backend spawned: "up", "told" to end, "killed", "gone"
    backend,    \* backendProcess, the number of a child
    restart,    \* restartTimer is set
    attempt,    \* restartAttempt
    stable,     \* the child backendStableTimer was set for
    polls,      \* updateStartupTimer and updatePollTimer are set
    update,     \* updateState: its status, the versions it knows, errorContext
    task,       \* updateCheckInFlight or updateDownloadInFlight
    install,    \* how far an installation got
    waits,      \* the child stopBackendAndWaitForExit waits for
    shellLeft   \* how often each bounded thing may still happen

shellVars == <<app, isQuitting>>
childVars == <<children, backend, restart, attempt, stable, waits>>
updateVars == <<polls, update, task, install>>
allShellVars == <<shellVars, childVars, updateVars, shellLeft>>

NoBackend == 0
Statuses == {"idle", "checking", "up-to-date", "available", "downloading", "downloaded", "error"}
Contexts == {"none", "check", "download", "install"}
Installs == {"no", "stopping", "stopped", "handed", "thrown", "failed"}

\* A promise that settled goes on before the next event is handled.
Idle == install # "stopped"

UseShell(what) == shellLeft[what] > 0 /\ shellLeft' = [shellLeft EXCEPT ![what] = @ - 1]

ShellInit ==
    /\ app = "up" /\ isQuitting = FALSE
    /\ children = <<"up">> /\ backend = 1 /\ restart = FALSE /\ attempt = 0 /\ stable = 1
    /\ polls = TRUE
    /\ update = [status |-> "idle", available |-> FALSE, downloaded |-> FALSE, context |-> "none"]
    /\ task = "none" /\ install = "no" /\ waits = NoBackend
    /\ shellLeft \in ShellBudgets

-----------------------------------------------------------------------------
(* The backend.                                                                *)

\* Mutant: an exit during an installation starts the backend again.
ScheduleBackendRestart_Always ==
    /\ restart' = TRUE
    /\ attempt' = IF restart \/ attempt = MaxAttempt THEN attempt ELSE attempt + 1

\* scheduleBackendRestart, as the handlers of "exit" and "error" call it.
ScheduleBackendRestart ==
    IF isQuitting \/ restart THEN UNCHANGED <<restart, attempt>>
    ELSE /\ restart' = TRUE
         /\ attempt' = IF attempt = MaxAttempt THEN attempt ELSE attempt + 1

\* startBackend, up to the "spawn" event, which comes before any other event can.
Spawn ==
    /\ Len(children) < MaxBackends
    /\ children' = Append(children, "up")
    /\ backend' = Len(children) + 1
    /\ stable' = Len(children) + 1
    /\ restart' = FALSE
    /\ UNCHANGED <<attempt, shellLeft>>

\* Mutant: a backend that cannot be spawned is given up.
SpawnFails_GivesUp ==
    /\ restart' = FALSE /\ UseShell("failures")
    /\ UNCHANGED <<children, backend, attempt, stable>>

\* The server's entry is missing, or the child emits "error" before it ran.
SpawnFails ==
    /\ restart' = TRUE /\ UseShell("failures")
    /\ attempt' = IF attempt = MaxAttempt THEN attempt ELSE attempt + 1
    /\ stable' \in {stable, NoBackend}
    /\ UNCHANGED <<children, backend>>

\* A timer set while the app quits comes too late: quitting takes less than its 500 ms.
RestartTimerFires ==
    /\ Idle /\ app = "up" /\ restart
    /\ IF isQuitting \/ backend # NoBackend
       THEN restart' = FALSE /\ UNCHANGED <<children, backend, attempt, stable, shellLeft>>
       ELSE Spawn \/ SpawnFails
    /\ UNCHANGED <<shellVars, updateVars, waits>>

\* The child's "exit", heard by startBackend's handler and by a stop that waits for it.
ExitHandled(c) ==
    /\ children' = [children EXCEPT ![c] = "gone"]
    /\ stable' = NoBackend
    /\ backend' = IF backend = c THEN NoBackend ELSE backend
    /\ ScheduleBackendRestart
    /\ IF install = "stopping" /\ waits = c
       THEN install' = "stopped" /\ waits' = NoBackend
       ELSE UNCHANGED <<install, waits>>
    /\ UNCHANGED <<shellVars, polls, update, task>>

Crash(c) ==
    /\ Idle /\ app # "ended" /\ children[c] = "up"
    /\ UseShell("crashes") /\ ExitHandled(c)

EndsAsTold(c) ==
    /\ Idle /\ app # "ended" /\ children[c] \in {"told", "killed"}
    /\ ExitHandled(c) /\ UNCHANGED shellLeft

\* backendStableTimer: this backend has run for thirty seconds.
StableTimerFires ==
    /\ Idle /\ app # "ended" /\ stable # NoBackend
    /\ stable' = NoBackend
    /\ attempt' = IF backend = stable THEN 0 ELSE attempt
    /\ UNCHANGED <<shellVars, updateVars, children, backend, restart, waits, shellLeft>>

\* stopBackend and stopBackendAndWaitForExit, without their waiting: restarts are called
\* off, the backend is let go of, and it is sent SIGTERM if it still runs.
LetGo ==
    /\ restart' = FALSE
    /\ backend' = NoBackend
    /\ children' = IF backend # NoBackend /\ children[backend] = "up"
                   THEN [children EXCEPT ![backend] = "told"] ELSE children

-----------------------------------------------------------------------------
(* Updates.                                                                    *)

CanCheck ==
    ~isQuitting /\ task # "check" /\ update.status \notin {"downloading", "downloaded"}

\* checkForUpdates, by a timer or the menu.
CheckForUpdates ==
    /\ Idle /\ app = "up" /\ CanCheck /\ UseShell("checks")
    /\ task' = "check"
    /\ update' = [update EXCEPT !.status = "checking", !.context = "none"]
    /\ UNCHANGED <<shellVars, childVars, polls, install>>

\* update-available and update-not-available, or the catch of a check that failed, whose
\* own "error" event is ignored.
CheckEnds ==
    /\ Idle /\ app # "ended" /\ task = "check"
    /\ task' = "none"
    /\ \/ \E found \in BOOLEAN :
             update' = [status |-> IF found THEN "available" ELSE "up-to-date",
                        available |-> found, downloaded |-> FALSE, context |-> "none"]
       \/ update' = [update EXCEPT !.status = "error", !.context = "check"]
    /\ UNCHANGED <<shellVars, childVars, polls, install, shellLeft>>

AcceptsDownload == task # "download" /\ update.status = "available"
AcceptsInstall == ~isQuitting /\ update.status = "downloaded"

DownloadAvailableUpdate ==
    /\ Idle /\ app = "up" /\ AcceptsDownload
    /\ task' = "download"
    /\ update' = [update EXCEPT !.status = "downloading", !.context = "none"]
    /\ UNCHANGED <<shellVars, childVars, polls, install, shellLeft>>

\* Mutant: a download that failed is an error, whatever is available.
AfterDownloadFailure_Error(u) == [u EXCEPT !.status = "error", !.context = "download"]
\* reduceDesktopUpdateStateOnDownloadFailure.
AfterDownloadFailure(u) ==
    [u EXCEPT !.status = IF u.available THEN "available" ELSE "error", !.context = "download"]

DownloadEnds ==
    /\ Idle /\ app # "ended" /\ task = "download"
    /\ task' = "none"
    /\ \/ /\ update' = [status |-> "downloaded", available |-> TRUE, downloaded |-> TRUE, context |-> "none"]
          /\ UNCHANGED shellLeft
       \/ update' = AfterDownloadFailure(update) /\ UseShell("failures")
    /\ UNCHANGED <<shellVars, childVars, polls, install>>

\* installDownloadedUpdate, up to its await: nothing starts the backend again.
InstallDownloadedUpdate ==
    /\ Idle /\ app = "up" /\ AcceptsInstall /\ UseShell("installs")
    /\ isQuitting' = TRUE /\ polls' = FALSE
    /\ LetGo
    /\ install' = IF backend = NoBackend THEN "stopped" ELSE "stopping"
    /\ waits' = backend
    /\ UNCHANGED <<app, attempt, stable, update, task>>

\* The two timers of stopBackendAndWaitForExit.
ForceKill ==
    /\ Idle /\ app # "ended" /\ install = "stopping" /\ children[waits] = "told"
    /\ children' = [children EXCEPT ![waits] = "killed"]
    /\ UNCHANGED <<shellVars, updateVars, backend, restart, attempt, stable, waits, shellLeft>>
ExitTimesOut ==
    /\ Idle /\ app # "ended" /\ install = "stopping"
    /\ install' = "stopped" /\ waits' = NoBackend
    /\ UNCHANGED <<shellVars, children, backend, restart, attempt, stable, polls, update, task, shellLeft>>

\* autoUpdater.quitAndInstall.  When it cannot install it throws, or only emits "error",
\* which main.ts takes for a check's or a download's.
QuitAndInstall ==
    /\ install = "stopped"
    /\ \/ install' = "handed" /\ UNCHANGED <<isQuitting, update>>
       \/ /\ install' = "thrown" /\ isQuitting' = FALSE
          /\ update' = [update EXCEPT !.status = "downloaded", !.context = "install"]
       \/ /\ install' = "failed" /\ UNCHANGED isQuitting
          /\ update' = [update EXCEPT !.status = "error"]
    /\ UNCHANGED <<app, childVars, polls, task, shellLeft>>

-----------------------------------------------------------------------------
(* The end of the app.                                                         *)

\* before-quit: of the user, a signal, or the updater once the installer runs.
BeforeQuit ==
    /\ Idle /\ app = "up"
    /\ app' = "quitting" /\ isQuitting' = TRUE /\ polls' = FALSE
    /\ LetGo /\ stable' = NoBackend
    /\ UNCHANGED <<attempt, update, task, install, waits, shellLeft>>

Exits ==
    /\ Idle /\ app = "quitting" /\ app' = "ended"
    /\ UNCHANGED <<isQuitting, childVars, updateVars, shellLeft>>

BackendStep ==
    \/ RestartTimerFires \/ StableTimerFires
    \/ \E c \in DOMAIN children : Crash(c) \/ EndsAsTold(c)
UpdateStep ==
    \/ CheckForUpdates \/ CheckEnds \/ DownloadAvailableUpdate \/ DownloadEnds
    \/ InstallDownloadedUpdate \/ ForceKill \/ ExitTimesOut \/ QuitAndInstall

ShellNext == BackendStep \/ UpdateStep \/ BeforeQuit \/ Exits

\* Timers fire, promises go on, and an app that was told to quit does.  Nothing else is
\* fair: neither the network nor a backend that is told to end need ever answer.
Fairness ==
    /\ WF_allShellVars(RestartTimerFires) /\ WF_allShellVars(ForceKill) /\ WF_allShellVars(ExitTimesOut)
    /\ WF_allShellVars(QuitAndInstall) /\ WF_allShellVars(Exits)
    /\ WF_allShellVars(install = "handed" /\ BeforeQuit)

ShellSpec == ShellInit /\ [][ShellNext]_allShellVars
ShellFairSpec == ShellSpec /\ Fairness

-----------------------------------------------------------------------------
(* Properties.                                                                 *)

TypeOK ==
    /\ app \in {"up", "quitting", "ended"} /\ isQuitting \in BOOLEAN
    /\ children \in Seq({"up", "told", "killed", "gone"})
    /\ backend \in 0 .. Len(children) /\ stable \in 0 .. Len(children) /\ waits \in 0 .. Len(children)
    /\ restart \in BOOLEAN /\ attempt \in 0 .. MaxAttempt /\ polls \in BOOLEAN
    /\ update \in [status : Statuses, available : BOOLEAN, downloaded : BOOLEAN, context : Contexts]
    /\ task \in {"none", "check", "download"} /\ install \in Installs
    /\ shellLeft \in [{"crashes", "failures", "checks", "installs"} -> Nat]

\* A backend that was not told to end is the shell's own, so that no two of them share the
\* port; and when the installer takes over, or the app ends, there is none and none to
\* come, whatever exits late, restarts or fails to install (startBackend, the handlers of
\* "exit" and "error", stopBackend and stopBackendAndWaitForExit).
NoStrayBackend ==
    /\ \A c \in DOMAIN children : children[c] = "up" => backend = c
    /\ install \in {"stopped", "handed"} \/ app # "up" => backend = NoBackend
    /\ install \in {"stopped", "handed"} => ~restart

\* resolveDesktopUpdateButtonAction.
ButtonAction(u) ==
    CASE u.status = "available" -> "download"
      [] u.status = "downloaded" -> "install"
      [] u.status = "error" /\ u.context = "install" /\ u.downloaded -> "install"
      [] u.status = "error" /\ u.context = "download" /\ u.available -> "download"
      [] OTHER -> "none"

\* What the update's button offers is accepted by the main process, which decides by
\* guards of its own, and is about an update the shell has; unless an installation failed.
OfferIsAccepted ==
    /\ ButtonAction(update) = "download" => AcceptsDownload /\ update.available
    /\ ButtonAction(update) = "install" /\ ~isQuitting => AcceptsInstall /\ update.downloaded
    /\ task = "download" => update.status = "downloading"

\* The app always gets back to a running backend, or ends, unless an installation failed:
\* then the backend stays stopped, for the failure starts none.
ServesOrEnds ==
    []<>(backend # NoBackend \/ app = "ended" \/ install \in {"thrown", "failed"})
=============================================================================
