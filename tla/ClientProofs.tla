------------------------------ MODULE ClientProofs ------------------------------
(* What is in front of the server, and what it has of the server.  The desktop     *)
(* shell: one backend, none under the installer, and offers the shell accepts, for *)
(* any number of backends, crashes, failures, checks and installations.  The web   *)
(* client's terminal: the server's subscription is what the client wants, for any  *)
(* number of mounts, characters, restarts, drops, faults and evictions, and any    *)
(* length of the queue.  A thread in a client's list: the tables it is read from   *)
(* follow the server's memory, what the client offers is what the server accepts,  *)
(* and no request outlives its turn, for any number of requests, turns, captures,  *)
(* restarts and instants and any bounds on messages, checkpoints and activities.   *)
EXTENDS DesktopShell, HarnessOutput, ThreadLifecycle, FiniteSetTheorems,
        SequenceTheorems, WellFoundedInduction, TLAPS

\* A non-empty set of numbers has a least.
LEMMA LeastNumber ==
    ASSUME NEW S \in SUBSET Nat, S # {}
    PROVE  \E m \in S : \A k \in S : m <= k
<1>. DEFINE R == {ss \in Nat \X Nat : ss[1] < ss[2]}
<1>1. IsWellFoundedOn(R, Nat)
  BY NatLessThanWellFounded DEF OpToRel
<1>2. \A k, m \in Nat : k < m => <<k, m>> \in R
  OBVIOUS
<1>. HIDE DEF R
<1>3. PICK m \in S : \A k \in S : ~(<<k, m>> \in R)
  BY <1>1, WFMin
<1>4. ASSUME NEW k \in S
      PROVE  m <= k
  <2>1. k \in Nat /\ m \in Nat
    OBVIOUS
  <2>2. ~(k < m)
    BY <2>1, <1>2, <1>3
  <2>. QED
    BY <2>1, <2>2
<1>. QED
  BY <1>4

-----------------------------------------------------------------------------
(* The desktop shell.                                                          *)

ChildStates == {"up", "told", "killed", "gone"}

\* The shell's own: a child that was not told to end is backendProcess, and once an
\* installation has begun, or the app quits, there is none.
BackendIInv ==
    /\ \A c \in DOMAIN children : children[c] = "up" => backend = c
    /\ install \in {"stopping", "stopped", "handed"} => isQuitting /\ ~restart /\ backend = NoBackend
    /\ app # "up" => backend = NoBackend

\* How the update's status, its versions, its errors and what is in flight belong together.
UpdateIInv ==
    /\ task = "check" => update.status = "checking"
    /\ task = "download" => update.status = "downloading"
    /\ install \in {"stopping", "stopped"} => update.status = "downloaded"
    /\ update.status \in {"available", "downloading"} => update.available
    /\ update.status = "downloaded" => update.downloaded /\ update.context \in {"none", "install"}
    /\ update.status = "error" =>
          update.context \in {"none", "check"} \/ (update.context = "install" /\ isQuitting)


IInv == TypeOK /\ BackendIInv /\ UpdateIInv

\* A child's state changes and the others keep theirs.
LEMMA ChildChanges ==
    ASSUME children \in Seq(ChildStates), NEW c \in DOMAIN children, NEW state \in ChildStates,
           children' = [children EXCEPT ![c] = state]
    PROVE  /\ children' \in Seq(ChildStates) /\ Len(children') = Len(children)
           /\ DOMAIN children' = DOMAIN children
           /\ \A d \in DOMAIN children : children'[d] = IF d = c THEN state ELSE children[d]
<1>1. c \in 1 .. Len(children) /\ DOMAIN children = 1 .. Len(children)
  OBVIOUS
<1>2. /\ children' \in Seq(ChildStates) /\ Len(children') = Len(children)
      /\ \A d \in 1 .. Len(children) : children'[d] = IF d = c THEN state ELSE children[d]
  BY <1>1, ExceptSeq
<1>. QED
  BY <1>1, <1>2

\* A use leaves budgets.
LEMMA UseType ==
    ASSUME TypeOK, NEW what \in {"crashes", "failures", "checks", "installs"}, UseShell(what)
    PROVE  shellLeft' \in [{"crashes", "failures", "checks", "installs"} -> Nat]
  BY DEF TypeOK, UseShell

\* The delay of the next restart is bounded.
LEMMA AttemptType ==
    ASSUME TypeOK, attempt' \in {0, attempt, IF attempt = MaxAttempt THEN attempt ELSE attempt + 1}
    PROVE  attempt' \in 0 .. MaxAttempt
  BY MaxAttemptAssumption DEF TypeOK

\* The shell starts with one backend.
LEMMA InitIInv == ShellInit => IInv
<1>. SUFFICES ASSUME ShellInit PROVE IInv
  OBVIOUS
<1>1. children \in Seq(ChildStates) /\ Len(children) = 1 /\ DOMAIN children = 1 .. 1
  BY DEF ShellInit, ChildStates
<1>2. shellLeft \in [{"crashes", "failures", "checks", "installs"} -> Nat]
  BY ShellBudgetsAssumption DEF ShellInit
<1>3. update \in [status : Statuses, available : BOOLEAN, downloaded : BOOLEAN, context : Contexts]
  BY DEF ShellInit, Statuses, Contexts
<1>4. /\ backend \in 0 .. Len(children) /\ stable \in 0 .. Len(children)
      /\ waits \in 0 .. Len(children) /\ attempt \in 0 .. MaxAttempt
  BY <1>1, MaxAttemptAssumption DEF ShellInit, NoBackend
<1>5. /\ app = "up" /\ isQuitting = FALSE /\ restart = FALSE /\ polls = TRUE
      /\ task = "none" /\ install = "no"
  BY DEF ShellInit
<1>6. TypeOK
  BY <1>1, <1>2, <1>3, <1>4, <1>5 DEF TypeOK, ChildStates, Installs
<1>. QED
  BY <1>1, <1>5, <1>6 DEF ShellInit, IInv, BackendIInv, UpdateIInv

\* Letting go of the backend leaves no child that was not told to end.
LEMMA LetGoLeavesNone ==
    ASSUME IInv, LetGo
    PROVE  /\ children' \in Seq(ChildStates) /\ Len(children') = Len(children)
           /\ backend' = NoBackend /\ restart' = FALSE
           /\ \A c \in DOMAIN children' : children'[c] # "up"
<1>1. /\ children \in Seq(ChildStates) /\ DOMAIN children = 1 .. Len(children)
      /\ backend # NoBackend => backend \in DOMAIN children
  BY DEF IInv, TypeOK, ChildStates, NoBackend
<1>2. backend' = NoBackend /\ restart' = FALSE
  BY DEF LetGo
<1>3. CASE backend # NoBackend /\ children[backend] = "up"
  <2>1. children' = [children EXCEPT ![backend] = "told"] /\ "told" \in ChildStates
    BY <1>3 DEF LetGo, ChildStates
  <2>2. /\ children' \in Seq(ChildStates) /\ Len(children') = Len(children)
        /\ DOMAIN children' = DOMAIN children
        /\ \A d \in DOMAIN children : children'[d] = IF d = backend THEN "told" ELSE children[d]
    BY <1>1, <1>3, <2>1, ChildChanges
  <2>. QED
    BY <1>2, <2>2 DEF IInv, BackendIInv
<1>4. CASE ~(backend # NoBackend /\ children[backend] = "up")
  <2>1. children' = children
    BY <1>4 DEF LetGo
  <2>2. \A c \in DOMAIN children : children[c] # "up"
    BY <1>1, <1>4 DEF IInv, BackendIInv, NoBackend
  <2>. QED
    BY <1>1, <1>2, <2>1, <2>2
<1>. QED
  BY <1>3, <1>4

\* The end of a child, whatever it ends for.
LEMMA ExitIInv ==
    ASSUME IInv, NEW c \in DOMAIN children, ExitHandled(c), app # "ended",
           shellLeft' \in [{"crashes", "failures", "checks", "installs"} -> Nat]
    PROVE  IInv'
<1>1. children \in Seq(ChildStates) /\ DOMAIN children = 1 .. Len(children)
  BY DEF IInv, TypeOK, ChildStates
<1>2. /\ children' \in Seq(ChildStates) /\ Len(children') = Len(children)
      /\ DOMAIN children' = DOMAIN children
      /\ \A d \in DOMAIN children : children'[d] = IF d = c THEN "gone" ELSE children[d]
  <2>1. children' = [children EXCEPT ![c] = "gone"] /\ "gone" \in ChildStates
    BY DEF ExitHandled, ChildStates
  <2>. QED
    BY <1>1, <2>1, ChildChanges
<1>3. /\ stable' = NoBackend /\ backend' = IF backend = c THEN NoBackend ELSE backend
      /\ UNCHANGED <<app, isQuitting, polls, update, task>>
  BY DEF ExitHandled, shellVars
<1>4. restart' \in BOOLEAN /\ attempt' \in 0 .. MaxAttempt /\ (isQuitting => restart' = restart)
  BY AttemptType DEF ExitHandled, ScheduleBackendRestart, IInv, TypeOK
<1>5. \/ UNCHANGED <<install, waits>>
      \/ install = "stopping" /\ install' = "stopped" /\ waits' = NoBackend
  BY DEF ExitHandled
<1>6. TypeOK'
  BY <1>1, <1>2, <1>3, <1>4, <1>5 DEF IInv, TypeOK, ChildStates, Installs, NoBackend
<1>7. BackendIInv'
  BY <1>1, <1>2, <1>3, <1>4, <1>5 DEF IInv, BackendIInv, NoBackend
<1>8. UpdateIInv'
  BY <1>3, <1>5 DEF IInv, UpdateIInv
<1>. QED
  BY <1>6, <1>7, <1>8 DEF IInv

\* The backend's steps: a timer starts one only while nobody quits and there is none.
LEMMA BackendStepIInv == ASSUME IInv, BackendStep PROVE IInv'
<1>. USE DEF IInv
<1>a. children \in Seq(ChildStates) /\ DOMAIN children = 1 .. Len(children)
  BY DEF TypeOK, ChildStates
<1>1. CASE RestartTimerFires
  <2>1. UNCHANGED <<app, isQuitting, polls, update, task, install, waits>> /\ app = "up" /\ restart
    BY <1>1 DEF RestartTimerFires, shellVars, updateVars
  <2>2. CASE isQuitting \/ backend # NoBackend
    <3>1. restart' = FALSE /\ UNCHANGED <<children, backend, attempt, stable, shellLeft>>
      BY <1>1, <2>2 DEF RestartTimerFires
    <3>. QED
      BY <2>1, <3>1 DEF TypeOK, BackendIInv, UpdateIInv
  <2>3. CASE ~isQuitting /\ backend = NoBackend /\ Spawn
    <3>1. /\ children' = Append(children, "up") /\ backend' = Len(children) + 1
          /\ stable' = Len(children) + 1 /\ restart' = FALSE /\ UNCHANGED <<attempt, shellLeft>>
      BY <2>3 DEF Spawn
    <3>2. /\ children' \in Seq(ChildStates) /\ Len(children') = Len(children) + 1
          /\ \A c \in 1 .. Len(children) : children'[c] = children[c]
      BY <1>a, <3>1, AppendProperties DEF ChildStates
    <3>3. \A c \in DOMAIN children' : children'[c] = "up" => backend' = c
      BY <1>a, <2>3, <3>1, <3>2 DEF BackendIInv, NoBackend
    <3>4. /\ backend' \in 0 .. Len(children') /\ stable' \in 0 .. Len(children')
          /\ waits' \in 0 .. Len(children')
      BY <1>a, <2>1, <3>1, <3>2 DEF TypeOK
    <3>5. TypeOK'
      BY <2>1, <3>1, <3>2, <3>4 DEF TypeOK, ChildStates
    <3>. QED
      BY <2>1, <2>3, <3>1, <3>3, <3>5 DEF BackendIInv, UpdateIInv
  <2>4. CASE ~isQuitting /\ backend = NoBackend /\ SpawnFails
    <3>1. shellLeft' \in [{"crashes", "failures", "checks", "installs"} -> Nat]
      BY <2>4, UseType DEF SpawnFails
    <3>2. attempt' \in 0 .. MaxAttempt
      BY <2>4, AttemptType DEF SpawnFails
    <3>. QED
      BY <2>1, <2>4, <3>1, <3>2 DEF SpawnFails, TypeOK, BackendIInv, UpdateIInv, NoBackend
  <2>. QED
    BY <1>1, <2>2, <2>3, <2>4 DEF RestartTimerFires
<1>2. CASE StableTimerFires
  <2>1. attempt' \in 0 .. MaxAttempt
    BY <1>2, AttemptType DEF StableTimerFires
  <2>. QED
    BY <1>2, <2>1 DEF StableTimerFires, TypeOK, BackendIInv, UpdateIInv, shellVars, updateVars, NoBackend
<1>3. ASSUME NEW c \in DOMAIN children, Crash(c) PROVE IInv'
  BY <1>3, ExitIInv, UseType DEF Crash
<1>4. ASSUME NEW c \in DOMAIN children, EndsAsTold(c) PROVE IInv'
  BY <1>4, ExitIInv DEF EndsAsTold, TypeOK
<1>. QED
  BY <1>1, <1>2, <1>3, <1>4 DEF BackendStep

\* Checks and downloads change nothing of the backend, and go together with the status.
LEMMA UpdateTaskIInv ==
    ASSUME IInv, CheckForUpdates \/ CheckEnds \/ DownloadAvailableUpdate \/ DownloadEnds
    PROVE  IInv'
<1>. USE DEF IInv, TypeOK, BackendIInv, UpdateIInv, shellVars, childVars, Statuses, Contexts
<1>1. CASE CheckForUpdates
  <2>1. shellLeft' \in [{"crashes", "failures", "checks", "installs"} -> Nat]
    BY <1>1, UseType DEF CheckForUpdates
  <2>. QED
    BY <1>1, <2>1 DEF CheckForUpdates, CanCheck, Installs
<1>2. CASE CheckEnds
  <2>1. /\ task = "check" /\ task' = "none"
        /\ UNCHANGED <<app, isQuitting, childVars, polls, install, shellLeft>>
    BY <1>2 DEF CheckEnds
  <2>2. CASE \E found \in BOOLEAN :
             update' = [status |-> IF found THEN "available" ELSE "up-to-date",
                        available |-> found, downloaded |-> FALSE, context |-> "none"]
    BY <2>1, <2>2
  <2>3. CASE update' = [update EXCEPT !.status = "error", !.context = "check"]
    BY <2>1, <2>3
  <2>. QED
    BY <1>2, <2>2, <2>3 DEF CheckEnds
<1>3. CASE DownloadAvailableUpdate
  BY <1>3 DEF DownloadAvailableUpdate, AcceptsDownload, Installs
<1>4. CASE DownloadEnds
  <2>1. shellLeft' \in [{"crashes", "failures", "checks", "installs"} -> Nat]
    BY <1>4, UseType DEF DownloadEnds
  <2>2. /\ task = "download" /\ task' = "none" /\ update.status = "downloading" /\ update.available
        /\ install \notin {"stopping", "stopped"} /\ UNCHANGED <<app, isQuitting, polls, install>>
        /\ UNCHANGED <<children, backend, restart, attempt, stable, waits>>
    BY <1>4 DEF DownloadEnds
  <2>3. \/ update' = [status |-> "downloaded", available |-> TRUE, downloaded |-> TRUE, context |-> "none"]
        \/ update' = [update EXCEPT !.status = "available", !.context = "download"]
    BY <1>4, <2>2 DEF DownloadEnds, AfterDownloadFailure
  <2>4. CASE update' = [status |-> "downloaded", available |-> TRUE, downloaded |-> TRUE, context |-> "none"]
    BY <2>1, <2>2, <2>4
  <2>5. CASE update' = [update EXCEPT !.status = "available", !.context = "download"]
    <3>1. /\ update' \in [status : Statuses, available : BOOLEAN, downloaded : BOOLEAN, context : Contexts]
          /\ update'.status = "available" /\ update'.available
      BY <2>2, <2>5
    <3>. QED
      BY <2>1, <2>2, <3>1
  <2>. QED
    BY <2>3, <2>4, <2>5
<1>. QED
  BY <1>1, <1>2, <1>3, <1>4

\* An installation lets go of the backend before it waits, and nothing starts another.
LEMMA InstallIInv ==
    ASSUME IInv, InstallDownloadedUpdate \/ ForceKill \/ ExitTimesOut \/ QuitAndInstall
    PROVE  IInv'
<1>. USE DEF IInv
<1>a. children \in Seq(ChildStates) /\ DOMAIN children = 1 .. Len(children)
  BY DEF TypeOK, ChildStates
<1>1. CASE InstallDownloadedUpdate
  <2>1. shellLeft' \in [{"crashes", "failures", "checks", "installs"} -> Nat]
    BY <1>1, UseType DEF InstallDownloadedUpdate
  <2>2. /\ children' \in Seq(ChildStates) /\ Len(children') = Len(children)
        /\ backend' = NoBackend /\ restart' = FALSE
        /\ \A c \in DOMAIN children' : children'[c] # "up"
    BY <1>1, LetGoLeavesNone DEF InstallDownloadedUpdate
  <2>3. /\ isQuitting' = TRUE /\ polls' = FALSE /\ install' \in {"stopped", "stopping"}
        /\ waits' = backend /\ UNCHANGED <<app, attempt, stable, update, task>>
        /\ update.status = "downloaded"
    BY <1>1 DEF InstallDownloadedUpdate, AcceptsInstall
  <2>4. /\ backend' \in 0 .. Len(children') /\ stable' \in 0 .. Len(children')
        /\ waits' \in 0 .. Len(children')
    BY <1>a, <2>2, <2>3 DEF TypeOK, NoBackend
  <2>5. TypeOK'
    BY <2>1, <2>2, <2>3, <2>4 DEF TypeOK, ChildStates, Installs
  <2>. QED
    BY <2>2, <2>3, <2>5 DEF BackendIInv, UpdateIInv
<1>2. CASE ForceKill
  <2>1. /\ install = "stopping" /\ waits \in 0 .. Len(children)
        /\ UNCHANGED <<app, isQuitting, polls, update, task, install, backend, restart, attempt, stable, waits, shellLeft>>
    BY <1>2 DEF ForceKill, shellVars, updateVars, TypeOK
  <2>2. CASE waits \in DOMAIN children
    <3>1. children' = [children EXCEPT ![waits] = "killed"] /\ "killed" \in ChildStates
      BY <1>2 DEF ForceKill, ChildStates
    <3>2. /\ children' \in Seq(ChildStates) /\ Len(children') = Len(children)
          /\ DOMAIN children' = DOMAIN children
          /\ \A d \in DOMAIN children : children'[d] = IF d = waits THEN "killed" ELSE children[d]
      BY <1>a, <2>2, <3>1, ChildChanges
    <3>. QED
      BY <1>a, <2>1, <3>2 DEF TypeOK, ChildStates, BackendIInv, UpdateIInv
  <2>3. CASE waits \notin DOMAIN children
    <3>1. children' = children
      BY <1>2, <1>a, <2>3 DEF ForceKill
    <3>. QED
      BY <2>1, <3>1 DEF TypeOK, BackendIInv, UpdateIInv
  <2>. QED
    BY <2>2, <2>3
<1>3. CASE ExitTimesOut
  BY <1>3 DEF ExitTimesOut, TypeOK, BackendIInv, UpdateIInv, shellVars, Installs, NoBackend
<1>4. CASE QuitAndInstall
  <2>1. /\ app' = app /\ children' = children /\ backend' = backend /\ restart' = restart
        /\ attempt' = attempt /\ stable' = stable /\ waits' = waits /\ polls' = polls
        /\ task' = task /\ shellLeft' = shellLeft
        /\ install = "stopped" /\ install' \in {"handed", "thrown", "failed"}
    BY <1>4 DEF QuitAndInstall, childVars
  <2>2. isQuitting' \in BOOLEAN /\ (install' # "thrown" => isQuitting' = isQuitting)
    BY <1>4 DEF QuitAndInstall, TypeOK
  <2>3. update' \in [status : Statuses, available : BOOLEAN, downloaded : BOOLEAN, context : Contexts]
    BY <1>4 DEF QuitAndInstall, TypeOK, Statuses, Contexts
  <2>4. TypeOK'
    BY <2>1, <2>2, <2>3 DEF TypeOK, Installs
  <2>0. install' \notin {"stopping", "stopped"}
    BY <2>1
  <2>5. BackendIInv'
    <3>1. isQuitting /\ ~restart /\ backend = NoBackend
      BY <2>1 DEF BackendIInv
    <3>2. (\A c \in DOMAIN children : children[c] = "up" => backend = c)'
      BY <2>1 DEF BackendIInv
    <3>3. install' = "handed" => isQuitting'
      BY <2>2, <3>1
    <3>4. ~restart' /\ backend' = NoBackend
      BY <2>1, <3>1
    <3>. QED
      BY <2>0, <3>2, <3>3, <3>4 DEF BackendIInv
  <2>a. /\ update \in [status : Statuses, available : BOOLEAN, downloaded : BOOLEAN, context : Contexts]
        /\ isQuitting \in BOOLEAN
    BY DEF TypeOK
  <2>b. isQuitting /\ task' = task
    BY <2>1, <2>a DEF BackendIInv
  <2>6. /\ update.status = "downloaded" /\ update.downloaded /\ update.context \in {"none", "install"}
        /\ task # "check" /\ task # "download"
    BY <2>1 DEF UpdateIInv
  <2>7. CASE UNCHANGED <<isQuitting, update>>
    BY <2>0, <2>4, <2>5, <2>6, <2>7, <2>b DEF UpdateIInv
  <2>8. CASE update' = [update EXCEPT !.status = "downloaded", !.context = "install"]
    <3>1. update'.status = "downloaded" /\ update'.downloaded /\ update'.context = "install"
      BY <2>6, <2>8, <2>a
    <3>. QED
      BY <2>0, <2>4, <2>5, <2>6, <2>b, <3>1 DEF UpdateIInv
  <2>9. CASE install' = "failed" /\ UNCHANGED isQuitting /\ update' = [update EXCEPT !.status = "error"]
    <3>1. update'.status = "error" /\ update'.context \in {"none", "install"}
      BY <2>6, <2>9, <2>a
    <3>. QED
      BY <2>0, <2>4, <2>5, <2>6, <2>9, <2>b, <3>1 DEF UpdateIInv
  <2>. QED
    BY <1>4, <2>7, <2>8, <2>9 DEF QuitAndInstall
<1>. QED
  BY <1>1, <1>2, <1>3, <1>4

\* Quitting lets go of the backend too.
LEMMA QuitIInv == ASSUME IInv, BeforeQuit \/ Exits PROVE IInv'
<1>. USE DEF IInv
<1>a. children \in Seq(ChildStates) /\ DOMAIN children = 1 .. Len(children)
  BY DEF TypeOK, ChildStates
<1>1. CASE BeforeQuit
  <2>1. /\ children' \in Seq(ChildStates) /\ Len(children') = Len(children)
        /\ backend' = NoBackend /\ restart' = FALSE
        /\ \A c \in DOMAIN children' : children'[c] # "up"
    BY <1>1, LetGoLeavesNone DEF BeforeQuit
  <2>2. /\ app' = "quitting" /\ isQuitting' = TRUE /\ polls' = FALSE /\ stable' = NoBackend
        /\ UNCHANGED <<attempt, update, task, install, waits, shellLeft>>
    BY <1>1 DEF BeforeQuit
  <2>3. /\ backend' \in 0 .. Len(children') /\ stable' \in 0 .. Len(children')
        /\ waits' \in 0 .. Len(children')
    BY <1>a, <2>1, <2>2 DEF TypeOK, NoBackend
  <2>4. TypeOK'
    BY <2>1, <2>2, <2>3 DEF TypeOK, ChildStates
  <2>. QED
    BY <2>1, <2>2, <2>4 DEF BackendIInv, UpdateIInv
<1>2. CASE Exits
  BY <1>2 DEF Exits, TypeOK, BackendIInv, UpdateIInv, childVars, updateVars
<1>. QED
  BY <1>1, <1>2

\* Every step keeps the invariant.
LEMMA NextIInv == IInv /\ [ShellNext]_allShellVars => IInv'
<1>. SUFFICES ASSUME IInv, [ShellNext]_allShellVars PROVE IInv'
  OBVIOUS
<1>1. CASE BackendStep
  BY <1>1, BackendStepIInv
<1>2. CASE UpdateStep
  BY <1>2, UpdateTaskIInv, InstallIInv DEF UpdateStep
<1>3. CASE BeforeQuit \/ Exits
  BY <1>3, QuitIInv
<1>4. CASE UNCHANGED allShellVars
  BY <1>4 DEF allShellVars, shellVars, childVars, updateVars, IInv, TypeOK, BackendIInv, UpdateIInv
<1>. QED
  BY <1>1, <1>2, <1>3, <1>4 DEF ShellNext

\* The inductive invariant: who owns the backend, and what an update's status goes with.
THEOREM SpecIInv == ShellSpec => []IInv
<1>. QED
  BY InitIInv, NextIInv, PTL DEF ShellSpec

\* The shell's variables are well typed, whatever crashes, fails or is installed (main.ts).
THEOREM SpecTypeOK == ShellSpec => []TypeOK
<1>1. IInv => TypeOK
  BY DEF IInv
<1>. QED
  BY SpecIInv, <1>1, PTL

\* A backend that was not told to end is the shell's own, and an installer or the end of the
\* app finds none and none to come (startBackend, stopBackend and installDownloadedUpdate).
THEOREM SpecNoStrayBackend == ShellSpec => []NoStrayBackend
<1>1. IInv => NoStrayBackend
  BY DEF IInv, BackendIInv, NoStrayBackend
<1>. QED
  BY SpecIInv, <1>1, PTL

\* Every download and installation the button offers passes the main process's own guards
\* (resolveDesktopUpdateButtonAction against downloadAvailableUpdate, installDownloadedUpdate).
THEOREM SpecOfferIsAccepted == ShellSpec => []OfferIsAccepted
<1>1. IInv => OfferIsAccepted
  BY DEF IInv, TypeOK, UpdateIInv, OfferIsAccepted, ButtonAction, AcceptsDownload, AcceptsInstall
<1>. QED
  BY SpecIInv, <1>1, PTL

-----------------------------------------------------------------------------
(* The subscription of a terminal's output.                                    *)

\* A transport, with messages of ids given before.
Carries(t) ==
    /\ DOMAIN t = {"socket", "nextId", "pending", "queue", "wire", "asked"}
    /\ t.nextId \in Nat
    /\ \A m \in t.queue \cup t.wire : m.id \in Nat /\ m.id < t.nextId

Subscriptions(t) == {m \in t.wire : m.body.method = "subscribe"}
LastAsked(ms) == {m \in ms : \A other \in ms : other.id <= m.id}

\* What the server will hold of the thread once it has read the wire.
Says(t, held, on) ==
    IF Subscriptions(t) = {} THEN held = on
    ELSE \A m \in LastAsked(Subscriptions(t)) : m.body.on = on

\* Until its welcome is handled, a connection may say what an earlier one did.
Welcomed(t, brought) ==
    t.socket = "open" /\ ~\E i \in DOMAIN brought : brought[i].type = "welcome"

SequenceOfItsOwn(s) == s \in Seq({s[i] : i \in DOMAIN s})
ViewFields == {"id", "since", "phase", "request", "fit", "catchUp", "gate", "synced", "away",
               "retries", "retrying", "pre", "preMax", "data", "max", "held", "invalid", "queue"}
IsView(v) == v = NoView \/ DOMAIN v = ViewFields

SubscriptionIInv ==
    /\ Carries(transport)
    /\ SequenceOfItsOwn(inbox)
    /\ IsView(view)
    /\ wanted = (view # NoView)
    /\ sent # None => sent = <<wanted>>
    /\ Welcomed(transport, inbox) => Says(transport, subscribed, wanted)

-----------------------------------------------------------------------------
(* The transport. *)

LEMMA MoreWire ==
    ASSUME NEW t, Carries(t), NEW body, NEW m, m = Message(t.nextId, TRUE, NoKey, body),
           NEW u, u = Request(t, body)
    PROVE  /\ Carries(u) /\ u.socket = t.socket
           /\ u.wire = IF t.socket = "open" THEN t.wire \cup {m} ELSE t.wire
<1>. DEFINE v == [t EXCEPT !.nextId = @ + 1, !.pending = @ \cup {t.nextId}]
<1>1. /\ m.id = t.nextId /\ m.key = NoKey /\ m.tracked /\ t.nextId \in Nat
      /\ t.nextId + 1 \in Nat /\ t.nextId < t.nextId + 1
  BY DEF Message, Carries
<1>2. /\ DOMAIN v = DOMAIN t /\ v.socket = t.socket /\ v.nextId = t.nextId + 1
      /\ v.queue = t.queue /\ v.wire = t.wire
  BY DEF Carries
<1>3. u = Send(v, m)
  BY DEF Request
<1>. HIDE DEF v
<1>. SUFFICES /\ DOMAIN u = DOMAIN v /\ u.socket = t.socket /\ u.nextId = t.nextId + 1
              /\ u.queue \subseteq t.queue \cup {m}
              /\ u.wire = IF t.socket = "open" THEN t.wire \cup {m} ELSE t.wire
  <2>. SUFFICES ASSUME NEW x \in u.queue \cup u.wire
                PROVE  x.id \in Nat /\ x.id < t.nextId + 1
    BY <1>1, <1>2 DEF Carries
  <2>1. CASE x \in t.queue \cup t.wire
    <3>1. x.id \in Nat /\ x.id < t.nextId
      BY <2>1 DEF Carries
    <3>. QED
      BY <1>1, <3>1
  <2>2. CASE x = m
    BY <1>1, <2>2
  <2>3. u.wire \subseteq t.wire \cup {m}
    OBVIOUS
  <2>4. x \in t.queue \cup t.wire \/ x = m
    BY <2>3
  <2>. QED
    BY <2>1, <2>2, <2>4
<1>4. CASE t.socket = "open"
  <2>1. u = Put(v, {m})
    BY <1>2, <1>3, <1>4 DEF Send
  <2>. QED
    BY <1>2, <1>4, <2>1 DEF Put, Carries
<1>5. CASE t.socket # "open"
  <2>1. u = EnqueueOutboundMessage(v, m)
    BY <1>2, <1>3, <1>5 DEF Send
  <2>2. Coalesced(v.queue, m) = t.queue
    BY <1>1, <1>2 DEF Coalesced
  <2>. DEFINE old == Oldest({q \in t.queue : ~q.tracked})
  <2>3. \/ u = [v EXCEPT !.queue = t.queue \cup {m}]
        \/ u = [v EXCEPT !.queue = (t.queue \ {old}) \cup {m}]
        \/ u = [v EXCEPT !.queue = t.queue, !.pending = @ \ {m.id}]
    BY <2>1, <2>2 DEF EnqueueOutboundMessage
  <2>. HIDE DEF old
  <2>. QED
    BY <1>2, <1>5, <2>3 DEF Carries
<1>. QED
  BY <1>4, <1>5

\* A request for the subscription is the newest; others do not count.
LEMMA RequestSays ==
    ASSUME NEW t, Carries(t), NEW body, NEW held, NEW on
    PROVE  LET u == Request(t, body) IN
           /\ Carries(u) /\ u.socket = t.socket
           /\ body.method = "subscribe" /\ t.socket = "open" => Says(u, held, body.on)
           /\ body.method # "subscribe" => (Says(u, held, on) <=> Says(t, held, on))
<1>. DEFINE m == Message(t.nextId, TRUE, NoKey, body)
<1>. SUFFICES ASSUME NEW u, u = Request(t, body)
              PROVE  /\ Carries(u) /\ u.socket = t.socket
                     /\ body.method = "subscribe" /\ t.socket = "open" => Says(u, held, body.on)
                     /\ body.method # "subscribe" => (Says(u, held, on) <=> Says(t, held, on))
  OBVIOUS
<1>1. /\ Carries(u) /\ u.socket = t.socket
      /\ u.wire = IF t.socket = "open" THEN t.wire \cup {m} ELSE t.wire
  BY MoreWire
<1>2. m.id = t.nextId /\ m.body = body
  BY DEF Message
<1>. HIDE DEF m
<1>3. ASSUME body.method = "subscribe", t.socket = "open"
      PROVE  Says(u, held, body.on)
  <2>1. m \in Subscriptions(u)
    BY <1>1, <1>2, <1>3 DEF Subscriptions
  <2>2. \A other \in Subscriptions(u) : other = m \/ (other.id < m.id /\ other.id \in Nat)
    BY <1>1, <1>2, <1>3 DEF Subscriptions, Carries
  <2>3. m.id \in Nat
    BY <1>2 DEF Carries
  <2>4. LastAsked(Subscriptions(u)) \subseteq {m}
    BY <2>1, <2>2, <2>3 DEF LastAsked
  <2>. QED
    BY <1>2, <2>1, <2>4 DEF Says
<1>4. ASSUME body.method # "subscribe"
      PROVE  Says(u, held, on) <=> Says(t, held, on)
  <2>1. Subscriptions(u) = Subscriptions(t)
    BY <1>1, <1>2, <1>4 DEF Subscriptions
  <2>. QED
    BY <2>1 DEF Says
<1>. QED
  BY <1>1, <1>3, <1>4


\* The oldest message on its way, which the server reads first.
LEMMA OldestOnWire ==
    ASSUME NEW t, Carries(t), t.wire # {}
    PROVE  Oldest(t.wire) \in t.wire /\ \A other \in t.wire : Oldest(t.wire).id <= other.id
<1>. DEFINE ids == {m.id : m \in t.wire}
<1>1. ids \in SUBSET Nat /\ ids # {}
  BY DEF Carries
<1>2. PICK id \in ids : \A k \in ids : id <= k
  BY <1>1, LeastNumber
<1>3. \E m \in t.wire : \A other \in t.wire : m.id <= other.id
  BY <1>2
<1>. QED
  BY <1>3 DEF Oldest

\* What was asked last is read last.
LEMMA ReadSays ==
    ASSUME NEW t, Carries(t), t.wire # {}, NEW held, NEW on, Says(t, held, on),
           NEW m, m = Oldest(t.wire),
           NEW u, u = [t EXCEPT !.wire = @ \ {m}]
    PROVE  /\ Carries(u) /\ u.socket = t.socket
           /\ Says(u, IF m.body.method = "subscribe" THEN m.body.on ELSE held, on)
<1>1. m \in t.wire /\ \A other \in t.wire : m.id <= other.id
  BY OldestOnWire
<1>2. DOMAIN u = DOMAIN t /\ u.socket = t.socket /\ u.nextId = t.nextId /\ u.queue = t.queue
      /\ u.wire = t.wire \ {m}
  BY DEF Carries
<1>3. Carries(u)
  BY <1>2 DEF Carries
<1>4. Subscriptions(u) = Subscriptions(t) \ {m}
  BY <1>2 DEF Subscriptions
<1>5. CASE m.body.method # "subscribe"
  <2>1. Subscriptions(u) = Subscriptions(t)
    BY <1>4, <1>5 DEF Subscriptions
  <2>. QED
    BY <1>2, <1>3, <1>5, <2>1 DEF Says
<1>6. CASE m.body.method = "subscribe"
  <2>1. m \in Subscriptions(t) /\ \A x \in LastAsked(Subscriptions(t)) : x.body.on = on
    BY <1>1, <1>6 DEF Subscriptions, Says
  <2>2. CASE Subscriptions(u) = {}
    <3>1. Subscriptions(t) = {m} /\ m.id \in Nat
      BY <1>1, <1>4, <2>1, <2>2 DEF Carries
    <3>2. m \in LastAsked(Subscriptions(t))
      BY <3>1 DEF LastAsked
    <3>. QED
      BY <1>2, <1>3, <1>6, <2>1, <2>2, <3>2 DEF Says
  <2>3. CASE Subscriptions(u) # {}
    <3>1. ASSUME NEW x \in LastAsked(Subscriptions(u))
          PROVE  x.body.on = on
      <4>1. x \in t.wire /\ x \in Subscriptions(t) /\ m.id <= x.id
        BY <1>1, <1>4, <3>1 DEF LastAsked, Subscriptions
      <4>2. \A other \in Subscriptions(t) : other.id <= x.id
        BY <1>4, <3>1, <4>1 DEF LastAsked
      <4>. QED
        BY <2>1, <4>1, <4>2 DEF LastAsked
    <3>. QED
      BY <1>2, <1>3, <2>3, <3>1 DEF Says
  <2>. QED
    BY <2>2, <2>3
<1>. QED
  BY <1>5, <1>6

\* A connection that opens sends what waited.
LEMMA OpenedCarries ==
    ASSUME NEW t, Carries(t)
    PROVE  Carries(Opened(t))
<1>. DEFINE v == [t EXCEPT !.socket = "open"]
            w == [v EXCEPT !.queue = {}]
            u == Put(w, Wanted(v))
<1>1. DOMAIN v = DOMAIN t /\ v.nextId = t.nextId /\ v.queue = t.queue /\ v.wire = t.wire
  BY DEF Carries
<1>2. u = Opened(t)
  BY DEF Opened, FlushOutboundQueue
<1>. HIDE DEF v
<1>3. DOMAIN w = DOMAIN t /\ w.nextId = t.nextId /\ w.queue = {} /\ w.wire = t.wire
  BY <1>1 DEF Carries
<1>4. Wanted(v) \subseteq t.queue
  BY <1>1 DEF Wanted
<1>. HIDE DEF w
<1>5. DOMAIN u = DOMAIN t /\ u.nextId = t.nextId /\ u.queue = {} /\ u.wire = t.wire \cup Wanted(v)
  BY <1>3 DEF Put, Carries
<1>. HIDE DEF u
<1>6. Carries(u)
  BY <1>4, <1>5 DEF Carries
<1>. QED
  BY <1>2, <1>6

-----------------------------------------------------------------------------
(* The client. *)

\* A sync from st keeps a server told, or going to be told, so.
Told(st, held, on) == IsSent(st.sent, on) => Says(st.transport, held, on)
Tells(st, u, held, on) ==
    st.transport.socket = "open" /\ Told(st, held, on) => Says(u.transport, held, on)
Mounted(v) == v # NoView
Stays(v, w) == IF v = NoView THEN w = NoView ELSE DOMAIN w = DOMAIN v
IsState(st) == DOMAIN st = {"transport", "sent", "syncs"} /\ Carries(st.transport)

\* After a sync the server was told, or will have been.
LEMMA SyncNowSays ==
    ASSUME NEW st, IsState(st), NEW on, NEW of, NEW attempts,
           NEW u, u = SyncNow(st, on, of, attempts)
    PROVE  /\ IsState(u) /\ u.transport.socket = st.transport.socket /\ u.sent = <<on>>
           /\ \A held : Tells(st, u, held, on)
<1>1. CASE IsSent(st.sent, on)
  <2>1. u = st /\ u.sent = <<on>>
    BY <1>1 DEF SyncNow, IsSent
  <2>. QED
    BY <1>1, <2>1 DEF Tells, Told
<1>2. CASE ~IsSent(st.sent, on)
  <2>1. /\ DOMAIN u = {"transport", "sent", "syncs"}
        /\ u.transport = Request(st.transport, Subscribe(on)) /\ u.sent = <<on>>
    BY <1>2 DEF SyncNow, State
  <2>2. Subscribe(on).method = "subscribe" /\ Subscribe(on).on = on
    BY DEF Subscribe
  <2>3. Carries(st.transport)
    BY DEF IsState
  <2>. HIDE DEF IsState
  <2>. DEFINE body == Subscribe(on)
              t == st.transport
  <2>4. ASSUME NEW held
        PROVE  /\ Carries(u.transport) /\ u.transport.socket = st.transport.socket
               /\ st.transport.socket = "open" => Says(u.transport, held, on)
    <3>. HIDE DEF body, t
    <3>1. Carries(t) /\ u.transport = Request(t, body) /\ body.method = "subscribe" /\ body.on = on
      BY <2>1, <2>2, <2>3 DEF body, t
    <3>2. LET w == Request(t, body) IN
          Carries(w) /\ w.socket = t.socket /\ (t.socket = "open" => Says(w, held, body.on))
      BY <3>1, RequestSays
    <3>. QED
      BY <3>1, <3>2 DEF t
  <2>. QED
    BY <2>1, <2>4 DEF IsState, Tells
<1>. QED
  BY <1>1, <1>2

\* A fetch says nothing of the subscription, and the view stays.
LEMMA FetchSays ==
    ASSUME NEW st, IsState(st), NEW v, IsView(v), NEW ready, NEW held, NEW on,
           NEW f, f = Fetch(st, v, ready)
    PROVE  /\ IsState(f[1]) /\ f[1].transport.socket = st.transport.socket
           /\ f[1].sent = st.sent
           /\ Says(f[1].transport, held, on) <=> Says(st.transport, held, on)
           /\ Stays(v, f[2])
<1>1. CASE ~(v # NoView /\ ready)
  BY <1>1 DEF Fetch, Stays
<1>2. CASE v # NoView /\ ready
  <2>. DEFINE u == [st EXCEPT !.transport = Request(@, GetScrollback(v.since))]
  <2>1. /\ f[1] = u /\ Stays(v, f[2])
    BY <1>2 DEF Fetch, Stays
  <2>2. /\ DOMAIN u = {"transport", "sent", "syncs"} /\ u.sent = st.sent
        /\ u.transport = Request(st.transport, GetScrollback(v.since))
    BY DEF IsState
  <2>. HIDE DEF u
  <2>3. GetScrollback(v.since).method # "subscribe"
    BY DEF GetScrollback
  <2>4. /\ Carries(u.transport) /\ u.transport.socket = st.transport.socket
        /\ Says(u.transport, held, on) <=> Says(st.transport, held, on)
    BY <2>2, <2>3, RequestSays DEF IsState
  <2>. QED
    BY <2>1, <2>2, <2>4 DEF IsState
<1>. QED
  BY <1>1, <1>2

LEMMA ViewStays ==
    ASSUME NEW v, IsView(v), NEW w, Stays(v, w)
    PROVE  IsView(w) /\ (w # NoView <=> v # NoView)
<1>1. DOMAIN NoView = {"id"} /\ "since" \in ViewFields
  BY DEF NoView, ViewFields, NewView
<1>2. CASE v # NoView
  BY <1>1, <1>2 DEF IsView, Stays
<1>3. CASE v = NoView
  BY <1>3 DEF IsView, Stays
<1>. QED
  BY <1>2, <1>3

\* What the terminal does with a view leaves it one.
LEMMA PumpStays ==
    ASSUME NEW e, NEW v
    PROVE  DOMAIN Pump(e, v)[2] = DOMAIN v
  BY DEF Pump

LEMMA EnqueueStays ==
    ASSUME NEW e, NEW v, NEW w
    PROVE  DOMAIN Enqueue(e, v, w)[2] = DOMAIN v
<1>. DEFINE x == [v EXCEPT !.queue = Append(@, w)]
<1>1. DOMAIN x = DOMAIN v /\ Enqueue(e, v, w) = Pump(e, x)
  BY DEF Enqueue
<1>. HIDE DEF x
<1>. QED
  BY <1>1, PumpStays

LEMMA WriteStays ==
    ASSUME NEW e, NEW v
    PROVE  /\ \A offset : DOMAIN Recorded(e, v, offset)[2] = DOMAIN v
           /\ \A text, offset : DOMAIN FilteredWrite(e, v, text, offset)[2] = DOMAIN v
<1>1. \A x, offset : DOMAIN Recorded(e, x, offset)[2] = DOMAIN x
  BY DEF Recorded
<1>2. ASSUME NEW text, NEW offset
      PROVE  DOMAIN FilteredWrite(e, v, text, offset)[2] = DOMAIN v
  <2>. DEFINE w == [v EXCEPT !.held = Holding(v, text)]
  <2>1. DOMAIN w = DOMAIN v
    OBVIOUS
  <2>. HIDE DEF w
  <2>2. \A x : DOMAIN Enqueue(e, w, x)[2] = DOMAIN w
    BY EnqueueStays
  <2>3. \/ FilteredWrite(e, v, text, offset) = Recorded(e, w, offset)
        \/ \E x : FilteredWrite(e, v, text, offset) = Enqueue(e, w, x)
    BY DEF FilteredWrite, w
  <2>. QED
    BY <1>1, <2>1, <2>2, <2>3
<1>. QED
  BY <1>1, <1>2

LEMMA OpenGateStays ==
    ASSUME NEW e, NEW v
    PROVE  DOMAIN OpenGate(e, v)[2] = DOMAIN v
<1>1. DOMAIN CaughtUp(e, v)[2] = DOMAIN v
  <2>. DEFINE r == Replay(v.catchUp.text, v.catchUp.offset, v.catchUp.reset, v.since,
                          IF v.catchUp.reset THEN 0 ELSE e.last)
              w == [v EXCEPT !.synced = r.next, !.catchUp = None, !.invalid = @ \/ v.catchUp.reset]
              cleared == IF v.catchUp.reset THEN Enqueue(e, w, Write("reset", <<>>, None)) ELSE <<e, w>>
  <2>1. DOMAIN w = DOMAIN v
    OBVIOUS
  <2>2. CaughtUp(e, v) = FilteredWrite(cleared[1], cleared[2], r.text, r.next)
    BY DEF CaughtUp
  <2>. HIDE DEF w, r
  <2>3. DOMAIN cleared[2] = DOMAIN w
    <3>1. \A x : DOMAIN Enqueue(e, w, x)[2] = DOMAIN w
      BY EnqueueStays
    <3>2. DOMAIN <<e, w>>[2] = DOMAIN w
      OBVIOUS
    <3>. QED
      BY <3>1, <3>2
  <2>. HIDE DEF cleared
  <2>. QED
    BY <2>1, <2>2, <2>3, WriteStays
<1>. DEFINE ev == IF v.catchUp = None THEN <<e, v>> ELSE CaughtUp(e, v)
            w == ev[2]
            opened == [w EXCEPT !.gate = "opened", !.invalid = TRUE,
                                !.synced = IF @ = None THEN e.last ELSE @]
            closed == [w EXCEPT !.away = @ - 1, !.retrying = v.retries < MaxRetries,
                                !.retries = IF @ < MaxRetries THEN @ + 1 ELSE @]
<1>2. DOMAIN w = DOMAIN v
  BY <1>1
<1>3. \/ OpenGate(e, v) = <<e, v>>
      \/ OpenGate(e, v) = <<ev[1], opened>>
      \/ OpenGate(e, v) = <<ev[1], closed>>
  BY DEF OpenGate
<1>. HIDE DEF ev, w
<1>4. DOMAIN opened = DOMAIN w /\ DOMAIN closed = DOMAIN w
  OBVIOUS
<1>. HIDE DEF opened, closed
<1>5. OpenGate(e, v)[2] \in {v, opened, closed}
  BY <1>3
<1>. QED
  BY <1>2, <1>4, <1>5

LEMMA OutputForStays ==
    ASSUME NEW e, NEW v, NEW m, NEW n
    PROVE  DOMAIN OutputFor(e, v, m, n)[2] = DOMAIN v
<1>. DEFINE w == [v EXCEPT !.held = Holding(v, <<m.char>>)]
<1>1. DOMAIN w = DOMAIN v
  OBVIOUS
<1>2. \/ DOMAIN OutputFor(e, v, m, n)[2] = DOMAIN v
      \/ OutputFor(e, v, m, n) = Recorded(e, w, m.offset)
      \/ DOMAIN OutputFor(e, v, m, n)[2] = DOMAIN w
  BY DEF OutputFor
<1>. HIDE DEF w
<1>. QED
  BY <1>1, <1>2, WriteStays

\* What the connection brings.
LEMMA OwnSequence ==
    ASSUME NEW S, NEW s \in Seq(S)
    PROVE  SequenceOfItsOwn(s)
<1>1. Len(s) \in Nat /\ s \in [1 .. Len(s) -> {s[i] : i \in DOMAIN s}]
  OBVIOUS
<1>. QED
  BY <1>1 DEF SequenceOfItsOwn

LEMMA BroughtInOrder ==
    ASSUME NEW s, SequenceOfItsOwn(s)
    PROVE  /\ \A x : /\ SequenceOfItsOwn(Append(s, x)) /\ SequenceOfItsOwn(<<x>>)
                     /\ \A t : x.type # "welcome" =>
                            (Welcomed(t, Append(s, x)) <=> Welcomed(t, s))
           /\ s # <<>> => /\ SequenceOfItsOwn(Tail(s))
                          /\ \A t : Head(s).type # "welcome" =>
                                (Welcomed(t, Tail(s)) <=> Welcomed(t, s))
<1>. DEFINE S == {s[i] : i \in DOMAIN s}
<1>0. s \in Seq(S)
  BY DEF SequenceOfItsOwn
<1>. HIDE DEF S
<1>1. ASSUME NEW x
      PROVE  /\ SequenceOfItsOwn(Append(s, x)) /\ SequenceOfItsOwn(<<x>>)
             /\ \A t : x.type # "welcome" => (Welcomed(t, Append(s, x)) <=> Welcomed(t, s))
  <2>. DEFINE a == Append(s, x)
  <2>1. /\ Len(s) \in Nat /\ DOMAIN s = 1 .. Len(s) /\ a \in Seq(S \cup {x})
        /\ DOMAIN a = 1 .. Len(s) + 1 /\ a[Len(s) + 1] = x
        /\ \A i \in 1 .. Len(s) : a[i] = s[i]
    BY <1>0
  <2>. HIDE DEF a
  <2>2. SequenceOfItsOwn(a)
    BY <2>1, OwnSequence
  <2>3. SequenceOfItsOwn(<<x>>)
    BY DEF SequenceOfItsOwn
  <2>4. ASSUME NEW t, x.type # "welcome"
        PROVE  Welcomed(t, a) <=> Welcomed(t, s)
    <3>1. (\E i \in DOMAIN a : a[i].type = "welcome") <=> (\E i \in DOMAIN s : s[i].type = "welcome")
      BY <2>1, <2>4
    <3>. QED
      BY <3>1 DEF Welcomed
  <2>. QED
    BY <2>2, <2>3, <2>4 DEF a
<1>2. ASSUME s # <<>>
      PROVE  /\ SequenceOfItsOwn(Tail(s))
             /\ \A t : Head(s).type # "welcome" => (Welcomed(t, Tail(s)) <=> Welcomed(t, s))
  <2>. DEFINE a == Tail(s)
  <2>1. /\ Len(s) \in Nat \ {0} /\ DOMAIN s = 1 .. Len(s) /\ a \in Seq(S)
        /\ DOMAIN a = 1 .. Len(s) - 1 /\ Head(s) = s[1]
        /\ \A i \in 1 .. Len(s) - 1 : a[i] = s[i + 1]
    BY <1>0, <1>2
  <2>. HIDE DEF a
  <2>2. SequenceOfItsOwn(a)
    BY <2>1, OwnSequence
  <2>3. ASSUME NEW t, Head(s).type # "welcome"
        PROVE  Welcomed(t, a) <=> Welcomed(t, s)
    <3>1. ASSUME NEW i \in DOMAIN s, s[i].type = "welcome"
          PROVE  \E j \in DOMAIN a : a[j].type = "welcome"
      <4>1. i \in 1 .. Len(s) /\ i # 1
        <5>1. i \in 1 .. Len(s)
          BY <2>1
        <5>2. s[1].type # "welcome"
          BY <2>1, <2>3
        <5>. QED
          BY <3>1, <5>1, <5>2
      <4>2. i - 1 \in 1 .. Len(s) - 1 /\ i - 1 + 1 = i
        BY <2>1, <4>1
      <4>3. i - 1 \in DOMAIN a /\ a[i - 1] = s[i]
        BY <2>1, <4>2
      <4>. QED
        BY <3>1, <4>3
    <3>2. ASSUME NEW i \in DOMAIN a, a[i].type = "welcome"
          PROVE  \E j \in DOMAIN s : s[j].type = "welcome"
      <4>1. i \in 1 .. Len(s) - 1
        BY <2>1
      <4>2. i + 1 \in 1 .. Len(s) /\ s[i + 1] = a[i]
        BY <2>1, <4>1
      <4>. QED
        BY <2>1, <3>2, <4>2
    <3>. QED
      BY <3>1, <3>2 DEF Welcomed
  <2>. QED
    BY <2>2, <2>3 DEF a
<1>. QED
  BY <1>1, <1>2

-----------------------------------------------------------------------------
(* The steps. *)

\* A step after which the server is still told, or will be.
LEMMA StepFollows ==
    ASSUME SubscriptionIInv, Carries(transport'), SequenceOfItsOwn(inbox'),
           Stays(view, view'), wanted' = wanted, sent' \in {sent, None},
           Welcomed(transport', inbox') => Says(transport', subscribed', wanted)
    PROVE  SubscriptionIInv'
<1>1. IsView(view') /\ (view' # NoView <=> view # NoView)
  BY ViewStays DEF SubscriptionIInv
<1>. QED
  BY <1>1 DEF SubscriptionIInv

\* A step that leaves connection and subscription alone.
LEMMA Elsewhere ==
    ASSUME SubscriptionIInv, UNCHANGED <<subscribed, transport, inbox, wanted, sent>>,
           Stays(view, view')
    PROVE  SubscriptionIInv'
  BY StepFollows DEF SubscriptionIInv

LEMMA InitFollows == Init => SubscriptionIInv
<1>. SUFFICES ASSUME Init PROVE SubscriptionIInv
  OBVIOUS
<1>1. Carries(NewTransport) /\ NewTransport.socket = "connecting"
  BY DEF NewTransport, Carries
<1>2. SequenceOfItsOwn(<<>>)
  BY DEF SequenceOfItsOwn
<1>. QED
  BY <1>1, <1>2 DEF Init, SubscriptionIInv, IsView, Welcomed

LEMMA ServerFollows ==
    ASSUME SubscriptionIInv, ProcessData \/ RestartSession \/ RouteRequest
    PROVE  SubscriptionIInv'
<1>. USE DEF subscription, terminal
<1>1. CASE ProcessData
  <2>1. PICK char, offset : inbox' \in {inbox, Append(inbox, Output(char, offset))}
    BY <1>1 DEF ProcessData
  <2>2. Output(char, offset).type # "welcome"
    BY DEF Output
  <2>3. SequenceOfItsOwn(inbox') /\ (Welcomed(transport, inbox') <=> Welcomed(transport, inbox))
    BY <2>1, <2>2, BroughtInOrder DEF SubscriptionIInv
  <2>. QED
    BY <1>1, <2>3 DEF ProcessData, SubscriptionIInv
<1>2. CASE RestartSession
  BY <1>2, Elsewhere DEF RestartSession, Stays
<1>3. CASE RouteRequest
  <2>. DEFINE m == Oldest(transport.wire)
  <2>1. PICK body : inbox' = Append(inbox, Answer(m.id, body))
    BY <1>3 DEF RouteRequest
  <2>2. Answer(m.id, body).type # "welcome"
    BY DEF Answer
  <2>3. /\ transport.wire # {} /\ transport' = [transport EXCEPT !.wire = @ \ {m}]
        /\ subscribed' = (IF m.body.method = "subscribe" THEN m.body.on ELSE subscribed)
        /\ transport.socket = "open" /\ UNCHANGED <<wanted, sent, view>>
    BY <1>3 DEF RouteRequest
  <2>. HIDE DEF m
  <2>4. SequenceOfItsOwn(inbox') /\ \A t : Welcomed(t, inbox') <=> Welcomed(t, inbox)
    BY <2>1, <2>2, BroughtInOrder DEF SubscriptionIInv
  <2>5. Carries(transport)
    BY DEF SubscriptionIInv
  <2>6. DOMAIN transport' = DOMAIN transport /\ transport'.socket = transport.socket
        /\ transport'.nextId = transport.nextId /\ transport'.queue = transport.queue
        /\ transport'.wire = transport.wire \ {m}
    BY <2>3, <2>5 DEF Carries
  <2>7. Carries(transport')
    BY <2>5, <2>6 DEF Carries
  <2>8. ASSUME Welcomed(transport', inbox')
        PROVE  Says(transport', subscribed', wanted)
    <3>1. Says(transport, subscribed, wanted)
      BY <2>3, <2>4, <2>6, <2>8 DEF SubscriptionIInv, Welcomed
    <3>. QED
      BY <2>3, <2>5, <3>1, ReadSays DEF m
  <2>. QED
    BY <2>3, <2>4, <2>7, <2>8, StepFollows DEF Stays
<1>. QED
  BY <1>1, <1>2, <1>3

\* A sync, and then a fetch if the server was already told.
LEMMA SyncThenFetch ==
    ASSUME NEW st, IsState(st), NEW on, NEW of, NEW attempts, NEW v, IsView(v), NEW ready,
           NEW f, f = Fetch(SyncNow(st, on, of, attempts), v, ready)
    PROVE  /\ IsState(f[1]) /\ f[1].transport.socket = st.transport.socket /\ f[1].sent = <<on>>
           /\ \A held : Tells(st, f[1], held, on)
           /\ Stays(v, f[2])
<1>. DEFINE u == SyncNow(st, on, of, attempts)
<1>1. /\ IsState(u) /\ u.transport.socket = st.transport.socket /\ u.sent = <<on>>
      /\ \A held : Tells(st, u, held, on)
  BY SyncNowSays
<1>. HIDE DEF u
<1>2. ASSUME NEW held
      PROVE  /\ IsState(f[1]) /\ f[1].transport.socket = u.transport.socket /\ f[1].sent = u.sent
             /\ Says(f[1].transport, held, on) <=> Says(u.transport, held, on)
             /\ Stays(v, f[2])
  BY <1>1, FetchSays DEF u
<1>. QED
  BY <1>1, <1>2 DEF Tells

LEMMA SyncFollows ==
    ASSUME NEW st, IsState(st), NEW on, NEW of, NEW attempts, NEW v, IsView(v), NEW ready,
           NEW f, f = Fetch(SyncNow(st, on, of, attempts), v, ready),
           Becomes(f[1]), view' = f[2], SequenceOfItsOwn(inbox'), wanted' = on,
           wanted' = Mounted(v),
           Welcomed(st.transport, inbox') => Told(st, subscribed', on)
    PROVE  SubscriptionIInv'
<1>1. /\ IsState(f[1]) /\ f[1].transport.socket = st.transport.socket /\ f[1].sent = <<on>>
      /\ Tells(st, f[1], subscribed', on)
      /\ Stays(v, f[2])
  BY SyncThenFetch
<1>2. IsView(view') /\ (view' # NoView <=> v # NoView)
  BY <1>1, ViewStays
<1>3. transport' = f[1].transport /\ sent' = f[1].sent
  BY DEF Becomes
<1>4. Welcomed(transport', inbox') => Says(transport', subscribed', wanted')
  BY <1>1, <1>3 DEF Welcomed, Tells
<1>5. wanted' = (view' # NoView)
  BY <1>2 DEF Mounted
<1>6. Carries(transport')
  BY <1>1, <1>3 DEF IsState
<1>. QED
  BY <1>1, <1>2, <1>3, <1>4, <1>5, <1>6 DEF SubscriptionIInv

LEMMA NowIsState == SubscriptionIInv => IsState(Now)
  BY DEF SubscriptionIInv, IsState, Now, State

LEMMA NewViewIsOne == \A id, since, request : IsView(NewView(id, since, request))
                                              /\ NewView(id, since, request) # NoView
<1>. SUFFICES ASSUME NEW id, NEW since, NEW request
              PROVE  /\ IsView(NewView(id, since, request))
                     /\ NewView(id, since, request) # NoView
  OBVIOUS
<1>1. DOMAIN NewView(id, since, request) = ViewFields /\ "since" \in ViewFields
  BY DEF NewView, ViewFields
<1>2. DOMAIN NoView = {"id"}
  BY DEF NoView
<1>. QED
  BY <1>1, <1>2 DEF IsView

LEMMA RegisterFollows ==
    ASSUME SubscriptionIInv, NEW e, NEW id, NEW since, Register(e, NewView(id, since, None)),
           wanted' = TRUE, UNCHANGED <<subscribed, inbox>>
    PROVE  SubscriptionIInv'
<1>. DEFINE v == NewView(id, since, None)
            st == SyncNow(Now, TRUE, v.id, Attempts)
            f == Fetch(st, v, st = Now)
<1>1. Becomes(f[1]) /\ view' = f[2]
  BY DEF Register
<1>2. IsView(v) /\ v # NoView
  BY NewViewIsOne
<1>. DEFINE ready == st = Now
            on == TRUE
<1>3. f = Fetch(SyncNow(Now, on, v.id, Attempts), v, ready)
  OBVIOUS
<1>. HIDE DEF v, ready, f
<1>4. IsState(Now) /\ SequenceOfItsOwn(inbox') /\ subscribed' = subscribed
  BY NowIsState DEF SubscriptionIInv
<1>5. ASSUME Welcomed(transport, inbox'), IsSent(sent, TRUE)
      PROVE  Says(transport, subscribed, TRUE)
  <2>1. wanted = TRUE
    BY <1>5 DEF IsSent, SubscriptionIInv
  <2>. QED
    BY <1>5, <2>1 DEF SubscriptionIInv
<1>6. Now.transport = transport /\ Now.sent = sent
  BY DEF Now, State
<1>. HIDE DEF st
<1>7. Welcomed(Now.transport, inbox') => Told(Now, subscribed', on)
  BY <1>4, <1>5, <1>6 DEF Told
<1>8. wanted' = on /\ wanted' = Mounted(v)
  BY <1>2 DEF Mounted
<1>. HIDE DEF on
<1>. QED
  BY <1>1, <1>2, <1>3, <1>4, <1>7, <1>8, SyncFollows

LEMMA ViewsFollow ==
    ASSUME SubscriptionIInv, Mount \/ Unmount \/ Remount \/ Evict
    PROVE  SubscriptionIInv'
<1>. USE DEF server, subscription
<1>1. CASE Mount
  BY <1>1, RegisterFollows DEF Mount
<1>2. CASE Remount
  <2>1. wanted' = TRUE
    BY <1>2 DEF Remount, SubscriptionIInv
  <2>. QED
    BY <1>2, <2>1, RegisterFollows DEF Remount
<1>3. CASE Unmount
  <2>. DEFINE f == Fetch(SyncNow(Now, FALSE, None, 0), NoView, FALSE)
  <2>1. f = <<SyncNow(Now, FALSE, None, 0), NoView>>
    BY DEF Fetch
  <2>. HIDE DEF f
  <2>2. Becomes(f[1]) /\ view' = f[2] /\ wanted' = FALSE /\ UNCHANGED <<subscribed, inbox>>
    BY <1>3, <2>1 DEF Unmount
  <2>3. IsState(Now) /\ SequenceOfItsOwn(inbox') /\ subscribed' = subscribed /\ IsView(NoView)
    BY <2>2, NowIsState DEF SubscriptionIInv, IsView
  <2>4. ~IsSent(sent, FALSE)
    <3>1. wanted = TRUE
      BY <1>3 DEF Unmount, SubscriptionIInv
    <3>2. \A a, b : <<a>> = <<b>> => a = b
      OBVIOUS
    <3>3. IsSent(sent, FALSE) => <<wanted>> = <<FALSE>>
      BY DEF IsSent, SubscriptionIInv
    <3>4. <<wanted>> = <<FALSE>> => wanted = FALSE
      BY <3>2
    <3>. QED
      BY <3>1, <3>3, <3>4
  <2>5. Now.sent = sent
    BY DEF Now, State
  <2>6. Told(Now, subscribed', FALSE)
    BY <2>4, <2>5 DEF Told
  <2>7. wanted' = Mounted(NoView)
    BY <2>2 DEF Mounted
  <2>. QED
    BY <2>2, <2>3, <2>6, <2>7, SyncFollows DEF f
<1>4. CASE Evict
  BY <1>4, Elsewhere DEF Evict, Stays
<1>. QED
  BY <1>1, <1>2, <1>3, <1>4

\* A terminal's own steps.
LEMMA TerminalFollows ==
    ASSUME SubscriptionIInv,
           Fit \/ RetryGate \/ Refit \/ SettleGate \/ FlushQueued \/ XtermWrites
    PROVE  SubscriptionIInv'
<1>. USE DEF server, subscription
<1>. SUFFICES ASSUME UNCHANGED <<subscribed, transport, inbox, wanted, sent>>
              PROVE  Stays(view, view')
  <2>1. UNCHANGED <<subscribed, transport, inbox, wanted, sent>>
    BY DEF Fit, RetryGate, Refit, SettleGate, FlushQueued, XtermWrites
  <2>. QED
    BY <2>1, Elsewhere
<1>1. CASE Fit
  <2>. DEFINE v == [view EXCEPT !.fit = TRUE]
  <2>1. view # NoView /\ view' = OpenGate(entry, v)[2] /\ DOMAIN v = DOMAIN view
    BY <1>1 DEF Fit, Shows
  <2>. HIDE DEF v
  <2>. QED
    BY <2>1, OpenGateStays DEF Stays
<1>2. CASE SettleGate
  <2>. DEFINE v == [view EXCEPT !.gate = "live", !.pre = <<>>, !.preMax = 0]
  <2>1. DOMAIN v = DOMAIN view /\ view # NoView
    BY <1>2 DEF SettleGate
  <2>2. \/ view' = v
        \/ \E text, offset : view' = FilteredWrite(entry, v, text, offset)[2]
    BY <1>2 DEF SettleGate, Shows
  <2>. HIDE DEF v
  <2>. QED
    BY <2>1, <2>2, WriteStays DEF Stays
<1>3. CASE FlushQueued
  <2>. DEFINE v == [view EXCEPT !.data = <<>>, !.max = 0]
  <2>1. DOMAIN v = DOMAIN view /\ view # NoView
    BY <1>3 DEF FlushQueued
  <2>2. PICK w : view' = Enqueue(entry, v, w)[2]
    BY <1>3 DEF FlushQueued, Shows
  <2>. HIDE DEF v
  <2>3. DOMAIN Enqueue(entry, v, w)[2] = DOMAIN v
    BY EnqueueStays
  <2>. QED
    BY <2>1, <2>2, <2>3 DEF Stays
<1>4. CASE XtermWrites
  <2>. DEFINE item == Head(entry.xterm)
              e0 == [entry EXCEPT !.xterm = Tail(@), !.shown = Parsed(@, item)]
              ev == Recorded(e0, view, item.write.offset)
  <2>1. \/ view' = view
        \/ view # NoView /\ \E e, x, offset : view' = Pump(x, Recorded(e, view, offset)[2])[2]
    <3>1. \/ view' = view
          \/ view # NoView /\ view' = Pump(ev[1], ev[2])[2]
      BY <1>4 DEF XtermWrites, Shows
    <3>. HIDE DEF e0, item
    <3>. QED
      BY <3>1
  <2>2. CASE view' = view
    BY <2>2 DEF Stays
  <2>. HIDE DEF item, e0, ev
  <2>3. CASE view # NoView /\ \E e, x, offset : view' = Pump(x, Recorded(e, view, offset)[2])[2]
    <3>1. PICK e, x, offset : view' = Pump(x, Recorded(e, view, offset)[2])[2]
      BY <2>3
    <3>. DEFINE w == Recorded(e, view, offset)[2]
    <3>2. DOMAIN w = DOMAIN view
      <4>1. \A x2, y, o : DOMAIN Recorded(x2, y, o)[2] = DOMAIN y
        BY WriteStays
      <4>. QED
        BY <4>1
    <3>. HIDE DEF w
    <3>3. DOMAIN Pump(x, w)[2] = DOMAIN w
      BY PumpStays
    <3>. QED
      BY <2>3, <3>1, <3>2, <3>3 DEF Stays, w
  <2>. QED
    BY <2>1, <2>2, <2>3
<1>5. CASE RetryGate
  <2>. DEFINE v == [view EXCEPT !.retrying = FALSE]
  <2>1. view # NoView /\ view' = OpenGate(entry, v)[2] /\ DOMAIN v = DOMAIN view
    BY <1>5 DEF RetryGate, Shows
  <2>. HIDE DEF v
  <2>. QED
    BY <2>1, OpenGateStays DEF Stays
<1>6. CASE Refit
  BY <1>6, OpenGateStays DEF Refit, Shows, Stays
<1>. QED
  BY <1>1, <1>2, <1>3, <1>4, <1>5, <1>6

\* Requests that fail make the client forget what it said, at most.
LEMMA RequestsFailStays ==
    ASSUME NEW ids, RequestsFail(ids)
    PROVE  sent' \in {sent, None} /\ Stays(view, view')
<1>1. sent' \in {sent, None}
  BY DEF RequestsFail, SyncsFailed
<1>2. \/ view' = view
      \/ view # NoView /\ view' = OpenGate(entry, [view EXCEPT !.phase = "caughtUp"])[2]
      \/ view # NoView /\ view' = [view EXCEPT !.phase = "failed"]
  BY DEF RequestsFail, Shows, Fetching
<1>3. CASE view # NoView /\ view' = OpenGate(entry, [view EXCEPT !.phase = "caughtUp"])[2]
  <2>. DEFINE v == [view EXCEPT !.phase = "caughtUp"]
  <2>1. DOMAIN v = DOMAIN view
    OBVIOUS
  <2>. HIDE DEF v
  <2>2. DOMAIN OpenGate(entry, v)[2] = DOMAIN v
    BY OpenGateStays
  <2>. QED
    BY <1>1, <1>3, <2>1, <2>2 DEF Stays, v
<1>. QED
  BY <1>1, <1>2, <1>3 DEF Stays

\* Losing the connection, and what comes of it.
LEMMA ConnectionFollows ==
    ASSUME SubscriptionIInv, Open \/ Drop \/ Close \/ ConnectFails \/ Reconnect \/ RequestTimesOut
    PROVE  SubscriptionIInv'
<1>. USE DEF server, subscription, terminal
<1>0. Carries(transport) /\ SequenceOfItsOwn(inbox)
  BY DEF SubscriptionIInv
<1>1. CASE Open
  <2>1. Carries(Opened(transport))
    BY <1>0, OpenedCarries
  <2>2. inbox' = <<Welcome>> /\ <<Welcome>>[1].type = "welcome" /\ 1 \in DOMAIN <<Welcome>>
    BY <1>1 DEF Open, Welcome
  <2>3. ~Welcomed(transport', inbox')
    BY <2>2 DEF Welcomed
  <2>4. SequenceOfItsOwn(inbox')
    BY <1>0, <2>2, BroughtInOrder
  <2>5. transport' = Opened(transport) /\ UNCHANGED <<view, wanted, sent>>
    BY <1>1 DEF Open
  <2>. QED
    BY <2>1, <2>3, <2>4, <2>5, StepFollows DEF Stays
<1>2. CASE Drop
  <2>1. Carries(Dropped(transport)) /\ Dropped(transport).socket # "open"
    BY <1>0 DEF Carries, Dropped
  <2>2. transport' = Dropped(transport) /\ inbox' = <<>> /\ UNCHANGED <<view, wanted, sent>>
    BY <1>2 DEF Drop
  <2>3. SequenceOfItsOwn(inbox') /\ ~Welcomed(transport', inbox')
    BY <2>1, <2>2 DEF SequenceOfItsOwn, Welcomed
  <2>. QED
    BY <2>1, <2>2, <2>3, StepFollows DEF Stays
<1>3. CASE Close \/ ConnectFails
  <2>1. Carries(Closed(transport)) /\ Closed(transport).socket # "open"
    BY <1>0 DEF Carries, Closed
  <2>2. transport' = Closed(transport) /\ RequestsFail(transport.pending) /\ UNCHANGED <<inbox, wanted>>
    BY <1>3 DEF Close, ConnectFails
  <2>3. ~Welcomed(transport', inbox')
    BY <2>1, <2>2 DEF Welcomed
  <2>. QED
    BY <1>0, <2>1, <2>2, <2>3, RequestsFailStays, StepFollows
<1>4. CASE Reconnect
  <2>1. Carries(Reconnected(transport)) /\ Reconnected(transport).socket # "open"
    BY <1>0 DEF Carries, Reconnected
  <2>2. transport' = Reconnected(transport) /\ UNCHANGED <<inbox, view, wanted, sent>>
    BY <1>4 DEF Reconnect
  <2>3. ~Welcomed(transport', inbox')
    BY <2>1, <2>2 DEF Welcomed
  <2>. QED
    BY <1>0, <2>1, <2>2, <2>3, StepFollows DEF Stays
<1>5. CASE RequestTimesOut
  <2>1. PICK id : transport' = TimeOut(transport, id) /\ RequestsFail({id})
    BY <1>5 DEF RequestTimesOut
  <2>2. /\ DOMAIN TimeOut(transport, id) = DOMAIN transport
        /\ TimeOut(transport, id).socket = transport.socket
        /\ TimeOut(transport, id).nextId = transport.nextId
        /\ TimeOut(transport, id).wire = transport.wire
        /\ TimeOut(transport, id).queue \subseteq transport.queue
    BY <1>0 DEF Carries, TimeOut, RemoveQueuedMessage
  <2>3. Carries(transport')
    BY <1>0, <2>1, <2>2 DEF Carries
  <2>4. Welcomed(transport', inbox) <=> Welcomed(transport, inbox)
    BY <2>1, <2>2 DEF Welcomed
  <2>5. Says(transport', subscribed, wanted) <=> Says(transport, subscribed, wanted)
    BY <2>1, <2>2 DEF Says, Subscriptions
  <2>6. UNCHANGED <<subscribed, inbox, wanted>>
    BY <1>5 DEF RequestTimesOut
  <2>7. Welcomed(transport', inbox') => Says(transport', subscribed', wanted)
    BY <2>4, <2>5, <2>6 DEF SubscriptionIInv
  <2>. QED
    BY <1>0, <2>1, <2>3, <2>6, <2>7, RequestsFailStays, StepFollows
<1>. QED
  BY <1>1, <1>2, <1>3, <1>4, <1>5

\* A sync that waited for its timer.
LEMMA RetryFollows ==
    ASSUME SubscriptionIInv, RetrySync
    PROVE  SubscriptionIInv'
<1>. USE DEF server
<1>1. PICK s \in syncs :
          LET st == [Now EXCEPT !.syncs = @ \ {s}]
              next == SyncNow(st, wanted, s.of, s.left)
              fetched == Fetch(next, view, Of(view, s) /\ next = st)
          IN  Becomes(fetched[1]) /\ view' = fetched[2]
  BY DEF RetrySync
<1>. DEFINE st == [Now EXCEPT !.syncs = @ \ {s}]
            next == SyncNow(st, wanted, s.of, s.left)
            ready == Of(view, s) /\ next = st
            f == Fetch(SyncNow(st, wanted, s.of, s.left), view, ready)
<1>2. Becomes(f[1]) /\ view' = f[2]
  BY <1>1
<1>3. IsState(st) /\ st.transport = transport /\ st.sent = sent
  BY NowIsState DEF IsState, Now, State
<1>4. UNCHANGED <<subscribed, inbox, wanted>>
  BY DEF RetrySync
<1>5. Welcomed(st.transport, inbox') => Told(st, subscribed', wanted)
  BY <1>3, <1>4 DEF SubscriptionIInv, Told
<1>6. IsView(view) /\ SequenceOfItsOwn(inbox') /\ wanted' = wanted /\ wanted' = Mounted(view)
  BY <1>4 DEF SubscriptionIInv, Mounted
<1>7. f = Fetch(SyncNow(st, wanted, s.of, s.left), view, ready)
  OBVIOUS
<1>. HIDE DEF st, next, ready, f
<1>. QED
  BY <1>2, <1>3, <1>5, <1>6, <1>7, SyncFollows

\* What the connection brings the client.
LEMMA ClientFollows ==
    ASSUME SubscriptionIInv, HandleWelcome \/ HandleAnswer \/ HandleOutput
    PROVE  SubscriptionIInv'
<1>. USE DEF server
<1>0. /\ inbox # <<>> /\ inbox' = Tail(inbox) /\ UNCHANGED <<subscribed, wanted>>
      /\ SequenceOfItsOwn(inbox') /\ Carries(transport)
      /\ Head(inbox).type # "welcome" => \A t : Welcomed(t, inbox') <=> Welcomed(t, inbox)
  <2>1. inbox # <<>> /\ inbox' = Tail(inbox) /\ UNCHANGED <<subscribed, wanted>>
    BY DEF HandleWelcome, HandleAnswer, HandleOutput, subscription, terminal
  <2>. QED
    BY <2>1, BroughtInOrder DEF SubscriptionIInv
<1>1. CASE HandleWelcome
  <2>. DEFINE st == [Now EXCEPT !.sent = None]
              ready == FALSE
              f == Fetch(SyncNow(st, wanted, None, 0), view, ready)
  <2>1. f = <<SyncNow(st, wanted, None, 0), view>>
    BY DEF Fetch
  <2>2. Becomes(SyncNow(st, wanted, None, 0)) /\ view' = view
    BY <1>1 DEF HandleWelcome, terminal
  <2>3. IsState(st) /\ st.sent = None
    BY NowIsState DEF IsState
  <2>4. f = Fetch(SyncNow(st, wanted, None, 0), view, ready)
    OBVIOUS
  <2>. HIDE DEF st, ready, f
  <2>5. Becomes(f[1]) /\ view' = f[2]
    BY <2>1, <2>2
  <2>6. Told(st, subscribed', wanted)
    BY <2>3 DEF Told, IsSent
  <2>7. wanted' = wanted /\ wanted' = Mounted(view) /\ IsView(view)
    BY <1>0 DEF SubscriptionIInv, Mounted
  <2>. QED
    BY <1>0, <2>3, <2>4, <2>5, <2>6, <2>7, SyncFollows
<1>2. CASE HandleOutput
  <2>1. Head(inbox).type # "welcome" /\ UNCHANGED <<transport, sent>>
    BY <1>2 DEF HandleOutput, subscription
  <2>2. Stays(view, view')
    <3>1. \/ view = NoView /\ view' = view
          \/ view # NoView /\ \E n \in 1..CompactAt : view' = OutputFor(entry, view, Head(inbox), n)[2]
      BY <1>2 DEF HandleOutput, Shows
    <3>. QED
      BY <3>1, OutputForStays DEF Stays
  <2>. QED
    BY <1>0, <2>1, <2>2, StepFollows DEF SubscriptionIInv
<1>3. CASE HandleAnswer
  <2>. DEFINE id == Head(inbox).id
              answered == {s \in syncs : id \in transport.pending /\ s.request = id}
              st == [Now EXCEPT !.transport = Answered(@, id), !.syncs = @ \ answered]
              ready == \E s \in answered : Of(view, s)
              f == Fetch(st, view, ready)
              v == [view EXCEPT !.phase = "caughtUp", !.catchUp = Head(inbox).body]
  <2>1. /\ Head(inbox).type # "welcome" /\ Becomes(f[1])
        /\ \/ view # NoView /\ view' = OpenGate(entry, v)[2]
           \/ view' = f[2]
    BY <1>3 DEF HandleAnswer, Shows, Fetching
  <2>2. DOMAIN v = DOMAIN view
    OBVIOUS
  <2>3. /\ DOMAIN st = {"transport", "sent", "syncs"} /\ st.sent = sent
        /\ st.transport = Answered(transport, id)
    BY DEF Now, State
  <2>4. f = Fetch(st, view, ready)
    OBVIOUS
  <2>. HIDE DEF st, ready, f, v, answered, id
  <2>5. /\ Carries(st.transport) /\ st.transport.socket = transport.socket
        /\ st.transport.wire = transport.wire
    BY <1>0, <2>3 DEF Carries, Answered
  <2>6. IsState(st) /\ IsView(view)
    BY <2>3, <2>5 DEF IsState, SubscriptionIInv
  <2>7. /\ IsState(f[1]) /\ f[1].transport.socket = st.transport.socket /\ f[1].sent = st.sent
        /\ Says(f[1].transport, subscribed, wanted) <=> Says(st.transport, subscribed, wanted)
        /\ Stays(view, f[2])
    BY <2>4, <2>6, FetchSays
  <2>8. transport' = f[1].transport /\ sent' = f[1].sent
    BY <2>1 DEF Becomes
  <2>9. Says(st.transport, subscribed, wanted) <=> Says(transport, subscribed, wanted)
    BY <2>5 DEF Says, Subscriptions
  <2>10. Welcomed(transport', inbox') => Welcomed(transport, inbox)
    BY <1>0, <2>1, <2>5, <2>7, <2>8 DEF Welcomed
  <2>11. Welcomed(transport', inbox') => Says(transport', subscribed', wanted)
    BY <1>0, <2>7, <2>8, <2>9, <2>10 DEF SubscriptionIInv
  <2>12. Stays(view, view')
    BY <2>1, <2>2, <2>7, OpenGateStays DEF Stays
  <2>13. Carries(transport') /\ sent' = sent
    BY <2>3, <2>7, <2>8 DEF IsState
  <2>. QED
    BY <1>0, <2>11, <2>12, <2>13, StepFollows
<1>. QED
  BY <1>1, <1>2, <1>3

\* The inductive invariant of the subscription.
THEOREM SpecSubscriptionIInv == Spec => []SubscriptionIInv
<1>1. ASSUME SubscriptionIInv, [Next]_vars
      PROVE  SubscriptionIInv'
  <2>1. CASE UNCHANGED vars
    <3>1. UNCHANGED <<subscribed, transport, inbox, wanted, sent>> /\ view' = view
      BY <2>1 DEF vars, server, subscription, terminal
    <3>. QED
      BY <1>1, <3>1, Elsewhere DEF Stays
  <2>. QED
    BY <1>1, <2>1, ServerFollows, ViewsFollow, TerminalFollows, ConnectionFollows, RetryFollows,
       ClientFollows DEF Next, System
<1>. QED
  BY <1>1, InitFollows, PTL DEF Spec

\* Once everything sent is answered, the server's subscription is what the client
\* wants, however mounts, answers, losses, timeouts and retries interleaved.
THEOREM SpecSubscriptionFollows == Spec => []SubscriptionFollows
<1>1. SubscriptionIInv => SubscriptionFollows
  <2>. SUFFICES ASSUME SubscriptionIInv, Quiet
                PROVE  subscribed = wanted /\ wanted = (view # NoView)
    BY DEF SubscriptionFollows
  <2>1. Welcomed(transport, inbox) /\ Subscriptions(transport) = {}
    BY DEF Quiet, Welcomed, Subscriptions
  <2>2. Says(transport, subscribed, wanted)
    BY <2>1 DEF SubscriptionIInv
  <2>3. subscribed = wanted
    BY <2>1, <2>2 DEF Says
  <2>4. wanted = (view # NoView)
    BY DEF SubscriptionIInv
  <2>. QED
    BY <2>3, <2>4
<1>. QED
  BY <1>1, SpecSubscriptionIInv, PTL

-----------------------------------------------------------------------------
(* The folds of events.                                                        *)

\* A fold is the last of its intermediate values, which follow one another.
LEMMA EventsFolded ==
    ASSUME NEW t, NEW events, Len(events) \in Nat
    PROVE  \E after : /\ after[0] = t
                      /\ \A i \in 1..Len(events) :
                            after[i] = ProjectEvent(after[i - 1], events[i])
                      /\ ProjectEvents(t, events) = after[Len(events)]
<1>. DEFINE N == Len(events)
            Run(f, n) == f = [i \in 0..n |-> IF i = 0 THEN t
                                             ELSE ProjectEvent(f[i - 1], events[i])]
            Missing == {n \in 0..N : ~\E f : Run(f, n)}
<1>1. N \in Nat
  OBVIOUS
<1>. HIDE DEF N
<1>2. \E f : Run(f, 0)
  <2>. DEFINE f == [i \in 0..0 |-> t]
  <2>1. \A i \in 0..0 : i = 0
    OBVIOUS
  <2>2. f = [i \in 0..0 |-> IF i = 0 THEN t ELSE ProjectEvent(f[i - 1], events[i])]
    BY <2>1
  <2>. QED
    BY <2>2
<1>3. ASSUME NEW n \in Nat, \E f : Run(f, n)
      PROVE  \E f : Run(f, n + 1)
  <2>1. PICK g : Run(g, n)
    BY <1>3
  <2>. DEFINE f == [i \in 0..(n + 1) |-> IF i = n + 1 THEN ProjectEvent(g[n], events[n + 1])
                                         ELSE g[i]]
              h == [i \in 0..(n + 1) |-> IF i = 0 THEN t
                                         ELSE ProjectEvent(f[i - 1], events[i])]
  <2>2. ASSUME NEW i \in 0..(n + 1)
        PROVE  f[i] = h[i]
    <3>1. CASE i = n + 1
      <4>1. f[i - 1] = g[n] /\ i # 0
        BY <3>1
      <4>. QED
        BY <3>1, <4>1
    <3>2. CASE i # n + 1 /\ i # 0
      <4>1. i \in 0..n /\ i - 1 \in 0..(n + 1) /\ i - 1 # n + 1
        BY <3>2
      <4>2. f[i - 1] = g[i - 1] /\ f[i] = g[i]
        BY <4>1, <3>2
      <4>3. g[i] = ProjectEvent(g[i - 1], events[i])
        BY <2>1, <4>1, <3>2
      <4>. QED
        BY <4>2, <4>3, <3>2
    <3>3. CASE i = 0
      <4>1. 0 \in 0..n /\ 0 # n + 1
        OBVIOUS
      <4>. QED
        BY <3>3, <4>1, <2>1
    <3>. QED
      BY <3>1, <3>2, <3>3
  <2>3. f = h
    BY <2>2
  <2>. QED
    BY <2>3
<1>4. Missing = {}
  <2>. SUFFICES ASSUME Missing # {} PROVE FALSE
    OBVIOUS
  <2>1. Missing \in SUBSET Nat
    BY <1>1
  <2>2. PICK m \in Missing : \A k \in Missing : m <= k
    <3>. HIDE DEF Missing
    <3>. QED
      BY <2>1, LeastNumber
  <2>3. m \in 0..N /\ ~\E f : Run(f, m)
    BY <2>2
  <2>4. m # 0
    BY <2>3, <1>2
  <2>5. m - 1 \in 0..N /\ m - 1 \in Nat /\ (m - 1) + 1 = m
    BY <2>3, <2>4, <1>1
  <2>6. m - 1 \notin Missing
    BY <2>2, <2>5
  <2>7. \E f : Run(f, m - 1)
    BY <2>6, <2>5
  <2>8. \E f : Run(f, (m - 1) + 1)
    <3>. HIDE DEF Run
    <3>. QED
      BY <2>5, <2>7, <1>3
  <2>. QED
    BY <2>8, <2>5, <2>3
<1>5. \E f : Run(f, N)
  BY <1>4, <1>1
<1>. DEFINE after == CHOOSE f : Run(f, N)
<1>6. Run(after, N)
  <2>. HIDE DEF Run
  <2>. QED
    BY <1>5
<1>7. ProjectEvents(t, events) = after[N]
  BY DEF ProjectEvents, N
<1>. HIDE DEF after
<1>8. after[0] = t
  <2>1. 0 \in 0..N
    BY <1>1
  <2>. QED
    BY <1>6, <2>1
<1>9. ASSUME NEW i \in 1..N
      PROVE  after[i] = ProjectEvent(after[i - 1], events[i])
  <2>1. i \in 0..N /\ i # 0
    BY <1>1
  <2>. QED
    BY <1>6, <2>1
<1>. QED
  BY <1>7, <1>8, <1>9 DEF N

LEMMA RowsFolded ==
    ASSUME NEW r, NEW events, Len(events) \in Nat
    PROVE  \E after : /\ after[0] = r
                      /\ \A i \in 1..Len(events) :
                            after[i] = ProjectRows(after[i - 1], events[i])
                      /\ ProjectAll(r, events) = after[Len(events)]
<1>. DEFINE N == Len(events)
            Run(f, n) == f = [i \in 0..n |-> IF i = 0 THEN r
                                             ELSE ProjectRows(f[i - 1], events[i])]
            Missing == {n \in 0..N : ~\E f : Run(f, n)}
<1>1. N \in Nat
  OBVIOUS
<1>. HIDE DEF N
<1>2. \E f : Run(f, 0)
  <2>. DEFINE f == [i \in 0..0 |-> r]
  <2>1. \A i \in 0..0 : i = 0
    OBVIOUS
  <2>2. f = [i \in 0..0 |-> IF i = 0 THEN r ELSE ProjectRows(f[i - 1], events[i])]
    BY <2>1
  <2>. QED
    BY <2>2
<1>3. ASSUME NEW n \in Nat, \E f : Run(f, n)
      PROVE  \E f : Run(f, n + 1)
  <2>1. PICK g : Run(g, n)
    BY <1>3
  <2>. DEFINE f == [i \in 0..(n + 1) |-> IF i = n + 1 THEN ProjectRows(g[n], events[n + 1])
                                         ELSE g[i]]
              h == [i \in 0..(n + 1) |-> IF i = 0 THEN r
                                         ELSE ProjectRows(f[i - 1], events[i])]
  <2>2. ASSUME NEW i \in 0..(n + 1)
        PROVE  f[i] = h[i]
    <3>1. CASE i = n + 1
      <4>1. f[i - 1] = g[n] /\ i # 0
        BY <3>1
      <4>. QED
        BY <3>1, <4>1
    <3>2. CASE i # n + 1 /\ i # 0
      <4>1. i \in 0..n /\ i - 1 \in 0..(n + 1) /\ i - 1 # n + 1
        BY <3>2
      <4>2. f[i - 1] = g[i - 1] /\ f[i] = g[i]
        BY <4>1, <3>2
      <4>3. g[i] = ProjectRows(g[i - 1], events[i])
        BY <2>1, <4>1, <3>2
      <4>. QED
        BY <4>2, <4>3, <3>2
    <3>3. CASE i = 0
      <4>1. 0 \in 0..n /\ 0 # n + 1
        OBVIOUS
      <4>. QED
        BY <3>3, <4>1, <2>1
    <3>. QED
      BY <3>1, <3>2, <3>3
  <2>3. f = h
    BY <2>2
  <2>. QED
    BY <2>3
<1>4. Missing = {}
  <2>. SUFFICES ASSUME Missing # {} PROVE FALSE
    OBVIOUS
  <2>1. Missing \in SUBSET Nat
    BY <1>1
  <2>2. PICK m \in Missing : \A k \in Missing : m <= k
    <3>. HIDE DEF Missing
    <3>. QED
      BY <2>1, LeastNumber
  <2>3. m \in 0..N /\ ~\E f : Run(f, m)
    BY <2>2
  <2>4. m # 0
    BY <2>3, <1>2
  <2>5. m - 1 \in 0..N /\ m - 1 \in Nat /\ (m - 1) + 1 = m
    BY <2>3, <2>4, <1>1
  <2>6. m - 1 \notin Missing
    BY <2>2, <2>5
  <2>7. \E f : Run(f, m - 1)
    BY <2>6, <2>5
  <2>8. \E f : Run(f, (m - 1) + 1)
    <3>. HIDE DEF Run
    <3>. QED
      BY <2>5, <2>7, <1>3
  <2>. QED
    BY <2>8, <2>5, <2>3
<1>5. \E f : Run(f, N)
  BY <1>4, <1>1
<1>. DEFINE after == CHOOSE f : Run(f, N)
<1>6. Run(after, N)
  <2>. HIDE DEF Run
  <2>. QED
    BY <1>5
<1>7. ProjectAll(r, events) = after[N]
  BY DEF ProjectAll, N
<1>. HIDE DEF after
<1>8. after[0] = r
  <2>1. 0 \in 0..N
    BY <1>1
  <2>. QED
    BY <1>6, <2>1
<1>9. ASSUME NEW i \in 1..N
      PROVE  after[i] = ProjectRows(after[i - 1], events[i])
  <2>1. i \in 0..N /\ i # 0
    BY <1>1
  <2>. QED
    BY <1>6, <2>1
<1>. QED
  BY <1>7, <1>8, <1>9 DEF N

\* Commands lead to at most four events.
LEMMA EventsInTurn ==
    ASSUME NEW t, NEW s
    PROVE  /\ Len(s) = 0 => ProjectEvents(t, s) = t
           /\ Len(s) = 1 => ProjectEvents(t, s) = ProjectEvent(t, s[1])
           /\ Len(s) = 2 => ProjectEvents(t, s) = ProjectEvent(ProjectEvent(t, s[1]), s[2])
           /\ Len(s) = 3 => ProjectEvents(t, s) =
                 ProjectEvent(ProjectEvent(ProjectEvent(t, s[1]), s[2]), s[3])
           /\ Len(s) = 4 => ProjectEvents(t, s) =
                 ProjectEvent(ProjectEvent(ProjectEvent(ProjectEvent(t, s[1]), s[2]), s[3]), s[4])
<1>. SUFFICES ASSUME Len(s) \in 0..4
     PROVE  /\ Len(s) = 0 => ProjectEvents(t, s) = t
            /\ Len(s) = 1 => ProjectEvents(t, s) = ProjectEvent(t, s[1])
            /\ Len(s) = 2 => ProjectEvents(t, s) = ProjectEvent(ProjectEvent(t, s[1]), s[2])
            /\ Len(s) = 3 => ProjectEvents(t, s) =
                  ProjectEvent(ProjectEvent(ProjectEvent(t, s[1]), s[2]), s[3])
            /\ Len(s) = 4 => ProjectEvents(t, s) =
                  ProjectEvent(ProjectEvent(ProjectEvent(ProjectEvent(t, s[1]), s[2]), s[3]), s[4])
  OBVIOUS
<1>0. Len(s) \in Nat
  OBVIOUS
<1>1. PICK f : /\ f[0] = t /\ \A i \in 1..Len(s) : f[i] = ProjectEvent(f[i - 1], s[i])
               /\ ProjectEvents(t, s) = f[Len(s)]
  BY ONLY <1>0, EventsFolded
<1>2. /\ Len(s) >= 1 => f[1] = ProjectEvent(f[0], s[1])
      /\ Len(s) >= 2 => f[2] = ProjectEvent(f[1], s[2])
      /\ Len(s) >= 3 => f[3] = ProjectEvent(f[2], s[3])
      /\ Len(s) >= 4 => f[4] = ProjectEvent(f[3], s[4])
  BY <1>1
<1>. QED
  BY <1>1, <1>2

LEMMA RowsInTurn ==
    ASSUME NEW r, NEW s
    PROVE  /\ Len(s) = 0 => ProjectAll(r, s) = r
           /\ Len(s) = 1 => ProjectAll(r, s) = ProjectRows(r, s[1])
           /\ Len(s) = 2 => ProjectAll(r, s) = ProjectRows(ProjectRows(r, s[1]), s[2])
           /\ Len(s) = 3 => ProjectAll(r, s) =
                 ProjectRows(ProjectRows(ProjectRows(r, s[1]), s[2]), s[3])
           /\ Len(s) = 4 => ProjectAll(r, s) =
                 ProjectRows(ProjectRows(ProjectRows(ProjectRows(r, s[1]), s[2]), s[3]), s[4])
<1>. SUFFICES ASSUME Len(s) \in 0..4
     PROVE  /\ Len(s) = 0 => ProjectAll(r, s) = r
            /\ Len(s) = 1 => ProjectAll(r, s) = ProjectRows(r, s[1])
            /\ Len(s) = 2 => ProjectAll(r, s) = ProjectRows(ProjectRows(r, s[1]), s[2])
            /\ Len(s) = 3 => ProjectAll(r, s) =
                  ProjectRows(ProjectRows(ProjectRows(r, s[1]), s[2]), s[3])
            /\ Len(s) = 4 => ProjectAll(r, s) =
                  ProjectRows(ProjectRows(ProjectRows(ProjectRows(r, s[1]), s[2]), s[3]), s[4])
  OBVIOUS
<1>0. Len(s) \in Nat
  OBVIOUS
<1>1. PICK f : /\ f[0] = r /\ \A i \in 1..Len(s) : f[i] = ProjectRows(f[i - 1], s[i])
               /\ ProjectAll(r, s) = f[Len(s)]
  BY ONLY <1>0, RowsFolded
<1>2. /\ Len(s) >= 1 => f[1] = ProjectRows(f[0], s[1])
      /\ Len(s) >= 2 => f[2] = ProjectRows(f[1], s[2])
      /\ Len(s) >= 3 => f[3] = ProjectRows(f[2], s[3])
      /\ Len(s) >= 4 => f[4] = ProjectRows(f[3], s[4])
  BY <1>1
<1>. QED
  BY <1>1, <1>2

-----------------------------------------------------------------------------
(* Places of a list.                                                           *)

RankIn(S, k) == Cardinality({j \in S : j <= k})

\* Of a finite set of numbers, each is the one of its rank.
LEMMA Ranks ==
    ASSUME NEW S \in SUBSET Nat, IsFiniteSet(S)
    PROVE  /\ Cardinality(S) \in Nat
           /\ \A k \in S : RankIn(S, k) \in 1..Cardinality(S)
           /\ \A j, k \in S : j < k => RankIn(S, j) < RankIn(S, k)
           /\ \A i \in 1..Cardinality(S) : \E k \in S : RankIn(S, k) = i
<1>. DEFINE upTo(k) == {j \in S : j <= k}
            N == Cardinality(S)
<1>1. N \in Nat
  BY FS_CardinalityType
<1>2. ASSUME NEW k \in S
      PROVE  IsFiniteSet(upTo(k)) /\ RankIn(S, k) \in 1..N
  <2>1. upTo(k) \in SUBSET S
    OBVIOUS
  <2>2. IsFiniteSet(upTo(k)) /\ Cardinality(upTo(k)) <= N
    BY <2>1, FS_Subset
  <2>3. Cardinality(upTo(k)) \in Nat
    BY <2>2, FS_CardinalityType
  <2>4. k \in upTo(k)
    OBVIOUS
  <2>5. Cardinality(upTo(k)) # 0
    BY <2>2, <2>4, FS_EmptySet
  <2>. QED
    BY <2>2, <2>3, <2>5, <1>1 DEF RankIn
<1>3. ASSUME NEW j \in S, NEW k \in S, j < k
      PROVE  RankIn(S, j) < RankIn(S, k)
  <2>1. upTo(j) \in SUBSET upTo(k)
    <3>1. j \in Nat /\ k \in Nat /\ \A x \in S : x \in Nat
      OBVIOUS
    <3>2. \A x \in S : x <= j => x <= k
      BY <3>1, <1>3
    <3>. QED
      BY <3>2
  <2>2. Cardinality(upTo(j)) <= Cardinality(upTo(k))
        /\ (Cardinality(upTo(k)) = Cardinality(upTo(j)) => upTo(k) = upTo(j))
    BY <2>1, <1>2, FS_Subset
  <2>3. k \in upTo(k) /\ k \notin upTo(j)
    BY <1>3
  <2>4. RankIn(S, j) = Cardinality(upTo(j)) /\ RankIn(S, k) = Cardinality(upTo(k))
    BY DEF RankIn
  <2>5. RankIn(S, j) \in 1..N /\ RankIn(S, k) \in 1..N
    BY <1>2
  <2>6. Cardinality(upTo(j)) # Cardinality(upTo(k))
    BY <2>2, <2>3
  <2>. HIDE DEF upTo, N
  <2>. QED
    BY <2>2, <2>4, <2>5, <2>6, <1>1
<1>. DEFINE rank == [k \in S |-> RankIn(S, k)]
<1>4. rank \in Injection(S, 1..N)
  <2>1. rank \in [S -> 1..N]
    BY <1>2
  <2>2. ASSUME NEW j \in S, NEW k \in S, rank[j] = rank[k]
        PROVE  j = k
    <3>1. j \in Nat /\ k \in Nat /\ RankIn(S, j) \in 1..N /\ RankIn(S, k) \in 1..N
      BY <1>2
    <3>2. RankIn(S, j) = RankIn(S, k)
      BY <2>2
    <3>3. ~(j < k) /\ ~(k < j)
      BY <3>1, <3>2, <1>3, <1>1
    <3>. QED
      BY <3>1, <3>3
  <2>. QED
    BY <2>1, <2>2 DEF Injection, IsInjective
<1>5. IsFiniteSet(1..N) /\ Cardinality(1..N) = N
  BY <1>1, FS_Interval
<1>6. rank \in Surjection(S, 1..N)
  BY <1>4, <1>5, FS_Injection
<1>7. ASSUME NEW i \in 1..N
      PROVE  \E k \in S : RankIn(S, k) = i
  <2>1. \E k \in S : rank[k] = i
    BY <1>6 DEF Surjection
  <2>. QED
    BY <2>1
<1>. QED
  BY <1>1, <1>2, <1>3, <1>7

LEMMA NthElements ==
    ASSUME NEW S \in SUBSET Nat, IsFiniteSet(S)
    PROVE  /\ Cardinality(S) \in Nat
           /\ \A i \in 1..Cardinality(S) : Nth(S, i) \in S
           /\ \A i, j \in 1..Cardinality(S) : i < j => Nth(S, i) < Nth(S, j)
           /\ \A k \in S : \E i \in 1..Cardinality(S) : Nth(S, i) = k
           /\ \A k \in S : Nth(S, RankIn(S, k)) = k
<1>. DEFINE N == Cardinality(S)
<1>1. /\ N \in Nat
      /\ \A k \in S : RankIn(S, k) \in 1..N
      /\ \A j, k \in S : j < k => RankIn(S, j) < RankIn(S, k)
      /\ \A i \in 1..N : \E k \in S : RankIn(S, k) = i
  BY Ranks
<1>. HIDE DEF N
<1>2. \A i : Nth(S, i) = CHOOSE k \in S : RankIn(S, k) = i
  BY DEF Nth, RankIn
<1>3. ASSUME NEW i \in 1..N
      PROVE  Nth(S, i) \in S /\ RankIn(S, Nth(S, i)) = i
  BY <1>1, <1>2
<1>4. ASSUME NEW i \in 1..N, NEW j \in 1..N, i < j
      PROVE  Nth(S, i) < Nth(S, j)
  <2>1. Nth(S, i) \in S /\ Nth(S, j) \in S /\ RankIn(S, Nth(S, i)) = i
        /\ RankIn(S, Nth(S, j)) = j
    BY <1>3
  <2>2. Nth(S, i) \in Nat /\ Nth(S, j) \in Nat
    BY <2>1
  <2>3. ~(Nth(S, j) < Nth(S, i))
    <3>1. Nth(S, j) < Nth(S, i) => RankIn(S, Nth(S, j)) < RankIn(S, Nth(S, i))
      BY <2>1, <1>1
    <3>2. ~(j < i)
      BY <1>4
    <3>. QED
      BY <2>1, <3>1, <3>2
  <2>4. Nth(S, j) # Nth(S, i)
    <3>1. i # j
      BY <1>4
    <3>. QED
      BY <2>1, <3>1
  <2>. QED
    BY <2>2, <2>3, <2>4
<1>5. ASSUME NEW k \in S
      PROVE  RankIn(S, k) \in 1..N /\ Nth(S, RankIn(S, k)) = k
  <2>1. RankIn(S, k) \in 1..N
    BY <1>1
  <2>2. Nth(S, RankIn(S, k)) \in S
        /\ RankIn(S, Nth(S, RankIn(S, k))) = RankIn(S, k)
    BY <2>1, <1>3
  <2>. DEFINE h == Nth(S, RankIn(S, k))
  <2>3. h \in S /\ RankIn(S, h) = RankIn(S, k) /\ h \in Nat /\ k \in Nat
    BY <2>2
  <2>. HIDE DEF h
  <2>4. RankIn(S, k) \in Nat
    BY <2>1
  <2>5. ~(h < k) /\ ~(k < h)
    BY <2>3, <2>4, <1>1
  <2>6. h = k
    BY <2>3, <2>5
  <2>. QED
    BY <2>1, <2>6 DEF h
<1>. QED
  BY <1>1, <1>3, <1>4, <1>5 DEF N

\* A rising enumeration of a set is its Nth.
LEMMA NthIs ==
    ASSUME NEW S \in SUBSET Nat, NEW m \in Nat, NEW f \in [1..m -> S],
           \A i, j \in 1..m : i < j => f[i] < f[j],
           \A k \in S : \E i \in 1..m : f[i] = k
    PROVE  IsFiniteSet(S) /\ Cardinality(S) = m /\ \A i \in 1..m : Nth(S, i) = f[i]
<1>1. \A i \in 1..m : f[i] \in Nat
  OBVIOUS
<1>2. \A i, j \in 1..m : f[i] = f[j] => i = j
  BY <1>1
<1>3. f \in Bijection(1..m, S)
  BY <1>2 DEF Bijection, Injection, Surjection, IsInjective
<1>4. Cardinality(S) = m /\ IsFiniteSet(S)
  BY <1>3, FS_CountingElements, FS_NatBijection DEF ExistsBijection
<1>5. ASSUME NEW i \in 1..m
      PROVE  RankIn(S, f[i]) = i
  <2>. DEFINE T == {j \in S : j <= f[i]}
              g == [j \in 1..i |-> f[j]]
  <2>1. i \in Nat
    OBVIOUS
  <2>2. \A j \in 1..i : j \in 1..m /\ f[j] \in S /\ f[j] <= f[i]
    BY <1>1
  <2>3. g \in [1..i -> T]
    BY <2>2
  <2>4. \A j, k \in 1..i : g[j] = g[k] => j = k
    BY <2>2, <1>2
  <2>5. ASSUME NEW k \in T
        PROVE  \E j \in 1..i : g[j] = k
    <3>1. PICK j \in 1..m : f[j] = k
      OBVIOUS
    <3>2. ~(i < j)
      BY <3>1, <1>1
    <3>3. j \in 1..i
      BY <3>2
    <3>. QED
      BY <3>1, <3>3
  <2>6. g \in Bijection(1..i, T)
    BY <2>3, <2>4, <2>5 DEF Bijection, Injection, Surjection, IsInjective
  <2>7. Cardinality(T) = i
    BY <2>1, <2>6, FS_CountingElements DEF ExistsBijection
  <2>. QED
    BY <2>7 DEF RankIn
<1>6. ASSUME NEW i \in 1..m
      PROVE  Nth(S, i) = f[i]
  <2>1. f[i] \in S /\ RankIn(S, f[i]) = i
    BY <1>5
  <2>2. Nth(S, RankIn(S, f[i])) = f[i]
    BY <2>1, <1>4, NthElements
  <2>. QED
    BY <2>1, <2>2
<1>. QED
  BY <1>4, <1>6

LEMMA PlacesFinite ==
    ASSUME NEW n \in Nat, NEW S \in SUBSET (1..n)
    PROVE  IsFiniteSet(S) /\ S \in SUBSET Nat
<1>1. IsFiniteSet(1..n)
  BY FS_Interval
<1>2. S \in SUBSET Nat
  OBVIOUS
<1>. QED
  BY <1>1, <1>2, FS_Subset

\* What is taken from a list are its elements at those places, in their order.
LEMMA AtPlacesElements ==
    ASSUME NEW X, NEW s \in Seq(X), NEW S \in SUBSET DOMAIN s
    PROVE  /\ AtPlaces(s, S) \in Seq(X)
           /\ \A i \in DOMAIN AtPlaces(s, S) :
                 Nth(S, i) \in S /\ AtPlaces(s, S)[i] = s[Nth(S, i)]
           /\ \A i, j \in DOMAIN AtPlaces(s, S) : i < j => Nth(S, i) < Nth(S, j)
           /\ \A k \in S : \E i \in DOMAIN AtPlaces(s, S) :
                 AtPlaces(s, S)[i] = s[k] /\ Nth(S, i) = k
<1>1. Len(s) \in Nat /\ DOMAIN s = 1..Len(s) /\ \A k \in DOMAIN s : s[k] \in X
  OBVIOUS
<1>2. IsFiniteSet(S) /\ S \in SUBSET Nat
  BY <1>1, PlacesFinite
<1>. DEFINE N == Cardinality(S)
<1>3. /\ N \in Nat
      /\ \A i \in 1..N : Nth(S, i) \in S
      /\ \A i, j \in 1..N : i < j => Nth(S, i) < Nth(S, j)
      /\ \A k \in S : \E i \in 1..N : Nth(S, i) = k
  BY <1>2, NthElements
<1>4. AtPlaces(s, S) = [i \in 1..N |-> s[Nth(S, i)]]
  BY DEF AtPlaces
<1>. HIDE DEF N
<1>5. \A i \in 1..N : s[Nth(S, i)] \in X
  BY <1>1, <1>3
<1>6. AtPlaces(s, S) \in Seq(X) /\ DOMAIN AtPlaces(s, S) = 1..N
  BY <1>3, <1>4, <1>5
<1>. QED
  BY <1>3, <1>4, <1>6

LEMMA AtAllPlaces ==
    ASSUME NEW X, NEW s \in Seq(X)
    PROVE  AtPlaces(s, DOMAIN s) = s
<1>. DEFINE m == Len(s)
            f == [i \in 1..m |-> i]
<1>1. m \in Nat /\ DOMAIN s = 1..m /\ s = [i \in 1..m |-> s[i]]
  OBVIOUS
<1>2. Cardinality(1..m) = m /\ \A i \in 1..m : Nth(1..m, i) = f[i]
  <2>1. f \in [1..m -> 1..m] /\ (1..m) \in SUBSET Nat
    BY <1>1
  <2>2. \A i, j \in 1..m : i < j => f[i] < f[j]
    OBVIOUS
  <2>3. \A k \in 1..m : \E i \in 1..m : f[i] = k
    OBVIOUS
  <2>. HIDE DEF f
  <2>. QED
    BY <1>1, <2>1, <2>2, <2>3, NthIs
<1>3. AtPlaces(s, 1..m) = [i \in 1..m |-> s[i]]
  BY <1>2 DEF AtPlaces
<1>. QED
  BY <1>1, <1>3

-----------------------------------------------------------------------------
(* The latest of the turns' rows.                                              *)

LEMMA Greatest ==
    ASSUME NEW S \in SUBSET Nat, IsFiniteSet(S), S # {}
    PROVE  \E m \in S : \A k \in S : k <= m
<1>. DEFINE N == Cardinality(S)
<1>1. /\ N \in Nat
      /\ \A i \in 1..N : Nth(S, i) \in S
      /\ \A i, j \in 1..N : i < j => Nth(S, i) < Nth(S, j)
      /\ \A k \in S : \E i \in 1..N : Nth(S, i) = k
  BY NthElements
<1>. HIDE DEF N
<1>2. N \in 1..N
  <2>1. \E k : k \in S
    OBVIOUS
  <2>2. \E i : i \in 1..N
    BY <1>1, <2>1
  <2>. QED
    BY <1>1, <2>2
<1>3. ASSUME NEW k \in S
      PROVE  k <= Nth(S, N)
  <2>1. PICK i \in 1..N : Nth(S, i) = k
    BY <1>1
  <2>2. k \in Nat /\ Nth(S, N) \in Nat
    BY <1>1, <1>2
  <2>3. i = N \/ i < N
    BY <1>1
  <2>. QED
    BY <2>1, <2>2, <2>3, <1>1, <1>2
<1>. QED
  BY <1>1, <1>2, <1>3

LEMMA LatestExists ==
    ASSUME NEW turns, IsFiniteSet(turns), turns # {},
           \A r \in turns : r.requestedAt \in Nat /\ r.turn \in Nat
    PROVE  \E r \in turns : \A s \in turns : Later(r, s)
<1>. DEFINE instants == {r.requestedAt : r \in turns}
            f == [r \in turns |-> r.requestedAt]
<1>1. IsFiniteSet(instants)
  <2>1. f \in Surjection(turns, instants)
    BY DEF Surjection
  <2>. HIDE DEF f
  <2>. QED
    BY <2>1, FS_Surjection
<1>2. PICK at \in instants : \A k \in instants : k <= at
  <2>1. instants \in SUBSET Nat /\ instants # {}
    OBVIOUS
  <2>. HIDE DEF instants
  <2>. QED
    BY <1>1, <2>1, Greatest
<1>. DEFINE last == {r \in turns : r.requestedAt = at}
            names == {r.turn : r \in last}
            g == [r \in last |-> r.turn]
<1>3. IsFiniteSet(last) /\ last # {}
  <2>1. last \in SUBSET turns
    OBVIOUS
  <2>. QED
    BY <2>1, FS_Subset
<1>4. IsFiniteSet(names)
  <2>1. g \in Surjection(last, names)
    BY DEF Surjection
  <2>. HIDE DEF g, last, names
  <2>. QED
    BY <2>1, <1>3, FS_Surjection
<1>5. PICK id \in names : \A k \in names : k <= id
  <2>1. names \in SUBSET Nat /\ names # {}
    BY <1>3
  <2>. HIDE DEF names
  <2>. QED
    BY <1>4, <2>1, Greatest
<1>6. PICK r \in last : r.turn = id
  OBVIOUS
<1>7. ASSUME NEW s \in turns
      PROVE  Later(r, s)
  <2>1. s.requestedAt <= at /\ s.requestedAt \in Nat /\ at \in Nat /\ r.requestedAt = at
    BY <1>2
  <2>2. CASE s.requestedAt = at
    <3>1. s.turn <= r.turn
      BY <2>2, <1>5, <1>6
    <3>. QED
      BY <3>1, <2>1, <2>2 DEF Later
  <2>3. CASE s.requestedAt # at
    BY <2>1, <2>3 DEF Later
  <2>. QED
    BY <2>2, <2>3
<1>. QED
  BY <1>6, <1>7

LEMMA LatestIs ==
    ASSUME NEW turns, NEW r \in turns, \A s \in turns : Later(r, s),
           \A a \in turns : a.requestedAt \in Nat /\ a.turn \in Nat,
           \A a, b \in turns : a.turn = b.turn => a = b
    PROVE  LatestTurn(turns) = [id |-> r.turn, state |-> r.state, requestedAt |-> r.requestedAt,
                                startedAt |-> r.startedAt, completedAt |-> r.completedAt]
<1>. DEFINE chosen == CHOOSE a \in turns : \A s \in turns : Later(a, s)
<1>1. chosen \in turns /\ \A s \in turns : Later(chosen, s)
  OBVIOUS
<1>2. LatestTurn(turns) =
        [id |-> chosen.turn, state |-> chosen.state, requestedAt |-> chosen.requestedAt,
         startedAt |-> chosen.startedAt, completedAt |-> chosen.completedAt]
  BY DEF LatestTurn
<1>. HIDE DEF chosen
<1>3. Later(chosen, r) /\ Later(r, chosen)
  BY <1>1
<1>4. chosen.turn = r.turn
  BY <1>1, <1>3 DEF Later
<1>. QED
  BY <1>1, <1>2, <1>4

-----------------------------------------------------------------------------
(* What holds of a thread t of the read model and its rows r when n is the     *)
(* latest instant that either knows.                                           *)

TurnStates == {"none", "running", "completed", "interrupted"}
TurnNames(n) == (1..n) \cup ProviderTurns

TurnType(n) == [id : {NoTurnId} \cup TurnNames(n), state : TurnStates,
                requestedAt : 0..n, startedAt : 0..n, completedAt : 0..n]
Messages(n) == [id : 1..n, role : {"user", "assistant"}, turn : {NoTurnId} \cup ProviderTurns,
                at : 1..n]
Activities == [id : Nat \ {0}, kind : {"approval.requested", "approval.resolved"},
               request : Requests, turn : {NoTurnId}]
Checkpoints(n) == [turn : TurnNames(n), count : Nat \ {0}, at : 0..n]
RowType(n) == [turn : TurnNames(n), pending : 0..n, assistant : 0..n,
               state : TurnStates \ {"none"}, requestedAt : 1..n, startedAt : 1..n,
               completedAt : 0..n, count : Nat]

\* The fields that events only set, and those of each record.
Plain == {"deleted", "archived", "title", "titleSource", "status", "createdAt", "settled",
          "settledAt", "snoozedUntil", "snoozedAt"}
ThreadFields == Plain \cup {"lastInteractedAt", "session", "turn", "messages", "activities",
                            "checkpoints"}
RowFields == Plain \cup {"lastInteractedAt", "latestTurn"}

TurnTyped(turn, n) == turn \in TurnType(n) /\ (turn.id = NoTurnId => turn = NoTurn)

ThreadTyped(t, n) ==
    /\ DOMAIN t = ThreadFields
    /\ t.deleted \in BOOLEAN
    /\ TurnTyped(t.turn, n)
    /\ t.messages \in Seq(Messages(n))
    /\ t.activities \in Seq(Activities)
    /\ t.checkpoints \in Seq(Checkpoints(n))
    /\ \A i, j \in DOMAIN t.checkpoints :
          i < j => t.checkpoints[i].count <= t.checkpoints[j].count

SnoozeTyped(row) ==
    /\ row.snoozedUntil \in Nat /\ row.snoozedAt \in Nat
    /\ row.snoozedUntil # NoTime => row.snoozedAt # NoTime

TurnsTyped(turns, n) ==
    /\ turns \subseteq RowType(n)
    /\ IsFiniteSet(turns)
    /\ \A a, b \in turns : a.turn = b.turn => a = b
    /\ \A a, b \in turns : a.count = b.count => a = b \/ a.count = NoCount

RowsTyped(r, n) ==
    /\ DOMAIN r.thread = RowFields
    /\ SnoozeTyped(r.thread)
    /\ r.messages \in Seq(Messages(n))
    /\ r.activities \in Seq(Activities)
    /\ r.pending \in 0..n
    /\ r.session # NoSession => r.session.at # NoTime
    /\ TurnsTyped(r.turns, n)

SameRow(t, row) == \A f \in Plain : t[f] = row[f]

SameLists(t, r) ==
    /\ t.session = r.session
    /\ t.messages = r.messages
    /\ t.activities = r.activities

\* A row that a capture made keeps the instant of the capture, which names the turn.
OfCapture(row, n) ==
    row.turn \in 1..n =>
        /\ row.requestedAt = row.turn /\ row.startedAt = row.turn /\ row.completedAt = row.turn
        /\ row.state \in {"completed", "interrupted"}
        /\ row.pending = NoMessage /\ row.assistant = NoMessage

Made(row) == [turn |-> row.turn, count |-> row.count, at |-> row.completedAt]

\* The rows with a count are those of the checkpoints that no later capture took the
\* count of.
CheckpointsMatch(checkpoints, turns, n) ==
    /\ \A row \in turns : OfCapture(row, n) /\ (row.count # NoCount => row.turn \in 1..n)
    /\ \A i \in DOMAIN checkpoints : checkpoints[i].turn = checkpoints[i].at
    /\ \A i, j \in DOMAIN checkpoints :
          i < j /\ checkpoints[i].count = checkpoints[j].count =>
              checkpoints[i].at < checkpoints[j].at
    /\ \A row \in turns : row.count # NoCount =>
          \E i \in DOMAIN checkpoints : checkpoints[i] = Made(row)
    /\ \A i \in DOMAIN checkpoints :
          \E row \in turns : row.count = checkpoints[i].count /\ checkpoints[i].at <= row.turn

Times(turn) == {turn.requestedAt, turn.startedAt, turn.completedAt}

\* A turn of memory that ended has a row, and the latest row is as late and not running.
TurnsMatch(turn, turns) ==
    /\ turn # NoTurn => \E row \in turns : row.turn = turn.id
    /\ turn.state # "running" =>
          /\ LatestTurn(turns).state # "running"
          /\ \A x \in Times(turn) : \E y \in Times(LatestTurn(turns)) : x <= y

AtRest(t) ==
    t.settled = "settled" =>
        /\ OpenRequests(t.activities) = {}
        /\ t.session.status \notin {"starting", "running"}
        /\ t.turn.state # "running"

Mirrored(t, r, n) ==
    /\ SameLists(t, r)
    /\ CheckpointsMatch(t.checkpoints, r.turns, n)
    /\ TurnsMatch(t.turn, r.turns)
    /\ AtRest(t)

Agree(t, r, n) ==
    /\ ThreadTyped(t, n)
    /\ RowsTyped(r, n)
    /\ SameRow(t, r.thread)
    /\ ~t.deleted => Mirrored(t, r, n)

\* Where no provider reports turns, each turn is of a capture, and the one in memory is
\* that of the last checkpoint.
TurnIsLast(turn, checkpoints) ==
    IF checkpoints = <<>> THEN turn = NoTurn
    ELSE turn.id = Last(checkpoints).turn /\ Times(turn) = {Last(checkpoints).at}

CapturesOnly(t, r, n) ==
    /\ t.session = NoSession
    /\ t.turn.state # "running"
    /\ t.lastInteractedAt = r.thread.lastInteractedAt
    /\ \A row \in r.turns : row.turn \in 1..n
    /\ \A row \in r.turns : \E other \in r.turns :
          other.count # NoCount /\ row.turn <= other.turn
    /\ t.turn = NoTurn \/ Times(t.turn) = {t.turn.id}
    /\ CapturedInOrder(t) => TurnIsLast(t.turn, t.checkpoints)

\* A step from t and r to u and v keeps all that.
Step(t, r, n, u, v, m) ==
    /\ Agree(u, v, m)
    /\ t.deleted => u.deleted
    /\ ~u.deleted /\ CapturesOnly(t, r, n) => CapturesOnly(u, v, m)

LEMMA StepsCompose ==
    ASSUME NEW t, NEW r, NEW n, NEW u, NEW v, NEW m, NEW x, NEW y, NEW k,
           Step(t, r, n, u, v, m), Step(u, v, m, x, y, k)
    PROVE  Step(t, r, n, x, y, k)
BY DEF Step

\* Time passes.
LEMMA TypesGrow ==
    ASSUME NEW n \in Nat
    PROVE  /\ TurnType(n) \subseteq TurnType(n + 1)
           /\ Seq(Messages(n)) \subseteq Seq(Messages(n + 1))
           /\ Seq(Checkpoints(n)) \subseteq Seq(Checkpoints(n + 1))
           /\ RowType(n) \subseteq RowType(n + 1)
           /\ TurnNames(n) \subseteq TurnNames(n + 1)
<1>1. 0..n \subseteq 0..(n + 1) /\ 1..n \subseteq 1..(n + 1)
  OBVIOUS
<1>2. TurnNames(n) \subseteq TurnNames(n + 1)
  BY <1>1 DEF TurnNames
<1>3. TurnType(n) \subseteq TurnType(n + 1)
  BY <1>1, <1>2 DEF TurnType
<1>4. Messages(n) \subseteq Messages(n + 1)
  BY <1>1 DEF Messages
<1>5. Checkpoints(n) \subseteq Checkpoints(n + 1)
  BY <1>1, <1>2 DEF Checkpoints
<1>6. RowType(n) \subseteq RowType(n + 1)
  BY <1>1, <1>2 DEF RowType
<1>7. \A X, Y : X \subseteq Y => Seq(X) \subseteq Seq(Y)
  OBVIOUS
<1>. QED
  BY <1>2, <1>3, <1>4, <1>5, <1>6, <1>7

\* The next instant names no turn yet.
LEMMA NextInstant ==
    ASSUME NEW n \in Nat, n < MaxNow
    PROVE  /\ n + 1 \notin TurnNames(n) /\ n + 1 \notin ProviderTurns
           /\ \A turn \in TurnNames(n) : turn \in 1..(n + 1) => turn \in 1..n
<1>1. \A turn \in ProviderTurns : turn \in Nat /\ turn > n + 1
  BY TurnsAssumption
<1>. QED
  BY <1>1 DEF TurnNames

LEMMA TimePasses ==
    ASSUME NEW t, NEW r, NEW n \in Nat, n < MaxNow, Agree(t, r, n)
    PROVE  Step(t, r, n, t, r, n + 1)
<1>1. ThreadTyped(t, n + 1)
  BY TypesGrow DEF Agree, ThreadTyped, TurnTyped
<1>2. RowsTyped(r, n + 1)
  <2>1. r.pending \in 0..(n + 1)
    BY DEF Agree, RowsTyped
  <2>2. TurnsTyped(r.turns, n + 1)
    BY TypesGrow DEF Agree, RowsTyped, TurnsTyped
  <2>. QED
    BY <2>1, <2>2, TypesGrow DEF Agree, RowsTyped
<1>3. ASSUME CheckpointsMatch(t.checkpoints, r.turns, n)
      PROVE  CheckpointsMatch(t.checkpoints, r.turns, n + 1)
  <2>1. ASSUME NEW row \in r.turns
        PROVE  OfCapture(row, n + 1) /\ (row.count # NoCount => row.turn \in 1..(n + 1))
    <3>1. row.turn \in TurnNames(n)
      BY DEF Agree, RowsTyped, TurnsTyped, RowType
    <3>2. row.turn \in 1..(n + 1) => row.turn \in 1..n
      BY <3>1, NextInstant
    <3>3. OfCapture(row, n) /\ (row.count # NoCount => row.turn \in 1..n)
      BY <1>3 DEF CheckpointsMatch
    <3>. QED
      BY <3>2, <3>3 DEF OfCapture
  <2>. QED
    BY <1>3, <2>1 DEF CheckpointsMatch
<1>4. ASSUME CapturesOnly(t, r, n)
      PROVE  CapturesOnly(t, r, n + 1)
  BY <1>4 DEF CapturesOnly
<1>. QED
  BY <1>1, <1>2, <1>3, <1>4 DEF Agree, Mirrored, Step

\* Lists, turns and session stay.
SameProgress(t, r, u, v) ==
    /\ \A f \in ThreadFields \ Plain : u[f] = t[f]
    /\ v.thread.lastInteractedAt = r.thread.lastInteractedAt
    /\ v.messages = r.messages /\ v.activities = r.activities /\ v.session = r.session
    /\ v.turns = r.turns

LEMMA PlainStep ==
    ASSUME NEW t, NEW r, NEW n \in Nat, Agree(t, r, n), NEW u, NEW v,
           SameProgress(t, r, u, v), v.pending \in 0..n,
           DOMAIN u = ThreadFields, DOMAIN v.thread = RowFields, u.deleted = t.deleted,
           SameRow(u, v.thread), SnoozeTyped(v.thread),
           ~t.deleted => AtRest(u)
    PROVE  Step(t, r, n, u, v, n)
<1>1. /\ u.turn = t.turn /\ u.messages = t.messages /\ u.activities = t.activities
      /\ u.checkpoints = t.checkpoints /\ u.session = t.session
      /\ u.lastInteractedAt = t.lastInteractedAt
  BY DEF SameProgress, ThreadFields, Plain
<1>2. ThreadTyped(u, n)
  BY <1>1 DEF Agree, ThreadTyped
<1>3. RowsTyped(v, n)
  BY DEF Agree, RowsTyped, SameProgress
<1>4. ASSUME ~t.deleted
      PROVE  Mirrored(u, v, n)
  BY <1>1, <1>4 DEF Agree, Mirrored, SameLists, SameProgress
<1>5. CapturedInOrder(u) = CapturedInOrder(t)
  BY <1>1 DEF CapturedInOrder
<1>6. ASSUME CapturesOnly(t, r, n)
      PROVE  CapturesOnly(u, v, n)
  BY <1>1, <1>5, <1>6 DEF CapturesOnly, SameProgress
<1>. QED
  BY <1>2, <1>3, <1>4, <1>6 DEF Agree, Step

-----------------------------------------------------------------------------
(* Events that set fields of the thread.                                       *)

PlainTypes == {"thread.settled", "thread.unsettled", "thread.snoozed", "thread.unsnoozed",
               "thread.meta-updated", "thread.terminal-status-changed"}
AsideTypes == {"thread.turn-start-requested", "thread.approval-response-requested"}

LEMMA ListsAside ==
    ASSUME NEW r, NEW e, e.type \in PlainTypes \cup AsideTypes
    PROVE  LET v == ProjectRows(r, e)
           IN  /\ v.messages = r.messages /\ v.activities = r.activities
               /\ v.session = r.session /\ v.turns = r.turns
               /\ v.thread = ThreadRow(r.thread, e)
               /\ v.pending = IF e.type = "thread.turn-start-requested" THEN e.message
                              ELSE r.pending
<1>1. /\ MessageRows(r, e) = r.messages
      /\ ActivityRows(r, e) = r.activities
      /\ SessionRow(r, e) = r.session
      /\ TurnRows(r, e) = r.turns
  BY DEF MessageRows, ActivityRows, SessionRow, TurnRows, PlainTypes, AsideTypes
<1>2. PendingRow(r, e) = IF e.type = "thread.turn-start-requested" THEN e.message
                         ELSE r.pending
  BY DEF PendingRow, PlainTypes, AsideTypes
<1>. QED
  BY <1>1, <1>2 DEF ProjectRows

LEMMA AsideStep ==
    ASSUME NEW t, NEW r, NEW n \in Nat, Agree(t, r, n), NEW e, e.type \in AsideTypes,
           e.type = "thread.turn-start-requested" => e.message \in 0..n
    PROVE  /\ ProjectEvent(t, e) = t
           /\ Step(t, r, n, ProjectEvent(t, e), ProjectRows(r, e), n)
<1>. DEFINE v == ProjectRows(r, e)
<1>1. ProjectEvent(t, e) = t /\ ThreadRow(r.thread, e) = r.thread
  BY DEF ProjectEvent, ThreadRow, AsideTypes
<1>2. /\ v.messages = r.messages /\ v.activities = r.activities
      /\ v.session = r.session /\ v.turns = r.turns /\ v.thread = r.thread
      /\ v.pending \in 0..n
  <2>1. r.pending \in 0..n
    BY DEF Agree, RowsTyped
  <2>. QED
    BY <1>1, <2>1, ListsAside
<1>. HIDE DEF v
<1>3. SameProgress(t, r, t, v)
  BY <1>2 DEF SameProgress
<1>4. Step(t, r, n, t, v, n)
  BY <1>2, <1>3, PlainStep DEF Agree, ThreadTyped, RowsTyped, Mirrored
<1>. QED
  BY <1>1, <1>4 DEF v

\* What the setting of fields asks of the event.
FieldsFit(t, e) ==
    /\ e.type = "thread.settled" => AtRest([t EXCEPT !.settled = "settled"])
    /\ e.type = "thread.unsettled" => e.reason \in {"user", "activity"}
    /\ e.type = "thread.snoozed" => e.snoozedUntil \in Nat /\ e.snoozedAt \in Nat \ {0}

\* A field set on both sides.
SetAlike(t, row, u, w) ==
    /\ DOMAIN u = ThreadFields /\ DOMAIN w = RowFields
    /\ u.deleted = t.deleted
    /\ \A f \in ThreadFields \ Plain : u[f] = t[f]
    /\ w.lastInteractedAt = row.lastInteractedAt
    /\ SameRow(u, w)

LEMMA FieldSet ==
    ASSUME NEW t, NEW row, NEW u, NEW w, SetAlike(t, row, u, w),
           NEW f \in Plain \ {"deleted"}, NEW x
    PROVE  SetAlike(t, row, [u EXCEPT ![f] = x], [w EXCEPT ![f] = x])
<1>. DEFINE p == [u EXCEPT ![f] = x]
            q == [w EXCEPT ![f] = x]
<1>0. DOMAIN u = ThreadFields /\ DOMAIN w = RowFields
  BY DEF SetAlike
<1>1. DOMAIN p = ThreadFields /\ DOMAIN q = RowFields
      /\ (\A g \in ThreadFields : p[g] = IF g = f THEN x ELSE u[g])
      /\ (\A g \in RowFields : q[g] = IF g = f THEN x ELSE w[g])
  BY <1>0
<1>. HIDE DEF p, q
<1>2. \A g \in Plain : g \in ThreadFields /\ g \in RowFields
  BY DEF ThreadFields, RowFields
<1>3. SameRow(p, q)
  BY <1>1, <1>2 DEF SameRow, SetAlike
<1>4. p.deleted = t.deleted
  BY <1>1 DEF SetAlike, ThreadFields, Plain
<1>5. q.lastInteractedAt = row.lastInteractedAt
  BY <1>1 DEF SetAlike, RowFields, Plain
<1>6. \A g \in ThreadFields \ Plain : p[g] = t[g]
  BY <1>1 DEF SetAlike
<1>. QED
  BY <1>1, <1>3, <1>4, <1>5, <1>6 DEF SetAlike, p, q

LEMMA FieldsSet ==
    ASSUME NEW t, DOMAIN t = ThreadFields, NEW row, DOMAIN row = RowFields, NEW e,
           e.type \in PlainTypes, FieldsFit(t, e), SameRow(t, row), SnoozeTyped(row)
    PROVE  LET u == ProjectEvent(t, e)
               w == ThreadRow(row, e)
           IN  /\ SetAlike(t, row, u, w)
               /\ SnoozeTyped(w)
               /\ u.settled = "settled" => t.settled = "settled" \/ e.type = "thread.settled"
<1>0. SetAlike(t, row, t, row)
  BY DEF SetAlike
<1>a. {"settled", "settledAt", "snoozedUntil", "snoozedAt", "archived", "title", "titleSource",
       "status"} \subseteq Plain \ {"deleted"}
  BY DEF Plain
<1>b. {"settled", "snoozedUntil", "snoozedAt"} \subseteq ThreadFields \cap RowFields
  BY DEF ThreadFields, RowFields, Plain
<1>1. CASE e.type = "thread.settled"
  <2>. DEFINE u1 == [t EXCEPT !.settled = "settled"]
              w1 == [row EXCEPT !.settled = "settled"]
              u == [u1 EXCEPT !.settledAt = e.settledAt]
              w == [w1 EXCEPT !.settledAt = e.settledAt]
  <2>1. ProjectEvent(t, e) = u /\ ThreadRow(row, e) = w
    BY <1>1 DEF ProjectEvent, ThreadRow
  <2>2. SnoozeTyped(w)
    BY <1>b DEF SnoozeTyped
  <2>. HIDE DEF u, w
  <2>3. SetAlike(t, row, u1, w1)
    BY <1>0, <1>a, FieldSet
  <2>. HIDE DEF u1, w1
  <2>4. SetAlike(t, row, u, w)
    BY <1>a, <2>3, FieldSet DEF u, w
  <2>. QED
    BY <1>1, <2>1, <2>2, <2>4
<1>2. CASE e.type = "thread.unsettled"
  <2>. DEFINE x == IF e.reason = "user" THEN "active" ELSE "none"
              u1 == [t EXCEPT !.settled = x]
              w1 == [row EXCEPT !.settled = x]
              u == [u1 EXCEPT !.settledAt = NoTime]
              w == [w1 EXCEPT !.settledAt = NoTime]
  <2>1. ProjectEvent(t, e) = u /\ ThreadRow(row, e) = w
    BY <1>2 DEF ProjectEvent, ThreadRow
  <2>0. x # "settled"
    OBVIOUS
  <2>. HIDE DEF x
  <2>2. SnoozeTyped(w) /\ u.settled = x
    BY <1>b DEF SnoozeTyped
  <2>. HIDE DEF u, w
  <2>3. SetAlike(t, row, u1, w1)
    BY <1>0, <1>a, FieldSet
  <2>. HIDE DEF u1, w1
  <2>4. SetAlike(t, row, u, w)
    BY <1>a, <2>3, FieldSet DEF u, w
  <2>. QED
    BY <2>0, <2>1, <2>2, <2>4
<1>3. CASE e.type = "thread.snoozed"
  <2>. DEFINE u1 == [t EXCEPT !.snoozedUntil = e.snoozedUntil]
              w1 == [row EXCEPT !.snoozedUntil = e.snoozedUntil]
              u == [u1 EXCEPT !.snoozedAt = e.snoozedAt]
              w == [w1 EXCEPT !.snoozedAt = e.snoozedAt]
  <2>1. ProjectEvent(t, e) = u /\ ThreadRow(row, e) = w
    BY <1>3 DEF ProjectEvent, ThreadRow
  <2>2. w.snoozedUntil = e.snoozedUntil /\ w.snoozedAt = e.snoozedAt /\ u.settled = t.settled
    BY <1>b
  <2>5. e.snoozedUntil \in Nat /\ e.snoozedAt \in Nat /\ e.snoozedAt # NoTime
    BY <1>3 DEF FieldsFit, NoTime
  <2>. HIDE DEF u, w
  <2>3. SetAlike(t, row, u1, w1)
    BY <1>0, <1>a, FieldSet
  <2>. HIDE DEF u1, w1
  <2>4. SetAlike(t, row, u, w)
    BY <1>a, <2>3, FieldSet DEF u, w
  <2>. QED
    BY <2>1, <2>2, <2>4, <2>5 DEF SnoozeTyped
<1>4. CASE e.type = "thread.unsnoozed"
  <2>. DEFINE u1 == [t EXCEPT !.snoozedUntil = NoTime]
              w1 == [row EXCEPT !.snoozedUntil = NoTime]
              u == [u1 EXCEPT !.snoozedAt = NoTime]
              w == [w1 EXCEPT !.snoozedAt = NoTime]
  <2>1. ProjectEvent(t, e) = u /\ ThreadRow(row, e) = w
    BY <1>4 DEF ProjectEvent, ThreadRow
  <2>2. w.snoozedUntil = NoTime /\ w.snoozedAt = NoTime /\ u.settled = t.settled
    BY <1>b
  <2>. HIDE DEF u, w
  <2>3. SetAlike(t, row, u1, w1)
    BY <1>0, <1>a, FieldSet
  <2>. HIDE DEF u1, w1
  <2>4. SetAlike(t, row, u, w)
    BY <1>a, <2>3, FieldSet DEF u, w
  <2>. QED
    BY <2>1, <2>2, <2>4 DEF SnoozeTyped, NoTime
<1>5. CASE e.type = "thread.terminal-status-changed"
  <2>. DEFINE u == [t EXCEPT !.status = e.status]
              w == [row EXCEPT !.status = e.status]
  <2>1. ProjectEvent(t, e) = u /\ ThreadRow(row, e) = w
    BY <1>5 DEF ProjectEvent, ThreadRow
  <2>2. SnoozeTyped(w) /\ u.settled = t.settled
    BY <1>b DEF SnoozeTyped
  <2>3. SetAlike(t, row, u, w)
    BY <1>0, <1>a, FieldSet
  <2>. QED
    BY <2>1, <2>2, <2>3
<1>6. CASE e.type = "thread.meta-updated"
  <2>1. ProjectEvent(t, e) = MetaUpdated(t, e)
    BY <1>6 DEF ProjectEvent
  <2>2. ThreadRow(row, e) =
            IF "archived" \in DOMAIN e THEN [row EXCEPT !.archived = e.archived]
            ELSE IF e.titleSource = "auto" /\ row.titleSource = "manual" THEN row
            ELSE [row EXCEPT !.title = e.title, !.titleSource = e.titleSource]
    BY <1>6 DEF ThreadRow
  <2>3. t.titleSource = row.titleSource
    BY <1>a DEF SameRow
  <2>4. CASE "archived" \in DOMAIN e
    <3>. DEFINE u == [t EXCEPT !.archived = e.archived]
                w == [row EXCEPT !.archived = e.archived]
    <3>1. ProjectEvent(t, e) = u /\ ThreadRow(row, e) = w
      BY <2>1, <2>2, <2>4 DEF MetaUpdated
    <3>2. SnoozeTyped(w) /\ u.settled = t.settled
      BY <1>b DEF SnoozeTyped
    <3>3. SetAlike(t, row, u, w)
      BY <1>0, <1>a, FieldSet
    <3>. QED
      BY <3>1, <3>2, <3>3
  <2>5. CASE "archived" \notin DOMAIN e /\ e.titleSource = "auto" /\ row.titleSource = "manual"
    <3>1. ProjectEvent(t, e) = t /\ ThreadRow(row, e) = row
      BY <2>1, <2>2, <2>3, <2>5 DEF MetaUpdated
    <3>. QED
      BY <1>0, <3>1
  <2>6. CASE "archived" \notin DOMAIN e /\ ~(e.titleSource = "auto" /\ row.titleSource = "manual")
    <3>. DEFINE u1 == [t EXCEPT !.title = e.title]
                w1 == [row EXCEPT !.title = e.title]
                u == [u1 EXCEPT !.titleSource = e.titleSource]
                w == [w1 EXCEPT !.titleSource = e.titleSource]
    <3>1. ProjectEvent(t, e) = u /\ ThreadRow(row, e) = w
      BY <2>1, <2>2, <2>3, <2>6 DEF MetaUpdated
    <3>2. SnoozeTyped(w) /\ u.settled = t.settled
      BY <1>b DEF SnoozeTyped
    <3>. HIDE DEF u, w
    <3>3. SetAlike(t, row, u1, w1)
      BY <1>0, <1>a, FieldSet
    <3>. HIDE DEF u1, w1
    <3>4. SetAlike(t, row, u, w)
      BY <1>a, <3>3, FieldSet DEF u, w
    <3>. QED
      BY <3>1, <3>2, <3>4
  <2>. QED
    BY <2>4, <2>5, <2>6
<1>. QED
  BY <1>1, <1>2, <1>3, <1>4, <1>5, <1>6 DEF PlainTypes

LEMMA FieldsStep ==
    ASSUME NEW t, NEW r, NEW n \in Nat, Agree(t, r, n), NEW e, e.type \in PlainTypes,
           FieldsFit(t, e)
    PROVE  Step(t, r, n, ProjectEvent(t, e), ProjectRows(r, e), n)
<1>. DEFINE u == ProjectEvent(t, e)
            w == ThreadRow(r.thread, e)
            v == ProjectRows(r, e)
<1>1. /\ DOMAIN t = ThreadFields /\ DOMAIN r.thread = RowFields /\ SameRow(t, r.thread)
      /\ SnoozeTyped(r.thread) /\ r.pending \in 0..n
      /\ ~t.deleted => AtRest(t)
  BY DEF Agree, ThreadTyped, RowsTyped, Mirrored
<1>2. /\ DOMAIN u = ThreadFields /\ DOMAIN w = RowFields
      /\ u.deleted = t.deleted
      /\ \A f \in ThreadFields \ Plain : u[f] = t[f]
      /\ w.lastInteractedAt = r.thread.lastInteractedAt
      /\ SameRow(u, w)
      /\ SnoozeTyped(w)
      /\ u.settled = "settled" => t.settled = "settled" \/ e.type = "thread.settled"
  BY <1>1, FieldsSet DEF SetAlike
<1>3. /\ v.messages = r.messages /\ v.activities = r.activities
      /\ v.session = r.session /\ v.turns = r.turns /\ v.thread = w /\ v.pending = r.pending
  BY ListsAside DEF PlainTypes
<1>. HIDE DEF u, v, w
<1>4. SameProgress(t, r, u, v)
  BY <1>2, <1>3 DEF SameProgress
<1>5. ASSUME ~t.deleted
      PROVE  AtRest(u)
  <2>1. u.activities = t.activities /\ u.session = t.session /\ u.turn = t.turn
    BY <1>2 DEF ThreadFields, Plain
  <2>2. CASE e.type = "thread.settled"
    <3>. DEFINE s == [t EXCEPT !.settled = "settled"]
    <3>1. AtRest(s)
      BY <2>2 DEF FieldsFit
    <3>2. /\ s.activities = t.activities /\ s.session = t.session /\ s.turn = t.turn
          /\ s.settled = "settled"
      BY <1>1 DEF ThreadFields, Plain
    <3>. HIDE DEF s
    <3>. QED
      BY <2>1, <3>1, <3>2 DEF AtRest
  <2>3. CASE e.type # "thread.settled"
    BY <1>1, <1>2, <1>5, <2>1, <2>3 DEF AtRest
  <2>. QED
    BY <2>2, <2>3
<1>. QED
  BY <1>1, <1>2, <1>3, <1>4, <1>5, PlainStep DEF u, v

-----------------------------------------------------------------------------
(* Rows of turns that are inserted or replaced.                                *)

TurnOf(row) == [id |-> row.turn, state |-> row.state, requestedAt |-> row.requestedAt,
                startedAt |-> row.startedAt, completedAt |-> row.completedAt]

LEMMA NamesAreNumbers ==
    ASSUME NEW n \in Nat
    PROVE  \A turn \in TurnNames(n) : turn \in Nat \ {0}
BY TurnsAssumption DEF TurnNames

LEMMA RowNumbers ==
    ASSUME NEW n \in Nat, NEW row \in RowType(n)
    PROVE  /\ row.turn \in Nat \ {0} /\ row.turn \in TurnNames(n)
           /\ row.requestedAt \in 1..n /\ row.startedAt \in 1..n /\ row.completedAt \in 0..n
           /\ row.pending \in 0..n /\ row.assistant \in 0..n /\ row.count \in Nat
           /\ row.state \in {"running", "completed", "interrupted"}
BY NamesAreNumbers DEF RowType, TurnStates

LEMMA LatestRow ==
    ASSUME NEW n \in Nat, NEW turns, TurnsTyped(turns, n), turns # {}
    PROVE  \E row \in turns : LatestTurn(turns) = TurnOf(row) /\ \A s \in turns : Later(row, s)
<1>1. \A row \in turns : row.requestedAt \in Nat /\ row.turn \in Nat
  BY RowNumbers DEF TurnsTyped
<1>2. PICK row \in turns : \A s \in turns : Later(row, s)
  BY <1>1, LatestExists DEF TurnsTyped
<1>3. LatestTurn(turns) = TurnOf(row)
  BY <1>1, <1>2, LatestIs DEF TurnsTyped, TurnOf
<1>. QED
  BY <1>2, <1>3

LEMMA LatestOf ==
    ASSUME NEW n \in Nat, NEW turns, TurnsTyped(turns, n), NEW row \in turns,
           \A s \in turns : Later(row, s)
    PROVE  LatestTurn(turns) = TurnOf(row)
<1>1. \A a \in turns : a.requestedAt \in Nat /\ a.turn \in Nat
  BY RowNumbers DEF TurnsTyped
<1>. QED
  BY <1>1, LatestIs DEF TurnsTyped, TurnOf

LEMMA UpsertTyped ==
    ASSUME NEW n \in Nat, NEW turns, TurnsTyped(turns, n), NEW row \in RowType(n),
           \A b \in turns : b.turn # row.turn /\ b.count = row.count => row.count = NoCount
    PROVE  TurnsTyped(Upsert(turns, row), n)
<1>. DEFINE others == {b \in turns : b.turn # row.turn}
<1>1. IsFiniteSet(others \cup {row})
  <2>1. others \in SUBSET turns
    OBVIOUS
  <2>2. IsFiniteSet(others)
    BY <2>1, FS_Subset DEF TurnsTyped
  <2>. QED
    BY <2>2, FS_AddElement
<1>2. Upsert(turns, row) = others \cup {row}
  BY DEF Upsert
<1>. QED
  BY <1>1, <1>2 DEF TurnsTyped

\* A row that is replaced keeps its place among the latest.
LEMMA LatestReplaced ==
    ASSUME NEW n \in Nat, NEW turns, TurnsTyped(turns, n), NEW old \in turns,
           NEW row \in RowType(n), TurnsTyped(Upsert(turns, row), n),
           row.turn = old.turn, row.requestedAt = old.requestedAt
    PROVE  \/ LatestTurn(Upsert(turns, row)) = LatestTurn(turns)
           \/ LatestTurn(turns) = TurnOf(old) /\ LatestTurn(Upsert(turns, row)) = TurnOf(row)
<1>1. PICK top \in turns : LatestTurn(turns) = TurnOf(top) /\ \A s \in turns : Later(top, s)
  BY LatestRow
<1>2. \A s \in Upsert(turns, row) : s \in turns \/ s = row
  BY DEF Upsert
<1>3. CASE top = old
  <2>1. \A s \in Upsert(turns, row) : Later(row, s)
    BY <1>1, <1>2, <1>3 DEF Later
  <2>2. row \in Upsert(turns, row)
    BY DEF Upsert
  <2>. QED
    BY <1>1, <1>3, <2>1, <2>2, LatestOf
<1>4. CASE top # old
  <2>1. top \in Upsert(turns, row)
    BY <1>4 DEF Upsert, TurnsTyped
  <2>2. \A s \in Upsert(turns, row) : Later(top, s)
    BY <1>1, <1>2 DEF Later
  <2>. QED
    BY <1>1, <2>1, <2>2, LatestOf
<1>. QED
  BY <1>3, <1>4

\* A row that is inserted at a new instant is the latest.
LEMMA LatestInserted ==
    ASSUME NEW n \in Nat, NEW turns, TurnsTyped(turns, n), NEW row \in RowType(n + 1),
           TurnsTyped(Upsert(turns, row), n + 1), row.requestedAt = n + 1
    PROVE  LatestTurn(Upsert(turns, row)) = TurnOf(row)
<1>1. \A s \in turns : s.requestedAt \in 1..n
  BY RowNumbers DEF TurnsTyped
<1>2. \A s \in Upsert(turns, row) : Later(row, s)
  <2>1. row.turn \in Nat
    BY RowNumbers
  <2>. QED
    BY <1>1, <2>1 DEF Upsert, Later
<1>3. row \in Upsert(turns, row)
  BY DEF Upsert
<1>. QED
  BY <1>2, <1>3, LatestOf

\* A row of a provider's turn, or one of a capture whose checkpoint stays, changes no
\* checkpoint.
LEMMA UpsertMatches ==
    ASSUME NEW n \in Nat, NEW checkpoints, NEW turns, TurnsTyped(turns, n),
           CheckpointsMatch(checkpoints, turns, n), NEW row,
           row.turn \notin 1..n => row.count = NoCount,
           row.turn \in 1..n =>
               OfCapture(row, n) /\ \E old \in turns : Made(old) = Made(row)
    PROVE  CheckpointsMatch(checkpoints, Upsert(turns, row), n)
<1>1. /\ row \in Upsert(turns, row)
      /\ \A s \in Upsert(turns, row) : s = row \/ (s \in turns /\ s.turn # row.turn)
      /\ \A s \in turns : s.turn # row.turn => s \in Upsert(turns, row)
  BY DEF Upsert
<1>2. ASSUME NEW s \in Upsert(turns, row)
      PROVE  OfCapture(s, n) /\ (s.count # NoCount => s.turn \in 1..n)
  BY <1>1 DEF CheckpointsMatch, OfCapture
<1>3. ASSUME NEW s \in Upsert(turns, row), s.count # NoCount
      PROVE  \E i \in DOMAIN checkpoints : checkpoints[i] = Made(s)
  <2>1. CASE s = row
    <3>1. PICK old \in turns : Made(old) = Made(row)
      BY <1>3, <2>1
    <3>2. old.count = row.count
      BY <3>1 DEF Made
    <3>. QED
      BY <1>3, <2>1, <3>1, <3>2 DEF CheckpointsMatch
  <2>2. CASE s # row
    BY <1>1, <1>3, <2>2 DEF CheckpointsMatch
  <2>. QED
    BY <2>1, <2>2
<1>4. ASSUME NEW i \in DOMAIN checkpoints
      PROVE  \E s \in Upsert(turns, row) : s.count = checkpoints[i].count
                                           /\ checkpoints[i].at <= s.turn
  <2>1. PICK s \in turns : s.count = checkpoints[i].count /\ checkpoints[i].at <= s.turn
    BY DEF CheckpointsMatch
  <2>2. CASE s.turn # row.turn
    BY <1>1, <2>1, <2>2
  <2>3. CASE s.turn = row.turn /\ row.turn \in 1..n
    <3>1. PICK old \in turns : Made(old) = Made(row)
      BY <2>3
    <3>2. old.turn = row.turn /\ old.count = row.count
      BY <3>1 DEF Made
    <3>3. s = old
      BY <2>3, <3>2 DEF TurnsTyped
    <3>. QED
      BY <1>1, <2>1, <2>3, <3>2, <3>3
  <2>4. CASE s.turn = row.turn /\ row.turn \notin 1..n
    <3>1. s.count = NoCount
      BY <2>4 DEF CheckpointsMatch
    <3>2. \E old \in turns : old = s
      OBVIOUS
    <3>3. s.count = row.count /\ s.turn = row.turn
      BY <2>4, <3>1
    <3>. QED
      BY <1>1, <2>1, <3>3
  <2>. QED
    BY <2>2, <2>3, <2>4
<1>. QED
  BY <1>2, <1>3, <1>4 DEF CheckpointsMatch

-----------------------------------------------------------------------------
(* Messages.                                                                   *)

LEMMA Appended ==
    ASSUME NEW X, NEW s \in Seq(X), NEW x \in X, NEW max, max \in Nat, Len(s) < max
    PROVE  /\ Append(s, x) \in Seq(X)
           /\ Newest(Append(s, x), max) = Append(s, x)
<1>1. Append(s, x) \in Seq(X) /\ Len(Append(s, x)) = Len(s) + 1 /\ Len(s) \in Nat
  OBVIOUS
<1>2. Newest(Append(s, x), max) = SubSeq(Append(s, x), 1, Len(Append(s, x)))
  <2>. DEFINE y == Append(s, x)
  <2>1. ~(Len(y) > max)
    BY <1>1
  <2>. HIDE DEF y
  <2>2. Newest(y, max) = SubSeq(y, 1, Len(y))
    BY <2>1 DEF Newest
  <2>. QED
    BY <2>2 DEF y
<1>3. \A z \in Seq(X) : SubSeq(z, 1, Len(z)) = z
  OBVIOUS
<1>. QED
  BY <1>1, <1>2, <1>3

Room(t) ==
    /\ Len(t.messages) < MaxMessages
    /\ Len(t.checkpoints) < MaxCheckpoints
    /\ Len(t.activities) < MaxActivities

LEMMA Caps == MaxMessages \in Nat /\ MaxCheckpoints \in Nat /\ MaxActivities \in Nat
BY CapsAssumption

\* Each message has an instant of its own, so it is appended on both sides.
LEMMA MessageAppended ==
    ASSUME NEW t, NEW r, NEW n \in Nat, Agree(t, r, n), Room(t), NEW e,
           e.type = "thread.message-sent", e.message \in Messages(n + 1), e.message.id = n + 1
    PROVE  /\ ProjectEvent(t, e) = [t EXCEPT !.messages = Append(t.messages, e.message)]
           /\ Append(t.messages, e.message) \in Seq(Messages(n + 1))
           /\ MessageRows(r, e) = Append(r.messages, e.message)
           /\ Append(r.messages, e.message) \in Seq(Messages(n + 1))
<1>1. /\ t.messages \in Seq(Messages(n)) /\ r.messages \in Seq(Messages(n))
      /\ t.messages \in Seq(Messages(n + 1)) /\ r.messages \in Seq(Messages(n + 1))
  BY TypesGrow DEF Agree, ThreadTyped, RowsTyped
<1>2. \A s \in Seq(Messages(n)) : \A i \in DOMAIN s : s[i].id # e.message.id
  <2>1. \A s \in Seq(Messages(n)) : \A i \in DOMAIN s : s[i] \in Messages(n)
    OBVIOUS
  <2>2. \A m \in Messages(n) : m.id \in 1..n
    BY DEF Messages
  <2>. QED
    BY <2>1, <2>2
<1>3. {i \in DOMAIN t.messages : t.messages[i].id = e.message.id} = {}
      /\ {i \in DOMAIN r.messages : r.messages[i].id = e.message.id} = {}
  BY <1>1, <1>2
<1>4. ProjectEvent(t, e) = MessageSent(t, e)
  BY DEF ProjectEvent
<1>5. MessageSent(t, e) =
        [t EXCEPT !.messages = Newest(Append(t.messages, e.message), MaxMessages)]
  BY <1>3 DEF MessageSent
<1>6. Append(t.messages, e.message) \in Seq(Messages(n + 1))
      /\ Newest(Append(t.messages, e.message), MaxMessages) = Append(t.messages, e.message)
  <2>. DEFINE l == t.messages
  <2>1. l \in Seq(Messages(n + 1)) /\ Len(l) < MaxMessages /\ MaxMessages \in Nat
    BY <1>1, Caps DEF Room
  <2>. HIDE DEF l
  <2>2. Append(l, e.message) \in Seq(Messages(n + 1))
        /\ Newest(Append(l, e.message), MaxMessages) = Append(l, e.message)
    BY <2>1, Appended
  <2>. QED
    BY <2>2 DEF l
<1>7. MessageRows(r, e) = Append(r.messages, e.message)
  BY <1>3 DEF MessageRows
<1>8. Append(r.messages, e.message) \in Seq(Messages(n + 1))
  BY <1>1
<1>. QED
  BY <1>4, <1>5, <1>6, <1>7, <1>8

LEMMA MessageElsewhere ==
    ASSUME NEW r, NEW e, e.type = "thread.message-sent"
    PROVE  LET v == ProjectRows(r, e)
           IN  /\ v.messages = MessageRows(r, e)
               /\ v.activities = r.activities /\ v.session = r.session
               /\ v.thread = r.thread /\ v.pending = r.pending
               /\ v.turns = IF e.message.role = "assistant" /\ e.message.turn # NoTurnId
                            THEN Upsert(r.turns, AnsweredTurn(r, e)) ELSE r.turns
<1>1. /\ ActivityRows(r, e) = r.activities
      /\ SessionRow(r, e) = r.session
      /\ ThreadRow(r.thread, e) = r.thread
      /\ PendingRow(r, e) = r.pending
  BY DEF ActivityRows, SessionRow, ThreadRow, PendingRow
<1>2. TurnRows(r, e) = IF e.message.role = "assistant" /\ e.message.turn # NoTurnId
                       THEN Upsert(r.turns, AnsweredTurn(r, e)) ELSE r.turns
  BY DEF TurnRows
<1>. QED
  BY <1>1, <1>2 DEF ProjectRows

LEMMA UserMessageStep ==
    ASSUME NEW t, NEW r, NEW n \in Nat, n < MaxNow, Agree(t, r, n), Room(t), NEW e,
           e.type = "thread.message-sent", e.message \in Messages(n + 1), e.message.id = n + 1,
           e.message.role = "user"
    PROVE  Step(t, r, n, ProjectEvent(t, e), ProjectRows(r, e), n + 1)
<1>. DEFINE u == ProjectEvent(t, e)
            v == ProjectRows(r, e)
            s == Append(t.messages, e.message)
            z == Append(r.messages, e.message)
<1>1. u = [t EXCEPT !.messages = s] /\ s \in Seq(Messages(n + 1))
      /\ z \in Seq(Messages(n + 1))
      /\ v.messages = z /\ v.activities = r.activities /\ v.session = r.session
      /\ v.thread = r.thread /\ v.pending = r.pending /\ v.turns = r.turns
  BY MessageAppended, MessageElsewhere
<1>2. Step(t, r, n, t, r, n + 1)
  BY TimePasses
<1>3. DOMAIN t = ThreadFields /\ Agree(t, r, n + 1)
  BY <1>2 DEF Step, Agree, ThreadTyped
<1>4. ~t.deleted => s = z
  BY DEF Agree, Mirrored, SameLists
<1>. HIDE DEF u, v, s, z
<1>5. /\ DOMAIN u = ThreadFields /\ u.messages = s
      /\ \A f \in ThreadFields \ {"messages"} : u[f] = t[f]
  BY <1>1, <1>3 DEF ThreadFields
<1>6. /\ u.turn = t.turn /\ u.activities = t.activities /\ u.checkpoints = t.checkpoints
      /\ u.session = t.session /\ u.lastInteractedAt = t.lastInteractedAt
      /\ u.deleted = t.deleted /\ u.settled = t.settled
  BY <1>5 DEF ThreadFields, Plain
<1>7. SameRow(u, v.thread)
  BY <1>1, <1>3, <1>5 DEF SameRow, Agree, Plain, ThreadFields
<1>8. ThreadTyped(u, n + 1)
  BY <1>1, <1>3, <1>5, <1>6 DEF Agree, ThreadTyped
<1>9. RowsTyped(v, n + 1)
  BY <1>1, <1>3 DEF Agree, RowsTyped
<1>10. ASSUME ~u.deleted PROVE Mirrored(u, v, n + 1)
  BY <1>1, <1>3, <1>4, <1>5, <1>6, <1>10 DEF Agree, Mirrored, SameLists, AtRest
<1>11. ASSUME CapturesOnly(t, r, n + 1) PROVE CapturesOnly(u, v, n + 1)
  <2>1. CapturedInOrder(u) = CapturedInOrder(t)
    BY <1>6 DEF CapturedInOrder
  <2>. QED
    BY <1>1, <1>6, <1>11, <2>1 DEF CapturesOnly
<1>12. Step(t, r, n + 1, u, v, n + 1)
  BY <1>6, <1>7, <1>8, <1>9, <1>10, <1>11 DEF Agree, Step
<1>. QED
  BY <1>2, <1>12, StepsCompose DEF u, v

-----------------------------------------------------------------------------
(* Turns that a session starts, an answer ends or a user interrupts.           *)

LEMMA KnownRow ==
    ASSUME NEW r, NEW id, Known(r, id)
    PROVE  RowOf(r, id) \in r.turns /\ RowOf(r, id).turn = id
BY DEF Known, RowOf

\* A row that keeps its name, count and request, and loses no instant.
LEMMA RowReplaced ==
    ASSUME NEW n \in Nat, NEW turns, TurnsTyped(turns, n), NEW old \in turns,
           NEW row \in RowType(n), row.turn = old.turn, row.requestedAt = old.requestedAt,
           row.count = old.count
    PROVE  /\ TurnsTyped(Upsert(turns, row), n)
           /\ \A turn : /\ TurnsMatch(turn, turns)
                        /\ row.startedAt >= old.startedAt
                        /\ row.completedAt >= old.completedAt
                        /\ old.state # "running" => row.state # "running"
                        /\ turn \in TurnType(n)
                        => TurnsMatch(turn, Upsert(turns, row))
<1>1. \A b \in turns : b.turn # row.turn /\ b.count = row.count => row.count = NoCount
  BY DEF TurnsTyped
<1>2. TurnsTyped(Upsert(turns, row), n)
  BY <1>1, UpsertTyped
<1>3. ASSUME NEW turn \in TurnType(n), TurnsMatch(turn, turns),
             row.startedAt >= old.startedAt, row.completedAt >= old.completedAt,
             old.state # "running" => row.state # "running"
      PROVE  TurnsMatch(turn, Upsert(turns, row))
  <2>1. turn # NoTurn => \E s \in Upsert(turns, row) : s.turn = turn.id
    BY <1>3 DEF TurnsMatch, Upsert
  <2>2. ASSUME turn.state # "running", LatestTurn(turns) = TurnOf(old),
               LatestTurn(Upsert(turns, row)) = TurnOf(row)
        PROVE  /\ LatestTurn(Upsert(turns, row)).state # "running"
               /\ \A x \in Times(turn) : \E y \in Times(LatestTurn(Upsert(turns, row))) : x <= y
    <3>1. TurnOf(old).state # "running" /\ \A x \in Times(turn) : \E y \in Times(TurnOf(old)) : x <= y
      BY <1>3, <2>2 DEF TurnsMatch
    <3>2. row.state # "running"
      BY <1>3, <3>1 DEF TurnOf
    <3>3. ASSUME NEW x \in Times(turn)
          PROVE  \E y \in Times(TurnOf(row)) : x <= y
      <4>1. PICK y \in Times(TurnOf(old)) : x <= y
        BY <3>1
      <4>2. y \in {old.requestedAt, old.startedAt, old.completedAt}
        BY <4>1 DEF Times, TurnOf
      <4>3. Times(TurnOf(row)) = {row.requestedAt, row.startedAt, row.completedAt}
        BY DEF Times, TurnOf
      <4>4. /\ old.requestedAt \in Nat /\ old.startedAt \in Nat /\ old.completedAt \in Nat
            /\ row.requestedAt \in Nat /\ row.startedAt \in Nat /\ row.completedAt \in Nat
        BY RowNumbers DEF TurnsTyped
      <4>5. x \in Nat
        BY DEF Times, TurnType
      <4>. QED
        BY <1>3, <4>1, <4>2, <4>3, <4>4, <4>5
    <3>. QED
      BY <2>2, <3>2, <3>3 DEF TurnOf
  <2>3. ASSUME turn.state # "running"
        PROVE  /\ LatestTurn(Upsert(turns, row)).state # "running"
               /\ \A x \in Times(turn) : \E y \in Times(LatestTurn(Upsert(turns, row))) : x <= y
    <3>1. \/ LatestTurn(Upsert(turns, row)) = LatestTurn(turns)
          \/ LatestTurn(turns) = TurnOf(old) /\ LatestTurn(Upsert(turns, row)) = TurnOf(row)
      BY <1>2, LatestReplaced
    <3>. QED
      BY <1>3, <2>2, <2>3, <3>1 DEF TurnsMatch
  <2>. QED
    BY <2>1, <2>3 DEF TurnsMatch
<1>. QED
  BY <1>2, <1>3

\* A new row without a count.
LEMMA RowInserted ==
    ASSUME NEW n \in Nat, NEW turns, TurnsTyped(turns, n), NEW row \in RowType(n + 1),
           row.count = NoCount, TurnsTyped(turns, n + 1)
    PROVE  /\ TurnsTyped(Upsert(turns, row), n + 1)
           /\ \A turn \in TurnType(n) :
                 TurnsMatch(turn, turns) /\ row.requestedAt = n + 1 /\ row.state # "running"
                     => TurnsMatch(turn, Upsert(turns, row))
<1>1. TurnsTyped(Upsert(turns, row), n + 1)
  <2>1. n + 1 \in Nat
    OBVIOUS
  <2>. QED
    BY <2>1, UpsertTyped
<1>2. ASSUME NEW turn \in TurnType(n), TurnsMatch(turn, turns), row.requestedAt = n + 1,
             row.state # "running"
      PROVE  TurnsMatch(turn, Upsert(turns, row))
  <2>1. turn # NoTurn => \E s \in Upsert(turns, row) : s.turn = turn.id
    BY <1>2 DEF TurnsMatch, Upsert
  <2>2. LatestTurn(Upsert(turns, row)) = TurnOf(row)
    BY <1>1, <1>2, LatestInserted
  <2>3. TurnOf(row).state # "running" /\ n + 1 \in Times(TurnOf(row))
    BY <1>2 DEF TurnOf, Times
  <2>4. \A x \in Times(turn) : x <= n + 1
    BY DEF Times, TurnType
  <2>. QED
    BY <2>1, <2>2, <2>3, <2>4 DEF TurnsMatch
<1>. QED
  BY <1>1, <1>2

\* The row of an answer.
LEMMA AnsweredRow ==
    ASSUME NEW r, NEW n \in Nat, n < MaxNow, TurnsTyped(r.turns, n), NEW e,
           e.message \in Messages(n + 1), e.message.id = n + 1, e.message.at = n + 1,
           e.message.turn \in ProviderTurns
    PROVE  LET row == AnsweredTurn(r, e)
           IN  /\ row \in RowType(n + 1) /\ row.turn = e.message.turn
               /\ row.state # "running"
               /\ \/ /\ row.count = NoCount /\ row.requestedAt = n + 1
                     /\ \A s \in r.turns : s.turn # row.turn
                  \/ \E old \in r.turns : /\ row.turn = old.turn /\ row.count = old.count
                                          /\ row.requestedAt = old.requestedAt
                                          /\ row.startedAt >= old.startedAt
                                          /\ row.completedAt >= old.completedAt
<1>. DEFINE row == AnsweredTurn(r, e)
            id == e.message.turn
<1>1. id \in TurnNames(n + 1)
  BY DEF TurnNames
<1>2. n + 1 \in 1..(n + 1) /\ n + 1 \in 0..(n + 1) /\ 0 \in 0..(n + 1)
  OBVIOUS
<1>3. CASE ~Known(r, id)
  <2>1. row = TurnRow(id, NoMessage, n + 1, "completed", n + 1, n + 1, n + 1, NoCount)
    BY <1>3 DEF AnsweredTurn
  <2>2. row \in RowType(n + 1)
    BY <1>1, <1>2, <2>1 DEF RowType, TurnRow, TurnStates, NoMessage, NoCount
  <2>3. row.turn = id /\ row.state = "completed" /\ row.count = NoCount
        /\ row.requestedAt = n + 1
    BY <2>1 DEF TurnRow
  <2>. QED
    BY <1>3, <2>2, <2>3 DEF Known
<1>4. CASE Known(r, id)
  <2>. DEFINE old == RowOf(r, id)
  <2>1. old \in r.turns /\ old.turn = id /\ old \in RowType(n)
    BY <1>4, KnownRow DEF TurnsTyped
  <2>2. /\ old.startedAt \in 1..n /\ old.requestedAt \in 1..n /\ old.completedAt \in 0..n
        /\ old.state \in {"running", "completed", "interrupted"}
    BY <2>1, RowNumbers
  <2>. DEFINE state == IF old.state \in {"interrupted", "error"} THEN old.state ELSE "completed"
              completed == IF old.completedAt = 0 THEN n + 1 ELSE old.completedAt
  <2>3. row = [old EXCEPT !.assistant = n + 1, !.state = state, !.completedAt = completed,
                          !.startedAt = old.startedAt, !.requestedAt = old.requestedAt]
    <3>1. row = [old EXCEPT !.assistant = n + 1, !.state = state,
                            !.completedAt = Or(old.completedAt, n + 1),
                            !.startedAt = Or(old.startedAt, n + 1),
                            !.requestedAt = Or(old.requestedAt, n + 1)]
      BY <1>4 DEF AnsweredTurn
    <3>2. /\ Or(old.completedAt, n + 1) = completed
          /\ Or(old.startedAt, n + 1) = old.startedAt
          /\ Or(old.requestedAt, n + 1) = old.requestedAt
      BY <2>2 DEF Or
    <3>. QED
      BY <3>1, <3>2
  <2>4. state \in {"completed", "interrupted"} /\ completed \in 0..(n + 1)
        /\ completed >= old.completedAt
    BY <2>2
  <2>. HIDE DEF old, state, completed
  <2>5. old \in RowType(n + 1)
    BY <2>1, TypesGrow
  <2>6. row \in RowType(n + 1)
    BY <1>2, <2>2, <2>3, <2>4, <2>5 DEF RowType, TurnStates
  <2>7. /\ row.turn = id /\ row.state = state /\ row.count = old.count
        /\ row.requestedAt = old.requestedAt /\ row.startedAt = old.startedAt
        /\ row.completedAt = completed
    BY <2>1, <2>3 DEF RowType
  <2>. QED
    BY <2>1, <2>2, <2>4, <2>6, <2>7
<1>. QED
  BY <1>3, <1>4

LEMMA ProviderRow ==
    ASSUME NEW t, NEW r, NEW n \in Nat, n < MaxNow, Agree(t, r, n + 1), TurnsTyped(r.turns, n),
           NEW row \in RowType(n + 1), row.turn \in ProviderTurns,
           \/ row.count = NoCount
           \/ \E old \in r.turns : /\ row.turn = old.turn /\ row.count = old.count
                                   /\ row.requestedAt = old.requestedAt
    PROVE  /\ TurnsTyped(Upsert(r.turns, row), n + 1)
           /\ ~t.deleted => CheckpointsMatch(t.checkpoints, Upsert(r.turns, row), n + 1)
<1>0. TurnsTyped(r.turns, n + 1) /\ n + 1 \in Nat
  BY DEF Agree, RowsTyped
<1>1. TurnsTyped(Upsert(r.turns, row), n + 1)
  <2>1. CASE row.count = NoCount
    BY <1>0, <2>1, RowInserted
  <2>2. CASE \E old \in r.turns : /\ row.turn = old.turn /\ row.count = old.count
                                  /\ row.requestedAt = old.requestedAt
    BY <1>0, <2>2, RowReplaced
  <2>. QED
    BY <2>1, <2>2
<1>2. row.turn \notin 1..(n + 1)
  BY TurnsAssumption
<1>3. ASSUME ~t.deleted
      PROVE  CheckpointsMatch(t.checkpoints, Upsert(r.turns, row), n + 1)
  <2>1. CheckpointsMatch(t.checkpoints, r.turns, n + 1)
    BY <1>3 DEF Agree, Mirrored
  <2>2. row.count = NoCount
    BY <1>2, <2>1 DEF CheckpointsMatch
  <2>. QED
    BY <1>0, <1>2, <2>1, <2>2, UpsertMatches
<1>. QED
  BY <1>1, <1>3

\* An assistant's message ends its turn in the tables alone.
LEMMA AnswerAgrees ==
    ASSUME NEW t, NEW r, NEW n \in Nat, n < MaxNow, Agree(t, r, n), Room(t), NEW e,
           e.type = "thread.message-sent", e.message \in Messages(n + 1), e.message.id = n + 1,
           e.message.at = n + 1, e.message.role = "assistant",
           e.message.turn \in ProviderTurns
    PROVE  /\ Agree(ProjectEvent(t, e), ProjectRows(r, e), n + 1)
           /\ ProjectEvent(t, e).deleted = t.deleted
<1>. DEFINE u == ProjectEvent(t, e)
            v == ProjectRows(r, e)
            s == Append(t.messages, e.message)
            z == Append(r.messages, e.message)
            row == AnsweredTurn(r, e)
<1>0. e.message.turn # NoTurnId
  BY TurnsAssumption DEF NoTurnId
<1>1. u = [t EXCEPT !.messages = s] /\ s \in Seq(Messages(n + 1))
      /\ z \in Seq(Messages(n + 1))
      /\ v.messages = z /\ v.activities = r.activities /\ v.session = r.session
      /\ v.thread = r.thread /\ v.pending = r.pending /\ v.turns = Upsert(r.turns, row)
  BY <1>0, MessageAppended, MessageElsewhere
<1>2. Agree(t, r, n + 1) /\ TurnsTyped(r.turns, n)
  BY TimePasses DEF Step, Agree, RowsTyped
<1>3. DOMAIN t = ThreadFields /\ t.turn \in TurnType(n)
  BY DEF Agree, ThreadTyped, TurnTyped
<1>4. ~t.deleted => s = z
  BY DEF Agree, Mirrored, SameLists
<1>5. /\ row \in RowType(n + 1) /\ row.turn = e.message.turn
      /\ row.state # "running"
      /\ \/ /\ row.count = NoCount /\ row.requestedAt = n + 1
            /\ \A a \in r.turns : a.turn # row.turn
         \/ \E old \in r.turns : /\ row.turn = old.turn /\ row.count = old.count
                                 /\ row.requestedAt = old.requestedAt
                                 /\ row.startedAt >= old.startedAt
                                 /\ row.completedAt >= old.completedAt
  BY <1>2, AnsweredRow
<1>. HIDE DEF u, v, s, z, row
<1>6. /\ TurnsTyped(Upsert(r.turns, row), n + 1)
      /\ ~t.deleted => CheckpointsMatch(t.checkpoints, Upsert(r.turns, row), n + 1)
  BY <1>2, <1>5, ProviderRow
<1>7. ASSUME ~t.deleted
      PROVE  TurnsMatch(t.turn, Upsert(r.turns, row))
  <2>1. TurnsMatch(t.turn, r.turns) /\ t.turn \in TurnType(n + 1) /\ n + 1 \in Nat
        /\ TurnsTyped(r.turns, n + 1)
    BY <1>2, <1>7 DEF Agree, Mirrored, ThreadTyped, TurnTyped, RowsTyped
  <2>2. CASE row.count = NoCount /\ row.requestedAt = n + 1
    BY <1>2, <1>3, <1>5, <2>1, <2>2, RowInserted
  <2>3. CASE \E old \in r.turns : /\ row.turn = old.turn /\ row.count = old.count
                                  /\ row.requestedAt = old.requestedAt
                                  /\ row.startedAt >= old.startedAt
                                  /\ row.completedAt >= old.completedAt
    BY <1>5, <2>1, <2>3, RowReplaced
  <2>. QED
    BY <1>5, <2>2, <2>3
<1>8. /\ DOMAIN u = ThreadFields /\ u.messages = s
      /\ \A f \in ThreadFields \ {"messages"} : u[f] = t[f]
  BY <1>1, <1>3 DEF ThreadFields
<1>9. /\ u.turn = t.turn /\ u.activities = t.activities /\ u.checkpoints = t.checkpoints
      /\ u.session = t.session /\ u.deleted = t.deleted /\ u.settled = t.settled
  BY <1>8 DEF ThreadFields, Plain
<1>10. SameRow(u, v.thread)
  BY <1>1, <1>2, <1>8 DEF SameRow, Agree, Plain, ThreadFields
<1>11. ThreadTyped(u, n + 1)
  BY <1>1, <1>2, <1>8, <1>9 DEF Agree, ThreadTyped
<1>12. RowsTyped(v, n + 1)
  BY <1>1, <1>2, <1>6 DEF Agree, RowsTyped
<1>13. ASSUME ~u.deleted PROVE Mirrored(u, v, n + 1)
  BY <1>1, <1>2, <1>4, <1>6, <1>7, <1>8, <1>9, <1>13 DEF Agree, Mirrored, SameLists, AtRest
<1>. QED
  BY <1>9, <1>10, <1>11, <1>12, <1>13 DEF Agree, u, v

\* The row of a turn that a session runs.
LEMMA RunningRow ==
    ASSUME NEW r, NEW n \in Nat, n < MaxNow, TurnsTyped(r.turns, n), r.pending \in 0..n, NEW e,
           e.at = n + 1, e.turn \in ProviderTurns
    PROVE  LET row == RunningTurn(r, e)
           IN  /\ row \in RowType(n + 1) /\ row.turn = e.turn
               /\ \/ row.count = NoCount
                  \/ \E old \in r.turns : /\ row.turn = old.turn /\ row.count = old.count
                                          /\ row.requestedAt = old.requestedAt
<1>. DEFINE row == RunningTurn(r, e)
            id == e.turn
            since == PendingSince(r, e)
<1>1. id \in TurnNames(n + 1)
  BY DEF TurnNames
<1>2. since \in 1..(n + 1) /\ 0 \in 0..(n + 1) /\ r.pending \in 0..(n + 1)
  BY DEF PendingSince, Or
<1>3. CASE ~Known(r, id)
  <2>1. row = TurnRow(id, r.pending, NoMessage, "running", since, since, NoTime, NoCount)
    BY <1>3 DEF RunningTurn
  <2>. HIDE DEF since
  <2>2. row \in RowType(n + 1)
    BY <1>1, <1>2, <2>1 DEF RowType, TurnRow, TurnStates, NoMessage, NoCount, NoTime
  <2>3. row.turn = id /\ row.count = NoCount
    BY <2>1 DEF TurnRow
  <2>. QED
    BY <2>2, <2>3
<1>4. CASE Known(r, id)
  <2>. DEFINE old == RowOf(r, id)
  <2>1. old \in r.turns /\ old.turn = id /\ old \in RowType(n)
    BY <1>4, KnownRow DEF TurnsTyped
  <2>2. /\ old.startedAt \in 1..n /\ old.requestedAt \in 1..n /\ old.pending \in 0..n
        /\ old.state \in {"running", "completed", "interrupted"}
    BY <2>1, RowNumbers
  <2>. DEFINE state == IF old.state \in {"completed", "error"} THEN old.state ELSE "running"
              pending == Or(old.pending, r.pending)
  <2>3. row = [old EXCEPT !.state = state, !.pending = pending,
                          !.startedAt = old.startedAt, !.requestedAt = old.requestedAt]
    <3>1. row = [old EXCEPT !.state = state, !.pending = pending,
                            !.startedAt = Or(old.startedAt, since),
                            !.requestedAt = Or(old.requestedAt, since)]
      BY <1>4 DEF RunningTurn
    <3>2. /\ Or(old.startedAt, since) = old.startedAt
          /\ Or(old.requestedAt, since) = old.requestedAt
      BY <2>2 DEF Or
    <3>. QED
      BY <3>1, <3>2
  <2>4. state \in {"completed", "running"} /\ pending \in 0..(n + 1)
    BY <1>2, <2>2 DEF Or
  <2>. HIDE DEF old, state, pending
  <2>5. old \in RowType(n + 1)
    BY <2>1, TypesGrow
  <2>6. row \in RowType(n + 1)
    BY <1>2, <2>2, <2>3, <2>4, <2>5 DEF RowType, TurnStates
  <2>7. row.turn = id /\ row.count = old.count /\ row.requestedAt = old.requestedAt
    BY <2>1, <2>3 DEF RowType
  <2>. QED
    BY <2>1, <2>6, <2>7
<1>. QED
  BY <1>3, <1>4

\* What a session's report changes on both sides.
LEMMA SessionChanges ==
    ASSUME NEW t, DOMAIN t = ThreadFields, NEW r, NEW e, e.type = "thread.session-set",
           (e.session = "running") = (e.turn # NoTurnId)
    PROVE  LET u == ProjectEvent(t, e)
               v == ProjectRows(r, e)
               known == t.turn.id = e.turn
           IN  /\ DOMAIN u = ThreadFields
               /\ u.session = [status |-> e.session, at |-> e.at]
               /\ \A f \in ThreadFields \ {"session", "turn", "lastInteractedAt"} : u[f] = t[f]
               /\ u.turn = IF e.session = "running"
                           THEN [id |-> e.turn, state |-> "running",
                                 requestedAt |-> IF known THEN t.turn.requestedAt ELSE e.at,
                                 startedAt |-> IF known /\ t.turn.startedAt # NoTime
                                               THEN t.turn.startedAt ELSE e.at,
                                 completedAt |-> NoTime]
                           ELSE t.turn
               /\ v.messages = r.messages /\ v.activities = r.activities
               /\ v.session = [status |-> e.session, at |-> e.at]
               /\ v.pending = IF e.session = "running" THEN NoMessage ELSE r.pending
               /\ v.turns = IF e.session = "running" THEN Upsert(r.turns, RunningTurn(r, e))
                            ELSE r.turns
               /\ v.thread = ThreadRow(r.thread, e)
<1>. DEFINE u == ProjectEvent(t, e)
            v == ProjectRows(r, e)
            known == t.turn.id = e.turn
            begins == e.session = "running" /\ e.turn # NoTurnId
            running == [id |-> e.turn, state |-> "running",
                        requestedAt |-> IF known THEN t.turn.requestedAt ELSE e.at,
                        startedAt |-> IF known /\ t.turn.startedAt # NoTime
                                      THEN t.turn.startedAt ELSE e.at,
                        completedAt |-> NoTime]
            turn == IF begins THEN running ELSE t.turn
            since == IF begins /\ ~known THEN e.at ELSE t.lastInteractedAt
<1>1. u = SessionSet(t, e)
  BY DEF ProjectEvent
<1>2. SessionSet(t, e) =
        [t EXCEPT !.session = [status |-> e.session, at |-> e.at], !.turn = turn, !.lastInteractedAt = since]
  BY DEF SessionSet
<1>3. /\ MessageRows(r, e) = r.messages /\ ActivityRows(r, e) = r.activities
      /\ SessionRow(r, e) = [status |-> e.session, at |-> e.at]
  BY DEF MessageRows, ActivityRows, SessionRow
<1>4. PendingRow(r, e) = IF begins THEN NoMessage ELSE r.pending
  BY DEF PendingRow
<1>5. TurnRows(r, e) = IF begins THEN Upsert(r.turns, RunningTurn(r, e)) ELSE r.turns
  BY DEF TurnRows
<1>6. begins = (e.session = "running")
  OBVIOUS
<1>7. turn = IF e.session = "running" THEN running ELSE t.turn
  BY <1>6
<1>8. /\ v.messages = r.messages /\ v.activities = r.activities /\ v.session = [status |-> e.session, at |-> e.at]
      /\ v.thread = ThreadRow(r.thread, e) /\ v.pending = PendingRow(r, e)
      /\ v.turns = TurnRows(r, e)
  BY <1>3 DEF ProjectRows
<1>. HIDE DEF turn, since, running, begins
<1>9. /\ DOMAIN u = ThreadFields /\ u.session = [status |-> e.session, at |-> e.at] /\ u.turn = turn
      /\ \A f \in ThreadFields \ {"session", "turn", "lastInteractedAt"} : u[f] = t[f]
  BY <1>1, <1>2 DEF ThreadFields
<1>. QED
  BY <1>4, <1>5, <1>6, <1>7, <1>8, <1>9 DEF running

LEMMA SessionAgrees ==
    ASSUME NEW t, NEW r, NEW n \in Nat, n < MaxNow, Agree(t, r, n), NEW e,
           e.type = "thread.session-set", e.at = n + 1,
           e.turn \in {NoTurnId} \cup ProviderTurns,
           (e.session = "running") = (e.turn # NoTurnId),
           e.session \in {"starting", "running"} => t.settled # "settled"
    PROVE  /\ Agree(ProjectEvent(t, e), ProjectRows(r, e), n + 1)
           /\ ProjectEvent(t, e).deleted = t.deleted
<1>. DEFINE u == ProjectEvent(t, e)
            v == ProjectRows(r, e)
            row == RunningTurn(r, e)
            known == t.turn.id = e.turn
            running == [id |-> e.turn, state |-> "running",
                        requestedAt |-> IF known THEN t.turn.requestedAt ELSE e.at,
                        startedAt |-> IF known /\ t.turn.startedAt # NoTime
                                      THEN t.turn.startedAt ELSE e.at,
                        completedAt |-> NoTime]
<1>1. Agree(t, r, n + 1) /\ TurnsTyped(r.turns, n) /\ r.pending \in 0..n /\ t.turn \in TurnType(n)
  BY TimePasses DEF Step, Agree, RowsTyped, ThreadTyped, TurnTyped
<1>2. DOMAIN t = ThreadFields /\ DOMAIN r.thread = RowFields
  BY DEF Agree, ThreadTyped, RowsTyped
<1>3. /\ DOMAIN u = ThreadFields
      /\ u.session = [status |-> e.session, at |-> e.at]
      /\ \A f \in ThreadFields \ {"session", "turn", "lastInteractedAt"} : u[f] = t[f]
      /\ u.turn = IF e.session = "running" THEN running ELSE t.turn
      /\ v.messages = r.messages /\ v.activities = r.activities
      /\ v.session = [status |-> e.session, at |-> e.at]
      /\ v.pending = IF e.session = "running" THEN NoMessage ELSE r.pending
      /\ v.turns = IF e.session = "running" THEN Upsert(r.turns, row) ELSE r.turns
      /\ v.thread = ThreadRow(r.thread, e)
  BY <1>2, SessionChanges
<1>4. /\ u.messages = t.messages /\ u.activities = t.activities
      /\ u.checkpoints = t.checkpoints /\ u.deleted = t.deleted /\ u.settled = t.settled
  BY <1>3 DEF ThreadFields, Plain
<1>5. /\ DOMAIN v.thread = RowFields
      /\ \A f \in Plain : v.thread[f] = r.thread[f]
  <2>. DEFINE since == IF e.session = "running" /\ e.turn \notin {NoTurnId, r.thread.latestTurn}
                       THEN e.at ELSE r.thread.lastInteractedAt
  <2>1. v.thread = [r.thread EXCEPT !.latestTurn = e.turn, !.lastInteractedAt = since]
    BY <1>3 DEF ThreadRow
  <2>. HIDE DEF since
  <2>2. Plain \subseteq RowFields \ {"latestTurn", "lastInteractedAt"}
    BY DEF Plain, RowFields
  <2>. QED
    BY <1>2, <2>1, <2>2
<1>6. e.session = "running" => running \in TurnType(n + 1) /\ e.turn \in ProviderTurns
  <2>1. ASSUME e.session = "running"
        PROVE  e.turn \in ProviderTurns
    BY <2>1
  <2>2. n + 1 \in 0..(n + 1) /\ 0 \in 0..(n + 1) /\ 0..n \subseteq 0..(n + 1)
    OBVIOUS
  <2>3. ASSUME e.turn \in ProviderTurns
        PROVE  running \in TurnType(n + 1)
    <3>1. t.turn.requestedAt \in 0..(n + 1) /\ t.turn.startedAt \in 0..(n + 1)
      BY <1>1, <2>2 DEF TurnType
    <3>2. e.turn \in TurnNames(n + 1)
      BY <2>3 DEF TurnNames
    <3>. QED
      BY <2>2, <3>1, <3>2 DEF TurnType, TurnStates, NoTime
  <2>. QED
    BY <2>1, <2>3
<1>7. e.session = "running" => e.turn # NoTurnId
  OBVIOUS
<1>. HIDE DEF u, v, row
<1>8. e.session = "running" =>
        /\ TurnsTyped(Upsert(r.turns, row), n + 1)
        /\ ~t.deleted => CheckpointsMatch(t.checkpoints, Upsert(r.turns, row), n + 1)
        /\ row.turn = e.turn
  <2>1. ASSUME e.session = "running"
        PROVE  /\ row \in RowType(n + 1) /\ row.turn = e.turn
               /\ \/ row.count = NoCount
                  \/ \E old \in r.turns : /\ row.turn = old.turn /\ row.count = old.count
                                          /\ row.requestedAt = old.requestedAt
    BY <1>1, <1>6, <2>1, RunningRow DEF row
  <2>2. ASSUME e.session = "running"
        PROVE  /\ TurnsTyped(Upsert(r.turns, row), n + 1)
               /\ ~t.deleted => CheckpointsMatch(t.checkpoints, Upsert(r.turns, row), n + 1)
    BY <1>1, <1>6, <2>1, <2>2, ProviderRow
  <2>. QED
    BY <2>1, <2>2
<1>9. ThreadTyped(u, n + 1)
  <2>1. TurnTyped(u.turn, n + 1)
    <3>1. CASE e.session = "running"
      <4>1. u.turn = running /\ running.id = e.turn
        BY <1>3, <3>1
      <4>. HIDE DEF running
      <4>. QED
        BY <1>6, <1>7, <3>1, <4>1 DEF TurnTyped
    <3>2. CASE e.session # "running"
      BY <1>1, <1>3, <3>2 DEF Agree, ThreadTyped
    <3>. QED
      BY <3>1, <3>2
  <2>. QED
    BY <1>1, <1>3, <1>4, <2>1 DEF Agree, ThreadTyped
<1>10. RowsTyped(v, n + 1)
  <2>1. v.pending \in 0..(n + 1)
    BY <1>1, <1>3 DEF NoMessage
  <2>2. TurnsTyped(v.turns, n + 1)
    BY <1>1, <1>3, <1>8 DEF Agree, RowsTyped
  <2>3. SnoozeTyped(v.thread)
    BY <1>1, <1>5 DEF Agree, RowsTyped, SnoozeTyped, Plain
  <2>4. v.session.at # NoTime
    <3>1. v.session = [status |-> e.session, at |-> n + 1]
      BY <1>3
    <3>. QED
      BY <3>1 DEF NoTime
  <2>5. v.messages = r.messages /\ v.activities = r.activities
    BY <1>3
  <2>6. r.messages \in Seq(Messages(n + 1)) /\ r.activities \in Seq(Activities)
    BY <1>1 DEF Agree, RowsTyped
  <2>. QED
    BY <1>5, <2>1, <2>2, <2>3, <2>4, <2>5, <2>6 DEF RowsTyped
<1>11. SameRow(u, v.thread)
  <2>1. Plain \subseteq ThreadFields \ {"session", "turn", "lastInteractedAt"}
    BY DEF Plain, ThreadFields
  <2>. QED
    BY <1>1, <1>3, <1>5, <2>1 DEF SameRow, Agree
<1>12. ASSUME ~u.deleted PROVE Mirrored(u, v, n + 1)
  <2>1. ~t.deleted /\ Mirrored(t, r, n + 1)
    BY <1>1, <1>4, <1>12 DEF Agree
  <2>2. SameLists(u, v)
    BY <1>3, <1>4, <2>1 DEF Mirrored, SameLists
  <2>3. CheckpointsMatch(u.checkpoints, v.turns, n + 1)
    BY <1>3, <1>4, <1>8, <2>1 DEF Mirrored
  <2>4. TurnsMatch(u.turn, v.turns)
    <3>1. CASE e.session = "running"
      <4>1. u.turn.state = "running" /\ u.turn.id = e.turn
        BY <1>3, <3>1
      <4>2. row \in v.turns /\ row.turn = e.turn
        BY <1>3, <1>8, <3>1 DEF Upsert
      <4>. QED
        BY <4>1, <4>2 DEF TurnsMatch
    <3>2. CASE e.session # "running"
      BY <1>3, <2>1, <3>2 DEF Mirrored
    <3>. QED
      BY <3>1, <3>2
  <2>5. AtRest(u)
    BY <1>3, <1>4, <2>1 DEF Mirrored, AtRest
  <2>. QED
    BY <2>2, <2>3, <2>4, <2>5 DEF Mirrored
<1>. QED
  BY <1>4, <1>9, <1>10, <1>11, <1>12 DEF Agree, u, v

\* The row of an interrupted turn.
LEMMA InterruptedRow ==
    ASSUME NEW r, NEW n \in Nat, TurnsTyped(r.turns, n), NEW e, e.at = n + 1,
           e.turn \in TurnNames(n + 1)
    PROVE  LET row == InterruptedTurn(r, e)
           IN  /\ row \in RowType(n + 1) /\ row.turn = e.turn
               /\ row.state = "interrupted"
               /\ ~Known(r, e.turn) => row.count = NoCount
               /\ \A old \in r.turns : old.turn = e.turn =>
                     /\ row.count = old.count /\ row.requestedAt = old.requestedAt
                     /\ row.startedAt = old.startedAt
                     /\ row.completedAt = IF old.completedAt = 0 THEN n + 1 ELSE old.completedAt
                     /\ row.pending = old.pending /\ row.assistant = old.assistant
<1>. DEFINE row == InterruptedTurn(r, e)
            id == e.turn
<1>1. n + 1 \in 1..(n + 1) /\ n + 1 \in 0..(n + 1) /\ 0 \in 0..(n + 1)
  OBVIOUS
<1>2. CASE ~Known(r, id)
  <2>1. row = TurnRow(id, NoMessage, NoMessage, "interrupted", n + 1, n + 1, n + 1, NoCount)
    BY <1>2 DEF InterruptedTurn
  <2>2. row \in RowType(n + 1)
    BY <1>1, <2>1 DEF RowType, TurnRow, TurnStates, NoMessage, NoCount
  <2>3. row.turn = id /\ row.state = "interrupted" /\ row.count = NoCount
    BY <2>1 DEF TurnRow
  <2>. QED
    BY <1>2, <2>2, <2>3 DEF Known
<1>3. CASE Known(r, id)
  <2>. DEFINE old == RowOf(r, id)
  <2>1. old \in r.turns /\ old.turn = id /\ old \in RowType(n)
    BY <1>3, KnownRow DEF TurnsTyped
  <2>2. old.startedAt \in 1..n /\ old.requestedAt \in 1..n /\ old.completedAt \in 0..n
    BY <2>1, RowNumbers
  <2>. DEFINE completed == IF old.completedAt = 0 THEN n + 1 ELSE old.completedAt
  <2>3. row = [old EXCEPT !.state = "interrupted", !.completedAt = completed,
                          !.startedAt = old.startedAt, !.requestedAt = old.requestedAt]
    <3>1. row = [old EXCEPT !.state = "interrupted",
                            !.completedAt = Or(old.completedAt, n + 1),
                            !.startedAt = Or(old.startedAt, n + 1),
                            !.requestedAt = Or(old.requestedAt, n + 1)]
      BY <1>3 DEF InterruptedTurn
    <3>2. /\ Or(old.completedAt, n + 1) = completed
          /\ Or(old.startedAt, n + 1) = old.startedAt
          /\ Or(old.requestedAt, n + 1) = old.requestedAt
      BY <2>2 DEF Or
    <3>. QED
      BY <3>1, <3>2
  <2>4. completed \in 0..(n + 1)
    BY <2>2
  <2>5. \A other \in r.turns : other.turn = id => other = old
    BY <2>1 DEF TurnsTyped
  <2>6. completed = IF old.completedAt = 0 THEN n + 1 ELSE old.completedAt
    OBVIOUS
  <2>. HIDE DEF old, completed
  <2>7. old \in RowType(n + 1)
    BY <2>1, TypesGrow
  <2>8. row \in RowType(n + 1)
    BY <1>1, <2>2, <2>3, <2>4, <2>7 DEF RowType, TurnStates
  <2>9. /\ row.turn = id /\ row.state = "interrupted" /\ row.count = old.count
        /\ row.requestedAt = old.requestedAt /\ row.startedAt = old.startedAt
        /\ row.completedAt = completed
        /\ row.pending = old.pending /\ row.assistant = old.assistant
    BY <2>1, <2>3 DEF RowType
  <2>. QED
    BY <1>3, <2>5, <2>6, <2>8, <2>9
<1>. QED
  BY <1>2, <1>3

LEMMA InterruptChanges ==
    ASSUME NEW t, NEW r, NEW e, e.type = "thread.turn-interrupt-requested"
    PROVE  LET v == ProjectRows(r, e)
           IN  /\ ProjectEvent(t, e) = t
               /\ v.messages = r.messages /\ v.activities = r.activities
               /\ v.session = r.session /\ v.thread = r.thread /\ v.pending = r.pending
               /\ v.turns = Upsert(r.turns, InterruptedTurn(r, e))
<1>1. ProjectEvent(t, e) = t
  BY DEF ProjectEvent
<1>2. /\ MessageRows(r, e) = r.messages /\ ActivityRows(r, e) = r.activities
      /\ SessionRow(r, e) = r.session /\ ThreadRow(r.thread, e) = r.thread
      /\ PendingRow(r, e) = r.pending
  BY DEF MessageRows, ActivityRows, SessionRow, ThreadRow, PendingRow
<1>3. TurnRows(r, e) = Upsert(r.turns, InterruptedTurn(r, e))
  BY DEF TurnRows
<1>. QED
  BY <1>1, <1>2, <1>3 DEF ProjectRows

\* A turn in memory has its row, which an interrupt alters in the tables alone.
LEMMA InterruptStep ==
    ASSUME NEW t, NEW r, NEW n \in Nat, n < MaxNow, Agree(t, r, n), NEW e,
           e.type = "thread.turn-interrupt-requested", e.at = n + 1, t.turn # NoTurn,
           e.turn = t.turn.id
    PROVE  Step(t, r, n, ProjectEvent(t, e), ProjectRows(r, e), n + 1)
<1>. DEFINE v == ProjectRows(r, e)
            row == InterruptedTurn(r, e)
<1>1. Step(t, r, n, t, r, n + 1) /\ Agree(t, r, n + 1)
  BY TimePasses DEF Step
<1>2. /\ TurnsTyped(r.turns, n) /\ TurnsTyped(r.turns, n + 1) /\ n + 1 \in Nat
      /\ t.turn \in TurnType(n + 1) /\ t.turn.id # NoTurnId
  BY <1>1 DEF Agree, RowsTyped, ThreadTyped, TurnTyped
<1>3. e.turn \in TurnNames(n + 1)
  BY <1>2 DEF TurnType
<1>4. /\ ProjectEvent(t, e) = t
      /\ v.messages = r.messages /\ v.activities = r.activities
      /\ v.session = r.session /\ v.thread = r.thread /\ v.pending = r.pending
      /\ v.turns = Upsert(r.turns, row)
  BY InterruptChanges
<1>5. /\ row \in RowType(n + 1) /\ row.turn = e.turn
      /\ row.state = "interrupted"
      /\ ~Known(r, e.turn) => row.count = NoCount
      /\ \A old \in r.turns : old.turn = e.turn =>
            /\ row.count = old.count /\ row.requestedAt = old.requestedAt
            /\ row.startedAt = old.startedAt
            /\ row.completedAt = IF old.completedAt = 0 THEN n + 1 ELSE old.completedAt
            /\ row.pending = old.pending /\ row.assistant = old.assistant
  BY <1>2, <1>3, InterruptedRow
<1>. HIDE DEF v, row
<1>6. TurnsTyped(Upsert(r.turns, row), n + 1)
  <2>1. CASE ~Known(r, e.turn)
    BY <1>2, <1>5, <2>1, RowInserted
  <2>2. CASE Known(r, e.turn)
    <3>1. PICK old \in r.turns : old.turn = e.turn
      BY <2>2 DEF Known
    <3>. QED
      BY <1>2, <1>5, <3>1, RowReplaced
  <2>. QED
    BY <2>1, <2>2
<1>7. RowsTyped(v, n + 1)
  BY <1>1, <1>4, <1>6 DEF Agree, RowsTyped
<1>8. ASSUME ~t.deleted
      PROVE  /\ CheckpointsMatch(t.checkpoints, Upsert(r.turns, row), n + 1)
             /\ TurnsMatch(t.turn, Upsert(r.turns, row))
             /\ CapturesOnly(t, r, n + 1) => CapturesOnly(t, v, n + 1)
  <2>1. Mirrored(t, r, n + 1)
    BY <1>1, <1>8 DEF Agree
  <2>2. PICK old \in r.turns : old.turn = e.turn
    BY <2>1 DEF Mirrored, TurnsMatch
  <2>3. /\ row.turn = old.turn /\ row.count = old.count /\ row.requestedAt = old.requestedAt
        /\ row.startedAt = old.startedAt
        /\ row.completedAt = IF old.completedAt = 0 THEN n + 1 ELSE old.completedAt
        /\ row.pending = old.pending /\ row.assistant = old.assistant
    BY <1>5, <2>2
  <2>4. old \in RowType(n + 1) /\ old.completedAt \in 0..n
    BY <1>2, <2>2, RowNumbers DEF TurnsTyped
  <2>5. OfCapture(old, n + 1) /\ (old.count # NoCount => old.turn \in 1..(n + 1))
    BY <2>1, <2>2 DEF Mirrored, CheckpointsMatch
  <2>6. row.turn \in 1..(n + 1) => OfCapture(row, n + 1) /\ Made(old) = Made(row)
    <3>1. ASSUME row.turn \in 1..(n + 1)
          PROVE  row.completedAt = old.completedAt /\ OfCapture(row, n + 1)
      <4>1. old.completedAt = old.turn /\ old.turn # 0
        BY <2>3, <2>5, <3>1 DEF OfCapture
      <4>2. row.completedAt = old.completedAt
        BY <2>3, <4>1
      <4>. QED
        BY <1>5, <2>3, <2>5, <3>1, <4>2 DEF OfCapture
    <3>. QED
      BY <2>3, <3>1 DEF Made
  <2>7. CheckpointsMatch(t.checkpoints, Upsert(r.turns, row), n + 1)
    <3>1. CheckpointsMatch(t.checkpoints, r.turns, n + 1)
      BY <2>1 DEF Mirrored
    <3>2. row.turn \notin 1..(n + 1) => row.count = NoCount
      BY <2>3, <2>5
    <3>3. row.turn \in 1..(n + 1) =>
            OfCapture(row, n + 1) /\ \E a \in r.turns : Made(a) = Made(row)
      BY <2>2, <2>6
    <3>. QED
      BY <1>2, <3>1, <3>2, <3>3, UpsertMatches
  <2>8. TurnsMatch(t.turn, Upsert(r.turns, row))
    <3>1. row.startedAt >= old.startedAt /\ row.completedAt >= old.completedAt
      <4>1. old.startedAt \in Nat /\ old.completedAt \in 0..n
        BY <1>2, <2>2, RowNumbers DEF TurnsTyped
      <4>2. old.completedAt \in Nat
        BY <2>2, <1>2, RowNumbers DEF TurnsTyped
      <4>. QED
        BY <2>3, <4>1, <4>2
    <3>2. TurnsMatch(t.turn, r.turns)
      BY <2>1 DEF Mirrored
    <3>. QED
      BY <1>2, <1>5, <2>2, <2>3, <3>1, <3>2, RowReplaced
  <2>9. ASSUME CapturesOnly(t, r, n + 1)
        PROVE  CapturesOnly(t, v, n + 1)
    <3>1. \A a \in v.turns : a = row \/ a \in r.turns
      BY <1>4 DEF Upsert
    <3>2. \A a \in r.turns : \E b \in v.turns : b.turn = a.turn /\ b.count = a.count
      <4>1. \A a \in r.turns : a.turn = row.turn => a = old
        BY <1>2, <2>2, <2>3 DEF TurnsTyped
      <4>. QED
        BY <1>4, <2>3, <4>1 DEF Upsert
    <3>3. \A a \in v.turns : \E b \in r.turns : b.turn = a.turn /\ b.count = a.count
      BY <2>2, <2>3, <3>1
    <3>4. \A a \in v.turns : a.turn \in 1..(n + 1)
      BY <2>9, <3>3 DEF CapturesOnly
    <3>5. ASSUME NEW a \in v.turns
          PROVE  \E other \in v.turns : other.count # NoCount /\ a.turn <= other.turn
      <4>1. PICK b \in r.turns : b.turn = a.turn
        BY <3>3
      <4>2. PICK c \in r.turns : c.count # NoCount /\ b.turn <= c.turn
        BY <2>9 DEF CapturesOnly
      <4>. QED
        BY <3>2, <4>1, <4>2
    <3>. QED
      BY <1>4, <2>9, <3>4, <3>5 DEF CapturesOnly
  <2>. QED
    BY <2>7, <2>8, <2>9
<1>9. ASSUME ~t.deleted PROVE Mirrored(t, v, n + 1)
  BY <1>1, <1>4, <1>8, <1>9 DEF Agree, Mirrored, SameLists
<1>10. Agree(t, v, n + 1)
  BY <1>1, <1>4, <1>7, <1>9 DEF Agree
<1>11. Step(t, r, n + 1, t, v, n + 1)
  BY <1>8, <1>10 DEF Step
<1>. QED
  BY <1>1, <1>4, <1>11, StepsCompose DEF v

-----------------------------------------------------------------------------
(* Activities, and the deletion of the thread.                                 *)

\* Every activity of the list is older than a.
Newer(s, a) == \A i \in DOMAIN s : s[i].id < a.id

\* What is newer than the others goes behind them.
LEMMA NewestPlaced ==
    ASSUME NEW s \in Seq(Activities), NEW a \in Activities, Newer(s, a)
    PROVE  WithActivity(s, a) = Append(s, a)
<1>. DEFINE others == {i \in DOMAIN s : s[i].id # a.id}
<1>1. /\ Len(s) \in Nat /\ DOMAIN s = 1..Len(s) /\ a.id \in Nat
      /\ \A i \in DOMAIN s : s[i].id \in Nat
  <2>1. \A i \in DOMAIN s : s[i] \in Activities
    OBVIOUS
  <2>. QED
    BY <2>1 DEF Activities
<1>2. others = DOMAIN s
  BY <1>1 DEF Newer
<1>3. {i \in others : s[i].id < a.id} = DOMAIN s /\ {i \in others : s[i].id > a.id} = {}
  BY <1>1, <1>2 DEF Newer
<1>4. WithActivity(s, a) = (AtPlaces(s, DOMAIN s) \o <<a>>) \o AtPlaces(s, {})
  BY <1>3 DEF WithActivity
<1>5. AtPlaces(s, {}) = <<>>
  BY FS_EmptySet DEF AtPlaces
<1>6. s \o <<a>> = Append(s, a) /\ Append(s, a) \o <<>> = Append(s, a)
  OBVIOUS
<1>. QED
  BY <1>4, <1>5, <1>6, AtAllPlaces

\* Wherever an activity goes.
LEMMA WithTyped ==
    ASSUME NEW s \in Seq(Activities), NEW a \in Activities
    PROVE  WithActivity(s, a) \in Seq(Activities)
<1>. DEFINE others == {i \in DOMAIN s : s[i].id # a.id}
            before == AtPlaces(s, {i \in others : s[i].id < a.id})
            after == AtPlaces(s, {i \in others : s[i].id > a.id})
<1>1. {i \in others : s[i].id < a.id} \in SUBSET DOMAIN s
      /\ {i \in others : s[i].id > a.id} \in SUBSET DOMAIN s
  OBVIOUS
<1>2. before \in Seq(Activities) /\ after \in Seq(Activities)
  BY <1>1, AtPlacesElements
<1>3. WithActivity(s, a) = before \o <<a>> \o after
  BY DEF WithActivity
<1>. HIDE DEF before, after
<1>. QED
  BY <1>2, <1>3

\* A request resolved leaves none that was not open.
LEMMA ResolvedOpensNone ==
    ASSUME NEW s \in Seq(Activities), NEW x \in Activities, x.kind = "approval.resolved"
    PROVE  OpenRequests(Append(s, x)) \subseteq OpenRequests(s)
<1>. DEFINE z == Append(s, x)
<1>1. /\ Len(s) \in Nat /\ Len(z) = Len(s) + 1 /\ DOMAIN z = 1..(Len(s) + 1)
      /\ z[Len(s) + 1] = x /\ \A i \in 1..Len(s) : z[i] = s[i]
      /\ DOMAIN s = 1..Len(s)
  OBVIOUS
<1>. HIDE DEF z
<1>2. ASSUME NEW q \in OpenRequests(z)
      PROVE  q \in OpenRequests(s)
  <2>1. PICK j \in DOMAIN z :
          /\ z[j].kind \in {"approval.requested", "user-input.requested"}
          /\ ~\E k \in (j + 1)..Len(z) :
                /\ z[k].request = z[j].request
                /\ z[k].kind = IF z[j].kind = "approval.requested"
                               THEN "approval.resolved" ELSE "user-input.resolved"
          /\ q = z[j].request
    BY DEF OpenRequests
  <2>2. j # Len(s) + 1
    BY <1>1, <2>1
  <2>3. j \in DOMAIN s /\ z[j] = s[j]
    BY <1>1, <2>1, <2>2
  <2>4. ~\E k \in (j + 1)..Len(s) :
                /\ s[k].request = s[j].request
                /\ s[k].kind = IF s[j].kind = "approval.requested"
                               THEN "approval.resolved" ELSE "user-input.resolved"
    <3>1. \A k \in (j + 1)..Len(s) : k \in (j + 1)..Len(z) /\ z[k] = s[k]
      BY <1>1, <2>3
    <3>. QED
      BY <2>1, <2>3, <3>1
  <2>. QED
    BY <2>1, <2>3, <2>4 DEF OpenRequests
<1>. QED
  BY <1>2 DEF z

LEMMA ActivityStep ==
    ASSUME NEW t, NEW r, NEW n \in Nat, Agree(t, r, n), Room(t), NEW e,
           e.type = "thread.activity-appended", e.activity \in Activities,
           Newer(t.activities, e.activity),
           e.activity.kind = "approval.requested" => t.settled # "settled"
    PROVE  Step(t, r, n, ProjectEvent(t, e), ProjectRows(r, e), n)
<1>. DEFINE u == ProjectEvent(t, e)
            v == ProjectRows(r, e)
            s == Append(t.activities, e.activity)
            z == WithActivity(r.activities, e.activity)
<1>1. t.activities \in Seq(Activities) /\ r.activities \in Seq(Activities)
      /\ DOMAIN t = ThreadFields
  BY DEF Agree, ThreadTyped, RowsTyped
<1>2. /\ s \in Seq(Activities) /\ z \in Seq(Activities) /\ Newest(s, MaxActivities) = s
      /\ WithActivity(t.activities, e.activity) = s
  <2>. DEFINE l == t.activities
              k == r.activities
              a == e.activity
  <2>1. /\ l \in Seq(Activities) /\ k \in Seq(Activities) /\ a \in Activities
        /\ Len(l) < MaxActivities /\ MaxActivities \in Nat /\ Newer(l, a)
    BY <1>1, Caps DEF Room
  <2>. HIDE DEF l, k, a, z, s
  <2>2. Append(l, a) \in Seq(Activities) /\ Newest(Append(l, a), MaxActivities) = Append(l, a)
    BY <2>1, Appended
  <2>3. WithActivity(l, a) = Append(l, a) /\ WithActivity(k, a) \in Seq(Activities)
    BY <2>1, NewestPlaced, WithTyped
  <2>. QED
    BY <2>2, <2>3 DEF l, k, a, z, s
<1>3. u = [t EXCEPT !.activities = s]
  <2>1. u = ActivityAppended(t, e)
    BY DEF ProjectEvent
  <2>. QED
    BY <1>2, <2>1 DEF ActivityAppended
<1>4. /\ v.messages = r.messages /\ v.activities = z /\ v.session = r.session
      /\ v.thread = r.thread /\ v.pending = r.pending /\ v.turns = r.turns
  <2>1. /\ MessageRows(r, e) = r.messages /\ SessionRow(r, e) = r.session
        /\ ThreadRow(r.thread, e) = r.thread /\ PendingRow(r, e) = r.pending
        /\ ActivityRows(r, e) = z
    BY DEF MessageRows, SessionRow, ThreadRow, PendingRow, ActivityRows
  <2>2. TurnRows(r, e) = r.turns
    BY DEF TurnRows
  <2>. QED
    BY <2>1, <2>2 DEF ProjectRows
<1>5. ~t.deleted => s = z
  BY <1>2 DEF Agree, Mirrored, SameLists
<1>6. t.settled = "settled" /\ OpenRequests(t.activities) = {} => OpenRequests(s) = {}
  <2>1. t.settled = "settled" => e.activity.kind = "approval.resolved"
    BY DEF Activities
  <2>2. t.settled = "settled" => OpenRequests(s) \subseteq OpenRequests(t.activities)
    BY <1>1, <2>1, ResolvedOpensNone
  <2>. QED
    BY <2>2
<1>. HIDE DEF u, v, s, z
<1>7. /\ DOMAIN u = ThreadFields /\ u.activities = s
      /\ \A f \in ThreadFields \ {"activities"} : u[f] = t[f]
  BY <1>1, <1>3 DEF ThreadFields
<1>8. /\ u.turn = t.turn /\ u.messages = t.messages /\ u.checkpoints = t.checkpoints
      /\ u.session = t.session /\ u.deleted = t.deleted /\ u.settled = t.settled
      /\ u.lastInteractedAt = t.lastInteractedAt
  BY <1>7 DEF ThreadFields, Plain
<1>9. SameRow(u, v.thread)
  BY <1>4, <1>7 DEF SameRow, Agree, Plain, ThreadFields
<1>10. ThreadTyped(u, n)
  BY <1>2, <1>7, <1>8 DEF Agree, ThreadTyped
<1>11. RowsTyped(v, n)
  BY <1>2, <1>4 DEF Agree, RowsTyped
<1>12. ASSUME ~u.deleted PROVE Mirrored(u, v, n)
  <2>1. Mirrored(t, r, n)
    BY <1>8, <1>12 DEF Agree
  <2>2. AtRest(u)
    BY <1>6, <1>7, <1>8, <2>1 DEF Mirrored, AtRest
  <2>. QED
    BY <1>4, <1>5, <1>7, <1>8, <1>12, <2>1, <2>2 DEF Mirrored, SameLists
<1>13. ASSUME CapturesOnly(t, r, n) PROVE CapturesOnly(u, v, n)
  <2>1. CapturedInOrder(u) = CapturedInOrder(t)
    BY <1>8 DEF CapturedInOrder
  <2>. QED
    BY <1>4, <1>8, <1>13, <2>1 DEF CapturesOnly
<1>. QED
  BY <1>8, <1>9, <1>10, <1>11, <1>12, <1>13 DEF Agree, Step, u, v

LEMMA DeletedStep ==
    ASSUME NEW t, NEW r, NEW n \in Nat, Agree(t, r, n), NEW e, e.type = "thread.deleted"
    PROVE  Step(t, r, n, ProjectEvent(t, e), ProjectRows(r, e), n)
<1>. DEFINE u == ProjectEvent(t, e)
            v == ProjectRows(r, e)
<1>1. u = [t EXCEPT !.deleted = TRUE] /\ DOMAIN t = ThreadFields /\ DOMAIN r.thread = RowFields
  BY DEF ProjectEvent, Agree, ThreadTyped, RowsTyped
<1>2. /\ v.messages = <<>> /\ v.activities = <<>> /\ v.pending = NoMessage /\ v.turns = {}
      /\ v.thread = [r.thread EXCEPT !.deleted = TRUE] /\ v.session = NoSession
  <2>1. MessageRows(r, e) = <<>> /\ ActivityRows(r, e) = <<>> /\ SessionRow(r, e) = NoSession
        /\ PendingRow(r, e) = NoMessage /\ ThreadRow(r.thread, e) = [r.thread EXCEPT !.deleted = TRUE]
    BY DEF MessageRows, ActivityRows, PendingRow, ThreadRow, SessionRow
  <2>2. TurnRows(r, e) = {}
    BY DEF TurnRows
  <2>. QED
    BY <2>1, <2>2 DEF ProjectRows
<1>. HIDE DEF u, v
<1>3. /\ DOMAIN u = ThreadFields /\ u.deleted = TRUE
      /\ \A f \in ThreadFields \ {"deleted"} : u[f] = t[f]
  BY <1>1 DEF ThreadFields, Plain
<1>4. /\ DOMAIN v.thread = RowFields /\ v.thread.deleted = TRUE
      /\ \A f \in RowFields \ {"deleted"} : v.thread[f] = r.thread[f]
  BY <1>1, <1>2 DEF RowFields, Plain
<1>5. SameRow(u, v.thread)
  BY <1>3, <1>4 DEF SameRow, Agree, ThreadFields, RowFields
<1>6. /\ u.turn = t.turn /\ u.messages = t.messages /\ u.checkpoints = t.checkpoints
      /\ u.activities = t.activities
  BY <1>3 DEF ThreadFields, Plain
<1>7. ThreadTyped(u, n)
  BY <1>3, <1>6 DEF Agree, ThreadTyped
<1>8. SnoozeTyped(v.thread)
  BY <1>4 DEF Agree, RowsTyped, SnoozeTyped, RowFields, Plain
<1>9. TurnsTyped({}, n)
  BY FS_EmptySet DEF TurnsTyped
<1>10. RowsTyped(v, n)
  BY <1>2, <1>4, <1>8, <1>9 DEF RowsTyped, NoMessage
<1>. QED
  BY <1>3, <1>5, <1>7, <1>10 DEF Agree, Step, u, v

-----------------------------------------------------------------------------
(* Checkpoints that captures add.                                              *)

LEMMA WholeIsNewest ==
    ASSUME NEW X, NEW s \in Seq(X), NEW max \in Nat, Len(s) <= max
    PROVE  Newest(s, max) = s
<1>1. ~(Len(s) > max)
  OBVIOUS
<1>2. Newest(s, max) = SubSeq(s, 1, Len(s))
  BY <1>1 DEF Newest
<1>. QED
  BY <1>2

\* Each place of the list z comes from one of s, or from 0, the place of a new element that
\* follows those of s at L and precedes those at G.
Traced(from, s, z, made, L, G) ==
    /\ \A i \in DOMAIN z : \/ from[i] \in DOMAIN s /\ z[i] = s[from[i]]
                           \/ from[i] = 0 /\ z[i] = made
    /\ \A j \in DOMAIN s \cup {0} : \E i \in DOMAIN z : from[i] = j
    /\ \A i, k \in DOMAIN z : i < k =>
          \/ from[i] \in L /\ from[k] \in L /\ from[i] < from[k]
          \/ from[i] \in G /\ from[k] \in G /\ from[i] < from[k]
          \/ from[i] \in L /\ from[k] \in G
          \/ from[i] \in L /\ from[k] = 0
          \/ from[i] = 0 /\ from[k] \in G

LEMMA Inserted ==
    ASSUME NEW X, NEW s \in Seq(X), NEW made \in X, NEW L \in SUBSET DOMAIN s,
           NEW G \in SUBSET DOMAIN s, L \cup G = DOMAIN s, L \cap G = {}
    PROVE  LET z == AtPlaces(s, L) \o <<made>> \o AtPlaces(s, G)
           IN  /\ z \in Seq(X) /\ Len(z) = Len(s) + 1
               /\ \E from : Traced(from, s, z, made, L, G)
<1>. DEFINE a == AtPlaces(s, L)
            b == AtPlaces(s, G)
            l == Len(a)
            g == Len(b)
            z == a \o <<made>> \o b
            from == [i \in 1..(l + 1 + g) |-> IF i <= l THEN Nth(L, i)
                                              ELSE IF i = l + 1 THEN 0
                                              ELSE Nth(G, i - (l + 1))]
<1>0. Len(s) \in Nat /\ DOMAIN s = 1..Len(s)
  OBVIOUS
<1>1. /\ a \in Seq(X)
      /\ \A i \in DOMAIN a : Nth(L, i) \in L /\ a[i] = s[Nth(L, i)]
      /\ \A i, j \in DOMAIN a : i < j => Nth(L, i) < Nth(L, j)
      /\ \A k \in L : \E i \in DOMAIN a : a[i] = s[k] /\ Nth(L, i) = k
  BY AtPlacesElements
<1>2. /\ b \in Seq(X)
      /\ \A i \in DOMAIN b : Nth(G, i) \in G /\ b[i] = s[Nth(G, i)]
      /\ \A i, j \in DOMAIN b : i < j => Nth(G, i) < Nth(G, j)
      /\ \A k \in G : \E i \in DOMAIN b : b[i] = s[k] /\ Nth(G, i) = k
  BY AtPlacesElements
<1>3. l + g = Len(s)
  <2>1. IsFiniteSet(L) /\ IsFiniteSet(G) /\ IsFiniteSet(DOMAIN s)
        /\ Cardinality(L) \in Nat /\ Cardinality(G) \in Nat
    BY <1>0, PlacesFinite, FS_CardinalityType
  <2>2. l = Cardinality(L) /\ g = Cardinality(G)
    <3>1. \A S : Cardinality(S) \in Nat => Len(AtPlaces(s, S)) = Cardinality(S)
      <4>1. ASSUME NEW S, Cardinality(S) \in Nat
            PROVE  Len(AtPlaces(s, S)) = Cardinality(S)
        <5>. DEFINE c == Cardinality(S)
        <5>1. AtPlaces(s, S) = [i \in 1..c |-> s[Nth(S, i)]]
          BY DEF AtPlaces
        <5>2. c \in Nat
          BY <4>1
        <5>. HIDE DEF c
        <5>3. Len([i \in 1..c |-> s[Nth(S, i)]]) = c
          BY <5>2
        <5>. QED
          BY <5>1, <5>3 DEF c
      <4>. QED
        BY <4>1
    <3>. QED
      BY <2>1, <3>1
  <2>3. Cardinality(L \cup G) = Cardinality(L) + Cardinality(G) - Cardinality(L \cap G)
    BY <2>1, FS_Union
  <2>4. Cardinality({}) = 0 /\ Cardinality(1..Len(s)) = Len(s)
    <3>1. 1 \in Int /\ Len(s) \in Int
      OBVIOUS
    <3>2. Cardinality(1..Len(s)) = IF 1 > Len(s) THEN 0 ELSE Len(s) - 1 + 1
      BY <3>1, FS_Interval
    <3>. QED
      BY <1>0, <3>2, FS_EmptySet
  <2>5. Cardinality(DOMAIN s) = Cardinality(L) + Cardinality(G) - Cardinality({})
    BY <2>3
  <2>6. Cardinality(L) + Cardinality(G) = Len(s)
    BY <1>0, <2>1, <2>3, <2>4, <2>5
  <2>. QED
    BY <2>2, <2>6
<1>4. l \in Nat /\ g \in Nat /\ DOMAIN a = 1..l /\ DOMAIN b = 1..g
  BY <1>1, <1>2
<1>5. /\ z \in Seq(X) /\ Len(z) = l + 1 + g /\ DOMAIN z = 1..(l + 1 + g)
      /\ \A i \in 1..l : z[i] = a[i]
      /\ z[l + 1] = made
      /\ \A i \in 1..g : z[l + 1 + i] = b[i]
  BY <1>1, <1>2
<1>6. \A i \in 1..(l + 1 + g) : from[i] = IF i <= l THEN Nth(L, i)
                                          ELSE IF i = l + 1 THEN 0
                                          ELSE Nth(G, i - (l + 1))
  OBVIOUS
<1>. HIDE DEF a, b, l, g, z, from
<1>7. ASSUME NEW i \in 1..(l + 1 + g)
      PROVE  \/ i \in 1..l /\ from[i] = Nth(L, i) /\ from[i] \in L /\ z[i] = s[from[i]]
             \/ i = l + 1 /\ from[i] = 0 /\ z[i] = made
             \/ /\ i - (l + 1) \in 1..g /\ from[i] = Nth(G, i - (l + 1)) /\ from[i] \in G
                /\ z[i] = s[from[i]]
  <2>1. CASE i <= l
    <3>1. i \in 1..l
      BY <1>4, <2>1
    <3>. QED
      BY <1>1, <1>4, <1>5, <1>6, <2>1, <3>1
  <2>2. CASE i = l + 1
    BY <1>4, <1>5, <1>6, <2>2
  <2>3. CASE i > l + 1
    <3>1. i - (l + 1) \in 1..g /\ i = l + 1 + (i - (l + 1)) /\ ~(i <= l) /\ i # l + 1
      BY <1>4, <2>3
    <3>2. z[i] = b[i - (l + 1)]
      BY <1>5, <3>1
    <3>. QED
      BY <1>2, <1>4, <1>6, <3>1, <3>2
  <2>. QED
    BY <1>4, <2>1, <2>2, <2>3
<1>8. \A i \in DOMAIN z : \/ from[i] \in DOMAIN s /\ z[i] = s[from[i]]
                          \/ from[i] = 0 /\ z[i] = made
  BY <1>5, <1>7
<1>9. ASSUME NEW j \in DOMAIN s \cup {0}
      PROVE  \E i \in DOMAIN z : from[i] = j
  <2>1. CASE j = 0
    <3>1. l + 1 \in 1..(l + 1 + g) /\ ~(l + 1 <= l)
      BY <1>4
    <3>. QED
      BY <1>5, <1>6, <2>1, <3>1
  <2>2. CASE j \in L
    <3>1. PICK i \in 1..l : Nth(L, i) = j
      BY <1>1, <1>4, <2>2
    <3>2. i \in 1..(l + 1 + g) /\ i <= l
      BY <1>4
    <3>. QED
      BY <1>5, <1>6, <3>1, <3>2
  <2>3. CASE j \in G
    <3>1. PICK i \in 1..g : Nth(G, i) = j
      BY <1>2, <1>4, <2>3
    <3>2. l + 1 + i \in 1..(l + 1 + g) /\ ~(l + 1 + i <= l) /\ l + 1 + i # l + 1
          /\ (l + 1 + i) - (l + 1) = i
      BY <1>4
    <3>. QED
      BY <1>5, <1>6, <3>1, <3>2
  <2>. QED
    BY <2>1, <2>2, <2>3
<1>10. ASSUME NEW i \in DOMAIN z, NEW k \in DOMAIN z, i < k
       PROVE  \/ from[i] \in L /\ from[k] \in L /\ from[i] < from[k]
              \/ from[i] \in G /\ from[k] \in G /\ from[i] < from[k]
              \/ from[i] \in L /\ from[k] \in G
              \/ from[i] \in L /\ from[k] = 0
              \/ from[i] = 0 /\ from[k] \in G
  <2>1. i \in 1..(l + 1 + g) /\ k \in 1..(l + 1 + g)
    BY <1>5
  <2>2. CASE i \in 1..l /\ k \in 1..l
    BY <1>1, <1>4, <1>7, <1>10, <2>1, <2>2
  <2>3. CASE i - (l + 1) \in 1..g /\ k - (l + 1) \in 1..g
    <3>1. i - (l + 1) < k - (l + 1)
      BY <1>4, <1>10, <2>1
    <3>2. from[i] = Nth(G, i - (l + 1)) /\ from[k] = Nth(G, k - (l + 1))
          /\ from[i] \in G /\ from[k] \in G
      BY <1>4, <1>7, <2>1, <2>3
    <3>. QED
      BY <1>2, <1>4, <2>3, <3>1, <3>2
  <2>4. CASE i \in 1..l /\ k \notin 1..l
    BY <1>7, <2>1, <2>4, <1>4
  <2>5. CASE i = l + 1
    BY <1>7, <2>1, <2>5, <1>4, <1>10
  <2>6. ~(i - (l + 1) \in 1..g /\ k = l + 1) /\ ~(i - (l + 1) \in 1..g /\ k \in 1..l)
    BY <1>4, <1>10, <2>1
  <2>. QED
    BY <1>4, <2>1, <2>2, <2>3, <2>4, <2>5, <2>6, <1>10
<1>11. Len(z) = Len(s) + 1
  BY <1>0, <1>3, <1>4, <1>5
<1>12. Traced(from, s, z, made, L, G)
  BY <1>8, <1>9, <1>10 DEF Traced
<1>13. z \in Seq(X) /\ Len(z) = Len(s) + 1 /\ \E f : Traced(f, s, z, made, L, G)
  BY <1>5, <1>11, <1>12
<1>. QED
  BY <1>13 DEF z, a, b

\* A checkpoint put after those of a list whose count is not above its own.
Placed(s, made) ==
    AtPlaces(s, {i \in DOMAIN s : s[i].count <= made.count}) \o <<made>>
        \o AtPlaces(s, {i \in DOMAIN s : s[i].count > made.count})

LEMMA CheckpointPlaced ==
    ASSUME NEW n \in Nat, NEW s \in Seq(Checkpoints(n)), NEW made \in Checkpoints(n + 1),
           made.at = n + 1,
           \A i, j \in DOMAIN s : i < j => s[i].count <= s[j].count
    PROVE  /\ Placed(s, made) \in Seq(Checkpoints(n + 1))
           /\ Len(Placed(s, made)) = Len(s) + 1
           /\ \A i \in DOMAIN Placed(s, made) :
                 Placed(s, made)[i] = made \/ \E j \in DOMAIN s : Placed(s, made)[i] = s[j]
           /\ \E i \in DOMAIN Placed(s, made) : Placed(s, made)[i] = made
           /\ \A j \in DOMAIN s : \E i \in DOMAIN Placed(s, made) : Placed(s, made)[i] = s[j]
           /\ \A i, j \in DOMAIN Placed(s, made) :
                 i < j => Placed(s, made)[i].count <= Placed(s, made)[j].count
           /\ (\A i, j \in DOMAIN s : i < j /\ s[i].count = s[j].count => s[i].at < s[j].at)
              => \A i, j \in DOMAIN Placed(s, made) :
                    i < j /\ Placed(s, made)[i].count = Placed(s, made)[j].count
                        => Placed(s, made)[i].at < Placed(s, made)[j].at
           /\ (\A i, j \in DOMAIN Placed(s, made) :
                  i < j => Placed(s, made)[i].at < Placed(s, made)[j].at)
              => Placed(s, made)[Len(Placed(s, made))] = made
<1>. DEFINE L == {i \in DOMAIN s : s[i].count <= made.count}
            G == {i \in DOMAIN s : s[i].count > made.count}
            z == AtPlaces(s, L) \o <<made>> \o AtPlaces(s, G)
            X == Checkpoints(n + 1)
<1>1. s \in Seq(X) /\ made \in X
  BY TypesGrow
<1>2. /\ \A i \in DOMAIN s : s[i].count \in Nat /\ s[i].at \in 0..n
      /\ made.count \in Nat
  <2>1. \A i \in DOMAIN s : s[i] \in Checkpoints(n)
    OBVIOUS
  <2>2. \A c \in Checkpoints(n) : c.count \in Nat /\ c.at \in 0..n
    BY DEF Checkpoints
  <2>3. made.count \in Nat
    BY DEF Checkpoints
  <2>. QED
    BY <2>1, <2>2, <2>3
<1>3. L \cup G = DOMAIN s /\ L \cap G = {} /\ L \in SUBSET DOMAIN s /\ G \in SUBSET DOMAIN s
  <2>1. \A i \in DOMAIN s : s[i].count <= made.count \/ s[i].count > made.count
    BY <1>2
  <2>2. \A i \in DOMAIN s : ~(s[i].count <= made.count /\ s[i].count > made.count)
    BY <1>2
  <2>. QED
    BY <2>1, <2>2
<1>4. DOMAIN s = 1..Len(s) /\ Len(s) \in Nat
  OBVIOUS
<1>5. /\ \A i \in L : s[i].count <= made.count /\ i \in DOMAIN s
      /\ \A i \in G : s[i].count > made.count /\ i \in DOMAIN s
  OBVIOUS
<1>. HIDE DEF L, G, X
<1>6. z \in Seq(X) /\ Len(z) = Len(s) + 1 /\ \E from : Traced(from, s, z, made, L, G)
  BY <1>1, <1>3, Inserted
<1>. HIDE DEF z
<1>7. PICK from : Traced(from, s, z, made, L, G)
  BY <1>6
<1>a. /\ \A i \in DOMAIN z : \/ from[i] \in DOMAIN s /\ z[i] = s[from[i]]
                             \/ from[i] = 0 /\ z[i] = made
      /\ \A j \in DOMAIN s \cup {0} : \E i \in DOMAIN z : from[i] = j
      /\ \A i, k \in DOMAIN z : i < k =>
            \/ from[i] \in L /\ from[k] \in L /\ from[i] < from[k]
            \/ from[i] \in G /\ from[k] \in G /\ from[i] < from[k]
            \/ from[i] \in L /\ from[k] \in G
            \/ from[i] \in L /\ from[k] = 0
            \/ from[i] = 0 /\ from[k] \in G
  BY <1>7 DEF Traced
<1>8. 0 \notin DOMAIN s
  BY <1>4
<1>9. \A i \in DOMAIN z : z[i] = made \/ \E j \in DOMAIN s : z[i] = s[j]
  BY <1>a
<1>10. \E i \in DOMAIN z : z[i] = made
  <2>1. PICK i \in DOMAIN z : from[i] = 0
    BY <1>a
  <2>. QED
    BY <1>a, <1>8, <2>1
<1>11. ASSUME NEW j \in DOMAIN s
       PROVE  \E i \in DOMAIN z : z[i] = s[j]
  <2>1. PICK i \in DOMAIN z : from[i] = j
    BY <1>a
  <2>. QED
    BY <1>a, <1>8, <2>1
<1>12. ASSUME NEW i \in DOMAIN z, NEW k \in DOMAIN z, i < k
       PROVE  \/ /\ from[i] \in DOMAIN s /\ from[k] \in DOMAIN s /\ from[i] < from[k]
                 /\ z[i] = s[from[i]] /\ z[k] = s[from[k]]
              \/ /\ from[i] \in L /\ from[k] \in G
                 /\ z[i] = s[from[i]] /\ z[k] = s[from[k]]
              \/ from[i] \in L /\ z[i] = s[from[i]] /\ z[k] = made
              \/ from[k] \in G /\ z[i] = made /\ z[k] = s[from[k]]
  BY <1>5, <1>a, <1>8, <1>12
<1>13. ASSUME NEW i \in DOMAIN z, NEW k \in DOMAIN z, i < k
       PROVE  z[i].count <= z[k].count
  <2>1. CASE /\ from[i] \in DOMAIN s /\ from[k] \in DOMAIN s /\ from[i] < from[k]
             /\ z[i] = s[from[i]] /\ z[k] = s[from[k]]
    BY <2>1
  <2>2. CASE /\ from[i] \in L /\ from[k] \in G
             /\ z[i] = s[from[i]] /\ z[k] = s[from[k]]
    BY <1>2, <1>5, <2>2
  <2>3. CASE from[i] \in L /\ z[i] = s[from[i]] /\ z[k] = made
    BY <1>5, <2>3
  <2>4. CASE from[k] \in G /\ z[i] = made /\ z[k] = s[from[k]]
    BY <1>2, <1>5, <2>4
  <2>. QED
    BY <1>12, <1>13, <2>1, <2>2, <2>3, <2>4
<1>14. ASSUME \A i, j \in DOMAIN s : i < j /\ s[i].count = s[j].count => s[i].at < s[j].at,
              NEW i \in DOMAIN z, NEW k \in DOMAIN z, i < k, z[i].count = z[k].count
       PROVE  z[i].at < z[k].at
  <2>1. CASE /\ from[i] \in DOMAIN s /\ from[k] \in DOMAIN s /\ from[i] < from[k]
             /\ z[i] = s[from[i]] /\ z[k] = s[from[k]]
    BY <1>14, <2>1
  <2>2. CASE /\ from[i] \in L /\ from[k] \in G
             /\ z[i] = s[from[i]] /\ z[k] = s[from[k]]
    BY <1>2, <1>5, <1>14, <2>2
  <2>3. CASE from[i] \in L /\ z[i] = s[from[i]] /\ z[k] = made
    <3>1. z[i].at \in 0..n /\ z[k].at = n + 1
      BY <1>2, <1>5, <2>3
    <3>. QED
      BY <3>1
  <2>4. CASE from[k] \in G /\ z[i] = made /\ z[k] = s[from[k]]
    BY <1>2, <1>5, <1>14, <2>4
  <2>. QED
    BY <1>12, <1>14, <2>1, <2>2, <2>3, <2>4
<1>15. ASSUME \A i, j \in DOMAIN z : i < j => z[i].at < z[j].at
       PROVE  z[Len(z)] = made
  <2>1. PICK p \in DOMAIN z : z[p] = made
    BY <1>10
  <2>2. Len(z) \in DOMAIN z /\ p \in 1..Len(z) /\ Len(z) \in Nat
    BY <1>4, <1>6, <2>1
  <2>3. z[Len(z)].at \in 0..(n + 1)
    <3>1. z[Len(z)] \in X
      BY <1>6, <2>2
    <3>2. \A c \in X : c.at \in 0..(n + 1)
      BY DEF X, Checkpoints
    <3>. QED
      BY <3>1, <3>2
  <2>4. ~(p < Len(z))
    BY <1>15, <2>1, <2>2, <2>3
  <2>. QED
    BY <2>1, <2>2, <2>4
<1>16. /\ z \in Seq(X) /\ Len(z) = Len(s) + 1
       /\ \A i \in DOMAIN z : z[i] = made \/ \E j \in DOMAIN s : z[i] = s[j]
       /\ \E i \in DOMAIN z : z[i] = made
       /\ \A j \in DOMAIN s : \E i \in DOMAIN z : z[i] = s[j]
       /\ \A i, j \in DOMAIN z : i < j => z[i].count <= z[j].count
       /\ (\A i, j \in DOMAIN s : i < j /\ s[i].count = s[j].count => s[i].at < s[j].at)
          => \A i, j \in DOMAIN z : i < j /\ z[i].count = z[j].count => z[i].at < z[j].at
       /\ (\A i, j \in DOMAIN z : i < j => z[i].at < z[j].at) => z[Len(z)] = made
  BY <1>6, <1>9, <1>10, <1>11, <1>13, <1>14, <1>15
<1>17. z = Placed(s, made)
  BY DEF z, L, G, Placed
<1>. QED
  BY <1>16, <1>17 DEF X

\* The rows after a capture: its own, and the others, of which one may lose its count.
LEMMA CaptureRows ==
    ASSUME NEW r, NEW n \in Nat, n < MaxNow, TurnsTyped(r.turns, n), NEW e,
           e.turn = n + 1, e.at = n + 1, e.count \in Nat \ {0}
    PROVE  LET row == TurnRow(n + 1, NoMessage, NoMessage, "completed", n + 1, n + 1, n + 1, e.count)
               w == WithoutConflict(r.turns, e)
           IN  /\ CapturedTurn(r, e) = row
               /\ row \in RowType(n + 1)
               /\ TurnsTyped(w, n)
               /\ TurnsTyped(Upsert(w, row), n + 1)
               /\ \A a \in w : a.turn # n + 1 /\ a.count # e.count
               /\ \A a \in w : \E b \in r.turns :
                     a = b \/ a = [b EXCEPT !.count = NoCount]
               /\ \A b \in r.turns : b.count # e.count => b \in w
<1>. DEFINE row == TurnRow(n + 1, NoMessage, NoMessage, "completed", n + 1, n + 1, n + 1, e.count)
            w == WithoutConflict(r.turns, e)
            f == [b \in r.turns |-> IF b.count = e.count /\ b.turn # e.turn
                                    THEN [b EXCEPT !.count = NoCount] ELSE b]
<1>1. \A b \in r.turns : b \in RowType(n) /\ b.turn \in TurnNames(n) /\ b.turn # n + 1
  BY NextInstant, RowNumbers DEF TurnsTyped
<1>2. CapturedTurn(r, e) = row
  BY <1>1 DEF CapturedTurn, Known
<1>3. row \in RowType(n + 1)
  <2>1. n + 1 \in 1..(n + 1) /\ n + 1 \in 0..(n + 1) /\ 0 \in 0..(n + 1) /\ e.count \in Nat
    OBVIOUS
  <2>. QED
    BY <2>1 DEF RowType, TurnRow, TurnStates, TurnNames, NoMessage
<1>4. row.turn = n + 1 /\ row.count = e.count
  BY DEF TurnRow
<1>5. w = {f[b] : b \in r.turns}
  BY DEF WithoutConflict
<1>6. ASSUME NEW b \in r.turns
      PROVE  /\ f[b] \in RowType(n) /\ f[b].turn = b.turn
             /\ f[b].count = IF b.count = e.count THEN NoCount ELSE b.count
             /\ f[b] = b \/ f[b] = [b EXCEPT !.count = NoCount]
             /\ b.count # e.count => f[b] = b
  <2>1. f[b] = IF b.count = e.count THEN [b EXCEPT !.count = NoCount] ELSE b
    BY <1>1
  <2>. HIDE DEF f
  <2>2. CASE b.count = e.count
    BY <1>1, <2>1, <2>2 DEF RowType, NoCount
  <2>3. CASE b.count # e.count
    BY <1>1, <2>1, <2>3
  <2>. QED
    BY <2>2, <2>3
<1>7. IsFiniteSet(w)
  <2>1. f \in Surjection(r.turns, w)
    BY <1>5 DEF Surjection
  <2>. QED
    BY <2>1, FS_Surjection DEF TurnsTyped
<1>. HIDE DEF row, w, f
<1>8. TurnsTyped(w, n)
  <2>1. w \subseteq RowType(n)
    BY <1>5, <1>6
  <2>2. ASSUME NEW a \in w, NEW b \in w, a.turn = b.turn
        PROVE  a = b
    <3>1. PICK p \in r.turns : a = f[p]
      BY <1>5
    <3>2. PICK q \in r.turns : b = f[q]
      BY <1>5
    <3>3. p.turn = q.turn
      BY <1>6, <2>2, <3>1, <3>2
    <3>. QED
      BY <3>1, <3>2, <3>3 DEF TurnsTyped
  <2>3. ASSUME NEW a \in w, NEW b \in w, a.count = b.count, a.count # NoCount
        PROVE  a = b
    <3>1. PICK p \in r.turns : a = f[p]
      BY <1>5
    <3>2. PICK q \in r.turns : b = f[q]
      BY <1>5
    <3>3. p.count = a.count /\ q.count = b.count
      BY <1>6, <2>3, <3>1, <3>2
    <3>4. p = q
      BY <2>3, <3>3 DEF TurnsTyped
    <3>. QED
      BY <3>1, <3>2, <3>4
  <2>. QED
    BY <1>7, <2>1, <2>2, <2>3 DEF TurnsTyped
<1>9. \A a \in w : a.turn # n + 1 /\ a.count # e.count
  <2>1. ASSUME NEW a \in w
        PROVE  a.turn # n + 1 /\ a.count # e.count
    <3>1. PICK b \in r.turns : a = f[b]
      BY <1>5
    <3>. QED
      BY <1>1, <1>6, <3>1 DEF NoCount
  <2>. QED
    BY <2>1
<1>10. TurnsTyped(Upsert(w, row), n + 1)
  <2>1. TurnsTyped(w, n + 1)
    BY <1>8, TypesGrow DEF TurnsTyped
  <2>2. n + 1 \in Nat
    OBVIOUS
  <2>. QED
    BY <1>3, <1>4, <1>9, <2>1, <2>2, UpsertTyped
<1>11. \A a \in w : \E b \in r.turns : a = b \/ a = [b EXCEPT !.count = NoCount]
  <2>1. ASSUME NEW a \in w
        PROVE  \E b \in r.turns : a = b \/ a = [b EXCEPT !.count = NoCount]
    <3>1. PICK b \in r.turns : a = f[b]
      BY <1>5
    <3>. QED
      BY <1>6, <3>1
  <2>. QED
    BY <2>1
<1>12. \A b \in r.turns : b.count # e.count => b \in w
  BY <1>5, <1>6
<1>. QED
  BY <1>2, <1>3, <1>8, <1>9, <1>10, <1>11, <1>12 DEF row, w

\* What a capture changes in memory.
LEMMA CaptureChanges ==
    ASSUME NEW t, NEW n \in Nat, n < MaxNow, ThreadTyped(t, n), Room(t), NEW e,
           e.type = "thread.turn-diff-completed", e.turn = n + 1, e.at = n + 1,
           e.count \in Nat \ {0}
    PROVE  LET u == ProjectEvent(t, e)
               made == [turn |-> n + 1, count |-> e.count, at |-> n + 1]
               z == Placed(t.checkpoints, made)
               turn == [id |-> n + 1, state |-> "completed", requestedAt |-> n + 1,
                        startedAt |-> n + 1, completedAt |-> n + 1]
           IN  /\ u = [t EXCEPT !.checkpoints = z, !.turn = turn]
               /\ made \in Checkpoints(n + 1)
               /\ TurnTyped(turn, n + 1)
<1>. DEFINE s == t.checkpoints
            made == [turn |-> n + 1, count |-> e.count, at |-> n + 1]
            z == Placed(s, made)
            turn == [id |-> n + 1, state |-> "completed", requestedAt |-> n + 1,
                     startedAt |-> n + 1, completedAt |-> n + 1]
            others == {i \in DOMAIN s : s[i].turn # n + 1}
<1>1. made \in Checkpoints(n + 1) /\ made.count = e.count /\ made.at = n + 1
  BY DEF Checkpoints, TurnNames
<1>2. s \in Seq(Checkpoints(n)) /\ \A i, j \in DOMAIN s : i < j => s[i].count <= s[j].count
  BY DEF ThreadTyped
<1>3. \A i \in DOMAIN s : s[i].turn # n + 1
  <2>1. \A c \in Checkpoints(n) : c.turn \in TurnNames(n)
    BY DEF Checkpoints
  <2>. QED
    BY <1>2, <2>1, NextInstant
<1>4. others = DOMAIN s
  BY <1>3
<1>5. t.turn.id # n + 1
  <2>1. t.turn.id \in {NoTurnId} \cup TurnNames(n)
    BY DEF ThreadTyped, TurnTyped, TurnType
  <2>2. n + 1 # 0
    OBVIOUS
  <2>. QED
    BY <2>1, <2>2, NextInstant DEF NoTurnId
<1>6. z \in Seq(Checkpoints(n + 1)) /\ Len(z) = Len(s) + 1
  <2>. HIDE DEF s, made
  <2>. QED
    BY <1>1, <1>2, CheckpointPlaced
<1>7. Newest(z, MaxCheckpoints) = z
  <2>. HIDE DEF z
  <2>1. Len(z) <= MaxCheckpoints
    BY <1>2, <1>6, Caps DEF Room
  <2>. QED
    BY <1>6, <2>1, Caps, WholeIsNewest
<1>8. ProjectEvent(t, e) = TurnDiffCompleted(t, e)
  BY DEF ProjectEvent
<1>9. TurnDiffCompleted(t, e) =
        [t EXCEPT
            !.checkpoints = Newest(AtPlaces(s, {i \in others : s[i].count <= e.count}) \o <<made>>
                                     \o AtPlaces(s, {i \in others : s[i].count > e.count}),
                                   MaxCheckpoints),
            !.turn = turn]
  BY <1>5 DEF TurnDiffCompleted
<1>10. TurnDiffCompleted(t, e) = [t EXCEPT !.checkpoints = z, !.turn = turn]
  <2>1. AtPlaces(s, {i \in others : s[i].count <= e.count}) \o <<made>>
            \o AtPlaces(s, {i \in others : s[i].count > e.count}) = z
    <3>. HIDE DEF others, made, s
    <3>. QED
      BY <1>1, <1>4 DEF Placed
  <2>. HIDE DEF others, made, turn, z
  <2>. QED
    BY <1>7, <1>9, <2>1
<1>11. TurnTyped(turn, n + 1)
  <2>1. n + 1 \in 1..(n + 1) /\ n + 1 \in 0..(n + 1) /\ n + 1 # 0
    OBVIOUS
  <2>. QED
    BY <2>1 DEF TurnTyped, TurnType, TurnNames, TurnStates, NoTurnId
<1>. QED
  BY <1>1, <1>8, <1>10, <1>11

LEMMA CaptureElsewhere ==
    ASSUME NEW r, NEW e, e.type = "thread.turn-diff-completed"
    PROVE  LET v == ProjectRows(r, e)
           IN  /\ v.messages = r.messages /\ v.activities = r.activities
               /\ v.session = r.session /\ v.pending = r.pending
               /\ v.thread = [r.thread EXCEPT !.latestTurn = e.turn]
               /\ v.turns = Upsert(WithoutConflict(r.turns, e), CapturedTurn(r, e))
<1>1. /\ MessageRows(r, e) = r.messages /\ ActivityRows(r, e) = r.activities
      /\ SessionRow(r, e) = r.session /\ PendingRow(r, e) = r.pending
      /\ ThreadRow(r.thread, e) = [r.thread EXCEPT !.latestTurn = e.turn]
  BY DEF MessageRows, ActivityRows, SessionRow, PendingRow, ThreadRow
<1>2. TurnRows(r, e) = Upsert(WithoutConflict(r.turns, e), CapturedTurn(r, e))
  BY DEF TurnRows
<1>. QED
  BY <1>1, <1>2 DEF ProjectRows

LEMMA CaptureStep ==
    ASSUME NEW t, NEW r, NEW n \in Nat, n < MaxNow, Agree(t, r, n), Room(t), NEW e,
           e.type = "thread.turn-diff-completed", e.turn = n + 1, e.at = n + 1,
           e.count \in Nat \ {0}
    PROVE  Step(t, r, n, ProjectEvent(t, e), ProjectRows(r, e), n + 1)
<1>. DEFINE u == ProjectEvent(t, e)
            v == ProjectRows(r, e)
            s == t.checkpoints
            made == [turn |-> n + 1, count |-> e.count, at |-> n + 1]
            z == Placed(s, made)
            turn == [id |-> n + 1, state |-> "completed", requestedAt |-> n + 1,
                     startedAt |-> n + 1, completedAt |-> n + 1]
            row == TurnRow(n + 1, NoMessage, NoMessage, "completed", n + 1, n + 1, n + 1, e.count)
            w == WithoutConflict(r.turns, e)
<1>1. Step(t, r, n, t, r, n + 1) /\ Agree(t, r, n + 1)
  BY TimePasses DEF Step
<1>2. /\ ThreadTyped(t, n) /\ TurnsTyped(r.turns, n) /\ DOMAIN t = ThreadFields
      /\ DOMAIN r.thread = RowFields /\ s \in Seq(Checkpoints(n))
      /\ \A i, j \in DOMAIN s : i < j => s[i].count <= s[j].count
  BY DEF Agree, ThreadTyped, RowsTyped
<1>3. /\ u = [t EXCEPT !.checkpoints = z, !.turn = turn]
      /\ made \in Checkpoints(n + 1)
      /\ TurnTyped(turn, n + 1)
  BY <1>2, CaptureChanges
<1>4. /\ v.messages = r.messages /\ v.activities = r.activities
      /\ v.session = r.session /\ v.pending = r.pending
      /\ v.thread = [r.thread EXCEPT !.latestTurn = e.turn]
      /\ v.turns = Upsert(w, row)
      /\ row \in RowType(n + 1)
      /\ TurnsTyped(w, n)
      /\ TurnsTyped(Upsert(w, row), n + 1)
      /\ \A a \in w : a.turn # n + 1 /\ a.count # e.count
      /\ \A a \in w : \E b \in r.turns :
            a = b \/ a = [b EXCEPT !.count = NoCount]
      /\ \A b \in r.turns : b.count # e.count => b \in w
  <2>1. CapturedTurn(r, e) = row
    BY <1>2, CaptureRows
  <2>. QED
    BY <1>2, <2>1, CaptureRows, CaptureElsewhere
<1>5. /\ row.turn = n + 1 /\ row.count = e.count /\ row.state = "completed"
      /\ row.requestedAt = n + 1 /\ row.startedAt = n + 1 /\ row.completedAt = n + 1
      /\ row.pending = NoMessage /\ row.assistant = NoMessage
  BY DEF TurnRow
<1>6. made.turn = n + 1 /\ made.count = e.count /\ made.at = n + 1 /\ Made(row) = made
  BY <1>5 DEF Made
<1>7. /\ turn.id = n + 1 /\ turn.state = "completed" /\ Times(turn) = {n + 1}
      /\ TurnOf(row) = turn
  BY <1>5 DEF Times, TurnOf
<1>8. row \in v.turns /\ \A a \in v.turns : a = row \/ a \in w
  BY <1>4 DEF Upsert
<1>9. \A a \in w : a \in v.turns
  BY <1>4, <1>5 DEF Upsert
<1>. HIDE DEF u, v, s, made, z, turn, row, w
<1>10. /\ z \in Seq(Checkpoints(n + 1))
       /\ \A i \in DOMAIN z : z[i] = made \/ \E j \in DOMAIN s : z[i] = s[j]
       /\ \E i \in DOMAIN z : z[i] = made
       /\ \A j \in DOMAIN s : \E i \in DOMAIN z : z[i] = s[j]
       /\ \A i, j \in DOMAIN z : i < j => z[i].count <= z[j].count
       /\ (\A i, j \in DOMAIN s : i < j /\ s[i].count = s[j].count => s[i].at < s[j].at)
          => \A i, j \in DOMAIN z : i < j /\ z[i].count = z[j].count => z[i].at < z[j].at
       /\ (\A i, j \in DOMAIN z : i < j => z[i].at < z[j].at) => z[Len(z)] = made
  BY <1>2, <1>3, <1>6, CheckpointPlaced DEF z
<1>11. /\ DOMAIN u = ThreadFields /\ u.checkpoints = z /\ u.turn = turn
       /\ \A f \in ThreadFields \ {"checkpoints", "turn"} : u[f] = t[f]
  BY <1>2, <1>3 DEF ThreadFields
<1>12. /\ u.messages = t.messages /\ u.activities = t.activities /\ u.session = t.session
       /\ u.deleted = t.deleted /\ u.settled = t.settled
       /\ u.lastInteractedAt = t.lastInteractedAt
  BY <1>11 DEF ThreadFields, Plain
<1>13. /\ DOMAIN v.thread = RowFields
       /\ \A f \in Plain \cup {"lastInteractedAt"} : v.thread[f] = r.thread[f]
  BY <1>2, <1>4 DEF RowFields, Plain
<1>14. SameRow(u, v.thread)
  <2>1. Plain \subseteq ThreadFields \ {"checkpoints", "turn"}
    BY DEF Plain, ThreadFields
  <2>. QED
    BY <1>1, <1>11, <1>13, <2>1 DEF SameRow, Agree
<1>15. ThreadTyped(u, n + 1)
  BY <1>1, <1>3, <1>10, <1>11, <1>12 DEF Agree, ThreadTyped
<1>16. RowsTyped(v, n + 1)
  <2>1. SnoozeTyped(v.thread)
    BY <1>1, <1>13 DEF Agree, RowsTyped, SnoozeTyped, Plain
  <2>. QED
    BY <1>1, <1>4, <1>13, <2>1 DEF Agree, RowsTyped
<1>17. ASSUME ~u.deleted
       PROVE  Mirrored(u, v, n + 1)
  <2>1. ~t.deleted /\ Mirrored(t, r, n + 1) /\ CheckpointsMatch(s, r.turns, n + 1)
    BY <1>1, <1>12, <1>17 DEF Agree, Mirrored, s
  <2>2. SameLists(u, v)
    BY <1>4, <1>12, <2>1 DEF Mirrored, SameLists
  <2>3. AtRest(u)
    BY <1>7, <1>11, <1>12, <2>1 DEF Mirrored, AtRest
  <2>4. TurnsMatch(u.turn, v.turns)
    <3>1. LatestTurn(v.turns) = turn
      BY <1>4, <1>5, <1>7, LatestInserted
    <3>2. \A x \in Times(turn) : \E y \in Times(turn) : x <= y
      BY <1>7
    <3>. QED
      BY <1>5, <1>7, <1>8, <1>11, <3>1, <3>2 DEF TurnsMatch
  <2>5. ASSUME NEW a \in v.turns
        PROVE  OfCapture(a, n + 1) /\ (a.count # NoCount => a.turn \in 1..(n + 1))
    <3>1. CASE a = row
      BY <1>5, <3>1 DEF OfCapture
    <3>2. CASE a \in w
      <4>1. PICK b \in r.turns : a = b \/ a = [b EXCEPT !.count = NoCount]
        BY <1>4, <3>2
      <4>2. OfCapture(b, n + 1) /\ (b.count # NoCount => b.turn \in 1..(n + 1))
        BY <2>1 DEF CheckpointsMatch
      <4>3. b \in RowType(n)
        BY <1>2 DEF TurnsTyped
      <4>4. CASE a = [b EXCEPT !.count = NoCount]
        <5>1. /\ a.turn = b.turn /\ a.count = NoCount /\ a.state = b.state
              /\ a.requestedAt = b.requestedAt /\ a.startedAt = b.startedAt
              /\ a.completedAt = b.completedAt
              /\ a.pending = b.pending /\ a.assistant = b.assistant
          BY <4>3, <4>4 DEF RowType
        <5>. QED
          BY <4>2, <5>1 DEF OfCapture
      <4>. QED
        BY <4>1, <4>2, <4>4
    <3>. QED
      BY <1>8, <3>1, <3>2
  <2>6. \A i \in DOMAIN z : z[i].turn = z[i].at
    BY <1>6, <1>10, <2>1 DEF CheckpointsMatch
  <2>7. \A i, j \in DOMAIN z : i < j /\ z[i].count = z[j].count => z[i].at < z[j].at
    BY <1>10, <2>1 DEF CheckpointsMatch
  <2>8. ASSUME NEW a \in v.turns, a.count # NoCount
        PROVE  \E i \in DOMAIN z : z[i] = Made(a)
    <3>1. CASE a = row
      BY <1>6, <1>10, <3>1
    <3>2. CASE a \in w
      <4>1. PICK b \in r.turns : a = b \/ a = [b EXCEPT !.count = NoCount]
        BY <1>4, <3>2
      <4>2. b \in RowType(n)
        BY <1>2 DEF TurnsTyped
      <4>3. a = b
        BY <2>8, <4>1, <4>2 DEF RowType
      <4>4. PICK j \in DOMAIN s : s[j] = Made(a)
        BY <2>1, <2>8, <4>3 DEF CheckpointsMatch
      <4>. QED
        BY <1>10, <4>4
    <3>. QED
      BY <1>8, <3>1, <3>2
  <2>9. ASSUME NEW i \in DOMAIN z
        PROVE  \E a \in v.turns : a.count = z[i].count /\ z[i].at <= a.turn
    <3>1. z[i].count = e.count => z[i].at <= n + 1
      <4>1. z[i] \in Checkpoints(n + 1)
        BY <1>10
      <4>2. z[i].at \in 0..(n + 1)
        BY <4>1 DEF Checkpoints
      <4>. QED
        BY <4>2
    <3>2. CASE z[i].count = e.count
      BY <1>5, <1>8, <3>1, <3>2
    <3>3. CASE z[i].count # e.count
      <4>1. PICK j \in DOMAIN s : z[i] = s[j]
        BY <1>6, <1>10, <3>3
      <4>2. PICK b \in r.turns : b.count = s[j].count /\ s[j].at <= b.turn
        BY <2>1 DEF CheckpointsMatch
      <4>3. b \in v.turns
        BY <1>4, <1>9, <3>3, <4>1, <4>2
      <4>. QED
        BY <4>1, <4>2, <4>3
    <3>. QED
      BY <3>2, <3>3
  <2>10. CheckpointsMatch(u.checkpoints, v.turns, n + 1)
    BY <1>11, <2>5, <2>6, <2>7, <2>8, <2>9 DEF CheckpointsMatch
  <2>. QED
    BY <2>2, <2>3, <2>4, <2>10 DEF Mirrored
<1>18. ASSUME CapturesOnly(t, r, n + 1)
       PROVE  CapturesOnly(u, v, n + 1)
  <2>1. ASSUME NEW a \in v.turns
        PROVE  a.turn \in 1..(n + 1)
    <3>1. CASE a = row
      BY <1>5, <3>1
    <3>2. CASE a \in w
      <4>1. PICK b \in r.turns : a = b \/ a = [b EXCEPT !.count = NoCount]
        BY <1>4, <3>2
      <4>2. b \in RowType(n)
        BY <1>2 DEF TurnsTyped
      <4>3. a.turn = b.turn
        BY <4>1, <4>2 DEF RowType
      <4>. QED
        BY <1>18, <4>3 DEF CapturesOnly
    <3>. QED
      BY <1>8, <3>1, <3>2
  <2>2. \A a \in v.turns : row.count # NoCount /\ a.turn <= row.turn
    BY <1>5, <2>1 DEF NoCount
  <2>3. ASSUME CapturedInOrder(u)
        PROVE  TurnIsLast(u.turn, u.checkpoints)
    <3>1. \A i, j \in DOMAIN z : i < j => z[i].at < z[j].at
      BY <1>11, <2>3 DEF CapturedInOrder
    <3>2. z[Len(z)] = made /\ z # <<>>
      BY <1>10, <3>1
    <3>3. Last(z) = made
      BY <3>2 DEF Last
    <3>. QED
      BY <1>6, <1>7, <1>11, <3>2, <3>3 DEF TurnIsLast
  <2>4. v.thread.lastInteractedAt = u.lastInteractedAt /\ u.session = NoSession
    BY <1>12, <1>13, <1>18 DEF CapturesOnly
  <2>. QED
    BY <1>7, <1>8, <1>11, <2>1, <2>2, <2>3, <2>4 DEF CapturesOnly
<1>19. Step(t, r, n + 1, u, v, n + 1)
  BY <1>12, <1>14, <1>15, <1>16, <1>17, <1>18 DEF Agree, Step
<1>. QED
  BY <1>1, <1>19, StepsCompose DEF u, v

-----------------------------------------------------------------------------
(* Reverts.                                                                    *)

\* When no message belongs to the turns that remain, it does not matter which remain.
LEMMA RetainedAlike ==
    ASSUME NEW messages, NEW A, NEW B, NEW named, NEW c,
           \A i \in DOMAIN messages : /\ messages[i].turn \notin A /\ messages[i].turn \notin B
                                      /\ messages[i].id \notin named
    PROVE  RetainMessages(messages, A, {}, c) = RetainMessages(messages, B, named, c)
<1>. DEFINE a0 == {messages[i].id : i \in {j \in DOMAIN messages :
                      \/ messages[j].role = "system" \/ messages[j].id \in {}
                      \/ messages[j].turn \in A}}
            b0 == {messages[i].id : i \in {j \in DOMAIN messages :
                      \/ messages[j].role = "system" \/ messages[j].id \in named
                      \/ messages[j].turn \in B}}
            a1 == a0 \cup OldestOthers(messages, a0, A, "user", c)
            b1 == b0 \cup OldestOthers(messages, b0, B, "user", c)
            a2 == a1 \cup OldestOthers(messages, a1, A, "assistant", c)
            b2 == b1 \cup OldestOthers(messages, b1, B, "assistant", c)
<1>1. a0 = b0
  <2>1. {j \in DOMAIN messages : \/ messages[j].role = "system" \/ messages[j].id \in {}
                                 \/ messages[j].turn \in A}
        = {j \in DOMAIN messages : \/ messages[j].role = "system" \/ messages[j].id \in named
                                   \/ messages[j].turn \in B}
    OBVIOUS
  <2>. QED
    BY <2>1
<1>2. ASSUME NEW kept, NEW role
      PROVE  OldestOthers(messages, kept, A, role, c) = OldestOthers(messages, kept, B, role, c)
  <2>1. {i \in DOMAIN messages : /\ messages[i].role = role
                                 /\ messages[i].id \notin kept
                                 /\ messages[i].turn \in A \cup {NoTurnId}}
        = {i \in DOMAIN messages : /\ messages[i].role = role
                                   /\ messages[i].id \notin kept
                                   /\ messages[i].turn \in B \cup {NoTurnId}}
    OBVIOUS
  <2>. QED
    BY <2>1 DEF OldestOthers
<1>3. RetainMessages(messages, A, {}, c)
        = AtPlaces(messages, {i \in DOMAIN messages : messages[i].id \in a2})
  BY DEF RetainMessages
<1>4. RetainMessages(messages, B, named, c)
        = AtPlaces(messages, {i \in DOMAIN messages : messages[i].id \in b2})
  BY DEF RetainMessages
<1>5. a1 = a0 \cup OldestOthers(messages, a0, A, "user", c)
      /\ b1 = b0 \cup OldestOthers(messages, b0, B, "user", c)
      /\ a2 = a1 \cup OldestOthers(messages, a1, A, "assistant", c)
      /\ b2 = b1 \cup OldestOthers(messages, b1, B, "assistant", c)
  OBVIOUS
<1>. HIDE DEF a0, b0, a1, b1, a2, b2
<1>6. a1 = b1
  BY <1>1, <1>2, <1>5
<1>7. a2 = b2
  BY <1>2, <1>5, <1>6
<1>. QED
  BY <1>3, <1>4, <1>7

LEMMA RetainedTyped ==
    ASSUME NEW X, NEW messages \in Seq(X), NEW A, NEW named, NEW c
    PROVE  RetainMessages(messages, A, named, c) \in Seq(X)
<1>1. \A S \in SUBSET DOMAIN messages : AtPlaces(messages, S) \in Seq(X)
  BY AtPlacesElements
<1>2. \A Z : {i \in DOMAIN messages : messages[i].id \in Z} \in SUBSET DOMAIN messages
  OBVIOUS
<1>. QED
  BY <1>1, <1>2 DEF RetainMessages

\* Activities belong to no turn, so all stay.
LEMMA ActivitiesStay ==
    ASSUME NEW s \in Seq(Activities), NEW A
    PROVE  RetainActivities(s, A) = s
<1>1. \A a \in Activities : a.turn \in A \cup {NoTurnId}
  BY DEF Activities
<1>2. {i \in DOMAIN s : s[i].turn \in A \cup {NoTurnId}} = DOMAIN s
  <2>1. \A i \in DOMAIN s : s[i] \in Activities
    OBVIOUS
  <2>. QED
    BY <1>1, <2>1
<1>. QED
  BY <1>2, AtAllPlaces DEF RetainActivities

RevertedTurn(kept) ==
    IF kept = <<>> THEN NoTurn
    ELSE [id |-> kept[Len(kept)].turn, state |-> "completed",
          requestedAt |-> kept[Len(kept)].at, startedAt |-> kept[Len(kept)].at,
          completedAt |-> kept[Len(kept)].at]

KeptCheckpointsOf(t, c) ==
    AtPlaces(t.checkpoints, {i \in DOMAIN t.checkpoints : t.checkpoints[i].count <= c})
TurnsIn(checkpoints) == {checkpoints[i].turn : i \in DOMAIN checkpoints}
NamedBy(turns) == UNION {{row.pending, row.assistant} : row \in turns}

LEMMA RevertChanges ==
    ASSUME NEW t, NEW r, NEW e, e.type = "thread.reverted"
    PROVE  /\ ProjectEvent(t, e) =
                [t EXCEPT !.checkpoints = KeptCheckpointsOf(t, e.count),
                          !.messages = RetainMessages(t.messages,
                                TurnsIn(KeptCheckpointsOf(t, e.count)), {}, e.count),
                          !.activities = RetainActivities(t.activities,
                                TurnsIn(KeptCheckpointsOf(t, e.count))),
                          !.turn = RevertedTurn(KeptCheckpointsOf(t, e.count))]
           /\ ProjectRows(r, e).messages =
                RetainMessages(r.messages, TurnIds(KeptTurns(r.turns, e.count)),
                               NamedBy(KeptTurns(r.turns, e.count)), e.count)
           /\ ProjectRows(r, e).activities =
                RetainActivities(r.activities, TurnIds(KeptTurns(r.turns, e.count)))
           /\ ProjectRows(r, e).session = r.session
           /\ ProjectRows(r, e).turns = KeptTurns(r.turns, e.count)
           /\ ProjectRows(r, e).pending = NoMessage
           /\ ProjectRows(r, e).thread = [r.thread EXCEPT !.latestTurn = NoTurnId]
<1>1. ProjectEvent(t, e) = Reverted(t, e)
  BY DEF ProjectEvent
<1>2. /\ MessageRows(r, e) = RetainMessages(r.messages, TurnIds(KeptTurns(r.turns, e.count)),
                                 NamedBy(KeptTurns(r.turns, e.count)), e.count)
      /\ ActivityRows(r, e) = RetainActivities(r.activities, TurnIds(KeptTurns(r.turns, e.count)))
      /\ SessionRow(r, e) = r.session /\ PendingRow(r, e) = NoMessage
      /\ ThreadRow(r.thread, e) = [r.thread EXCEPT !.latestTurn = NoTurnId]
  BY DEF MessageRows, ActivityRows, SessionRow, PendingRow, ThreadRow, NamedBy
<1>3. TurnRows(r, e) = KeptTurns(r.turns, e.count)
  BY DEF TurnRows
<1>4. Reverted(t, e) =
        [t EXCEPT !.checkpoints = KeptCheckpointsOf(t, e.count),
                  !.messages = RetainMessages(t.messages,
                        TurnsIn(KeptCheckpointsOf(t, e.count)), {}, e.count),
                  !.activities = RetainActivities(t.activities,
                        TurnsIn(KeptCheckpointsOf(t, e.count))),
                  !.turn = RevertedTurn(KeptCheckpointsOf(t, e.count))]
  BY DEF Reverted, RevertedTurn, KeptCheckpointsOf, TurnsIn
<1>. QED
  BY <1>1, <1>2, <1>3, <1>4 DEF ProjectRows

\* The checkpoints that a revert keeps.
LEMMA KeptCheckpoints ==
    ASSUME NEW n \in Nat, NEW s \in Seq(Checkpoints(n)), NEW c,
           \A i, j \in DOMAIN s : i < j => s[i].count <= s[j].count
    PROVE  LET kept == AtPlaces(s, {i \in DOMAIN s : s[i].count <= c})
           IN  /\ kept \in Seq(Checkpoints(n))
               /\ \A i, j \in DOMAIN kept : i < j => kept[i].count <= kept[j].count
               /\ \A i \in DOMAIN kept :
                     \E k \in DOMAIN s : kept[i] = s[k] /\ s[k].count <= c
               /\ \A k \in DOMAIN s : s[k].count <= c => \E i \in DOMAIN kept : kept[i] = s[k]
               /\ (\A i, j \in DOMAIN s : i < j /\ s[i].count = s[j].count => s[i].at < s[j].at)
                  => \A i, j \in DOMAIN kept :
                        i < j /\ kept[i].count = kept[j].count => kept[i].at < kept[j].at
<1>. DEFINE K == {i \in DOMAIN s : s[i].count <= c}
            kept == AtPlaces(s, K)
<1>1. K \in SUBSET DOMAIN s /\ \A i \in DOMAIN s : i \in K <=> s[i].count <= c
  OBVIOUS
<1>. HIDE DEF K
<1>2. /\ kept \in Seq(Checkpoints(n))
      /\ \A i \in DOMAIN kept : Nth(K, i) \in K /\ kept[i] = s[Nth(K, i)]
      /\ \A i, j \in DOMAIN kept : i < j => Nth(K, i) < Nth(K, j)
      /\ \A k \in K : \E i \in DOMAIN kept : kept[i] = s[k] /\ Nth(K, i) = k
  BY <1>1, AtPlacesElements
<1>. HIDE DEF kept
<1>3. \A i, j \in DOMAIN kept : i < j => kept[i].count <= kept[j].count
  BY <1>1, <1>2
<1>4. \A i \in DOMAIN kept : \E k \in DOMAIN s : kept[i] = s[k] /\ s[k].count <= c
  BY <1>1, <1>2
<1>5. \A k \in DOMAIN s : s[k].count <= c => \E i \in DOMAIN kept : kept[i] = s[k]
  BY <1>1, <1>2
<1>6. ASSUME \A i, j \in DOMAIN s : i < j /\ s[i].count = s[j].count => s[i].at < s[j].at
      PROVE  \A i, j \in DOMAIN kept :
                i < j /\ kept[i].count = kept[j].count => kept[i].at < kept[j].at
  BY <1>1, <1>2, <1>6
<1>7. /\ kept \in Seq(Checkpoints(n))
      /\ \A i, j \in DOMAIN kept : i < j => kept[i].count <= kept[j].count
      /\ \A i \in DOMAIN kept : \E k \in DOMAIN s : kept[i] = s[k] /\ s[k].count <= c
      /\ \A k \in DOMAIN s : s[k].count <= c => \E i \in DOMAIN kept : kept[i] = s[k]
      /\ (\A i, j \in DOMAIN s : i < j /\ s[i].count = s[j].count => s[i].at < s[j].at)
         => \A i, j \in DOMAIN kept :
               i < j /\ kept[i].count = kept[j].count => kept[i].at < kept[j].at
  BY <1>2, <1>3, <1>4, <1>5, <1>6
<1>. QED
  BY <1>7 DEF kept, K

LEMMA RevertedTurnTyped ==
    ASSUME NEW n \in Nat, NEW kept \in Seq(Checkpoints(n))
    PROVE  /\ TurnTyped(RevertedTurn(kept), n)
           /\ RevertedTurn(kept).state \in {"none", "completed"}
<1>1. CASE kept = <<>>
  <2>1. RevertedTurn(kept) = NoTurn
    BY <1>1 DEF RevertedTurn
  <2>. QED
    BY <2>1 DEF TurnTyped, TurnType, TurnStates, NoTurn, NoTurnId, NoTime
<1>2. CASE kept # <<>>
  <2>. DEFINE newest == kept[Len(kept)]
  <2>1. newest \in Checkpoints(n)
    <3>1. Len(kept) \in DOMAIN kept
      BY <1>2
    <3>. QED
      BY <3>1
  <2>. HIDE DEF newest
  <2>2. newest.turn \in TurnNames(n) /\ newest.at \in 0..n
    BY <2>1 DEF Checkpoints
  <2>3. newest.turn # NoTurnId
    BY <2>2, NamesAreNumbers DEF NoTurnId
  <2>4. RevertedTurn(kept) = [id |-> newest.turn, state |-> "completed",
                              requestedAt |-> newest.at, startedAt |-> newest.at,
                              completedAt |-> newest.at]
    BY <1>2 DEF RevertedTurn, newest
  <2>. QED
    BY <2>2, <2>3, <2>4 DEF TurnTyped, TurnType, TurnStates
<1>. QED
  BY <1>1, <1>2

LEMMA KeptRows ==
    ASSUME NEW n \in Nat, NEW turns, TurnsTyped(turns, n), NEW c
    PROVE  TurnsTyped(KeptTurns(turns, c), n)
<1>1. KeptTurns(turns, c) \subseteq turns
  BY DEF KeptTurns
<1>2. IsFiniteSet(KeptTurns(turns, c))
  BY <1>1, FS_Subset DEF TurnsTyped
<1>. QED
  BY <1>1, <1>2 DEF TurnsTyped

\* Where the checkpoints that a revert keeps match the rows it keeps, the last one has a
\* row, which is as late as any turn of memory.
LEMMA LastKeptRow ==
    ASSUME NEW n \in Nat, NEW kept \in Seq(Checkpoints(n)), NEW rest, TurnsTyped(rest, n),
           CheckpointsMatch(kept, rest, n), \A row \in rest : row.count # NoCount,
           \A i, j \in DOMAIN kept : i < j => kept[i].count <= kept[j].count
    PROVE  TurnsMatch(RevertedTurn(kept), rest)
<1>1. CASE kept = <<>>
  <2>1. rest = {}
    <3>1. DOMAIN kept = {}
      BY <1>1
    <3>. QED
      BY <3>1 DEF CheckpointsMatch
  <2>2. RevertedTurn(kept) = NoTurn /\ LatestTurn(rest) = NoTurn
    BY <1>1, <2>1 DEF RevertedTurn, LatestTurn
  <2>. QED
    BY <2>2 DEF TurnsMatch, Times, NoTurn, NoTime
<1>2. CASE kept # <<>>
  <2>. DEFINE m == Len(kept)
              newest == kept[m]
  <2>1. m \in Nat /\ DOMAIN kept = 1..m /\ m \in DOMAIN kept /\ newest \in Checkpoints(n)
    <3>1. m \in Nat /\ DOMAIN kept = 1..m /\ m # 0
      BY <1>2
    <3>. QED
      BY <3>1
  <2>2. PICK row \in rest : row.count = newest.count /\ newest.at <= row.turn
    BY <2>1 DEF CheckpointsMatch
  <2>3. PICK i \in DOMAIN kept : kept[i] = Made(row)
    BY <2>2 DEF CheckpointsMatch
  <2>4. OfCapture(row, n) /\ row.turn \in 1..n
    BY <2>2 DEF CheckpointsMatch
  <2>5. kept[i].count = newest.count /\ kept[i].at = row.turn /\ kept[i].turn = row.turn
    BY <2>2, <2>3, <2>4 DEF Made, OfCapture
  <2>6. newest.at \in 0..n
    BY <2>1 DEF Checkpoints
  <2>7. i = m
    <3>1. ASSUME i # m
          PROVE  FALSE
      <4>1. i < m
        BY <2>1, <2>3, <3>1
      <4>2. kept[i].at < newest.at
        BY <2>1, <2>5, <4>1 DEF CheckpointsMatch
      <4>. QED
        BY <2>2, <2>4, <2>5, <2>6, <4>2
    <3>. QED
      BY <3>1
  <2>8. newest.turn = row.turn /\ newest.at = row.turn
    BY <2>5, <2>7
  <2>9. RevertedTurn(kept) = [id |-> newest.turn, state |-> "completed",
                              requestedAt |-> newest.at, startedAt |-> newest.at,
                              completedAt |-> newest.at]
    BY <1>2 DEF RevertedTurn
  <2>. HIDE DEF newest, m
  <2>10. PICK top \in rest : LatestTurn(rest) = TurnOf(top) /\ \A s \in rest : Later(top, s)
    BY <2>2, LatestRow
  <2>11. OfCapture(top, n) /\ top.turn \in 1..n
    BY <2>10 DEF CheckpointsMatch
  <2>12. TurnOf(top).state # "running" /\ top.requestedAt \in Times(TurnOf(top))
    BY <2>11 DEF OfCapture, TurnOf, Times
  <2>13. row.turn <= top.requestedAt
    <3>1. Later(top, row)
      BY <2>2, <2>10
    <3>2. row.requestedAt = row.turn /\ top.requestedAt = top.turn
      BY <2>4, <2>11 DEF OfCapture
    <3>. QED
      BY <2>4, <2>11, <3>1, <3>2 DEF Later
  <2>14. Times(RevertedTurn(kept)) = {row.turn} /\ RevertedTurn(kept).id = row.turn
    BY <2>8, <2>9 DEF Times
  <2>. QED
    BY <2>2, <2>10, <2>12, <2>13, <2>14 DEF TurnsMatch
<1>. QED
  BY <1>1, <1>2

LEMMA RevertStep ==
    ASSUME NEW t, NEW r, NEW n \in Nat, n < MaxNow, Agree(t, r, n), NEW e,
           e.type = "thread.reverted", e.count \in Nat
    PROVE  Step(t, r, n, ProjectEvent(t, e), ProjectRows(r, e), n)
<1>. DEFINE u == ProjectEvent(t, e)
            v == ProjectRows(r, e)
            s == t.checkpoints
            c == e.count
            kept == KeptCheckpointsOf(t, c)
            turns == TurnsIn(kept)
            rest == KeptTurns(r.turns, c)
            named == NamedBy(rest)
            told == RetainMessages(t.messages, turns, {}, c)
            stored == RetainMessages(r.messages, TurnIds(rest), named, c)
            turn == RevertedTurn(kept)
<1>1. /\ ThreadTyped(t, n) /\ RowsTyped(r, n) /\ TurnsTyped(r.turns, n)
      /\ DOMAIN t = ThreadFields /\ DOMAIN r.thread = RowFields
      /\ s \in Seq(Checkpoints(n))
      /\ \A i, j \in DOMAIN s : i < j => s[i].count <= s[j].count
      /\ t.messages \in Seq(Messages(n)) /\ r.messages \in Seq(Messages(n))
      /\ t.activities \in Seq(Activities) /\ r.activities \in Seq(Activities)
  BY DEF Agree, ThreadTyped, RowsTyped
<1>2. /\ u = [t EXCEPT !.checkpoints = kept, !.messages = told,
                       !.activities = RetainActivities(t.activities, turns), !.turn = turn]
      /\ v.messages = stored
      /\ v.activities = RetainActivities(r.activities, TurnIds(rest))
      /\ v.session = r.session /\ v.turns = rest
      /\ v.pending = NoMessage
      /\ v.thread = [r.thread EXCEPT !.latestTurn = NoTurnId]
  BY RevertChanges
<1>3. /\ RetainActivities(t.activities, turns) = t.activities
      /\ v.activities = r.activities
  BY <1>1, <1>2, ActivitiesStay
<1>4. told \in Seq(Messages(n)) /\ stored \in Seq(Messages(n))
  BY <1>1, RetainedTyped
<1>5. /\ kept \in Seq(Checkpoints(n))
      /\ \A i, j \in DOMAIN kept : i < j => kept[i].count <= kept[j].count
      /\ \A i \in DOMAIN kept :
            \E k \in DOMAIN s : kept[i] = s[k] /\ s[k].count <= c
      /\ \A k \in DOMAIN s : s[k].count <= c => \E i \in DOMAIN kept : kept[i] = s[k]
      /\ (\A i, j \in DOMAIN s : i < j /\ s[i].count = s[j].count => s[i].at < s[j].at)
         => \A i, j \in DOMAIN kept :
               i < j /\ kept[i].count = kept[j].count => kept[i].at < kept[j].at
  <2>. DEFINE places == {i \in DOMAIN s : s[i].count <= c}
  <2>1. kept = AtPlaces(s, places)
    BY DEF KeptCheckpointsOf
  <2>2. s \in Seq(Checkpoints(n)) /\ \A i, j \in DOMAIN s : i < j => s[i].count <= s[j].count
    BY <1>1
  <2>. HIDE DEF s, c, kept
  <2>3. LET all == AtPlaces(s, {i \in DOMAIN s : s[i].count <= c})
        IN  /\ all \in Seq(Checkpoints(n))
            /\ \A i, j \in DOMAIN all : i < j => all[i].count <= all[j].count
            /\ \A i \in DOMAIN all :
                  \E k \in DOMAIN s : all[i] = s[k] /\ s[k].count <= c
            /\ \A k \in DOMAIN s : s[k].count <= c => \E i \in DOMAIN all : all[i] = s[k]
            /\ (\A i, j \in DOMAIN s : i < j /\ s[i].count = s[j].count => s[i].at < s[j].at)
               => \A i, j \in DOMAIN all :
                     i < j /\ all[i].count = all[j].count => all[i].at < all[j].at
    BY <2>2, KeptCheckpoints
  <2>. QED
    BY <2>1, <2>3
<1>6. TurnTyped(turn, n) /\ turn.state \in {"none", "completed"}
  BY <1>5, RevertedTurnTyped
<1>7. TurnsTyped(rest, n)
  BY <1>1, KeptRows
<1>8. \A row \in rest : row \in r.turns /\ row.count # NoCount /\ row.count <= c
  BY DEF KeptTurns
<1>9. \A row \in r.turns : row.count # NoCount /\ row.count <= c => row \in rest
  BY DEF KeptTurns
<1>10. \A i \in DOMAIN kept : kept[i].count \in Nat \ {0}
  <2>1. \A d \in Checkpoints(n) : d.count \in Nat \ {0}
    BY DEF Checkpoints
  <2>. QED
    BY <1>5, <2>1
<1>. DEFINE T == turns
            Z == TurnIds(rest)
<1>11. (\A x \in T : \E i \in DOMAIN kept : x = kept[i].turn)
       /\ (\A x \in Z : \E row \in rest : x = row.turn)
       /\ (\A x \in named : \E row \in rest : x \in {row.pending, row.assistant})
  BY DEF TurnIds, TurnsIn, NamedBy
<1>12. /\ DOMAIN u = ThreadFields /\ u.checkpoints = kept /\ u.messages = told
       /\ u.activities = t.activities /\ u.turn = turn
       /\ \A f \in ThreadFields \ {"checkpoints", "messages", "activities", "turn"} : u[f] = t[f]
  <2>. HIDE DEF u, v, s, c, kept, turns, rest, named, told, stored, turn
  <2>. QED
    BY <1>1, <1>2, <1>3 DEF ThreadFields
<1>13. told = RetainMessages(t.messages, T, {}, c) /\ stored = RetainMessages(r.messages, Z, named, c)
  OBVIOUS
<1>. HIDE DEF u, v, s, c, kept, turns, rest, named, told, stored, turn, T, Z
<1>14. /\ u.session = t.session /\ u.deleted = t.deleted /\ u.settled = t.settled
       /\ u.lastInteractedAt = t.lastInteractedAt
  BY <1>12 DEF ThreadFields, Plain
<1>15. /\ DOMAIN v.thread = RowFields
       /\ \A f \in Plain \cup {"lastInteractedAt"} : v.thread[f] = r.thread[f]
  BY <1>1, <1>2 DEF RowFields, Plain
<1>16. SameRow(u, v.thread)
  <2>1. Plain \subseteq ThreadFields \ {"checkpoints", "messages", "activities", "turn"}
    BY DEF Plain, ThreadFields
  <2>. QED
    BY <1>12, <1>15, <2>1 DEF SameRow, Agree
<1>17. ThreadTyped(u, n)
  BY <1>1, <1>4, <1>5, <1>6, <1>12, <1>14 DEF ThreadTyped
<1>18. RowsTyped(v, n)
  <2>1. SnoozeTyped(v.thread)
    BY <1>1, <1>15 DEF RowsTyped, SnoozeTyped, Plain
  <2>. QED
    BY <1>1, <1>2, <1>3, <1>4, <1>7, <1>15, <2>1 DEF RowsTyped, NoMessage
<1>19. ASSUME ~t.deleted
       PROVE  CheckpointsMatch(kept, rest, n) /\ CheckpointsMatch(s, r.turns, n)
  <2>1. CheckpointsMatch(s, r.turns, n)
    BY <1>19 DEF Agree, Mirrored, s
  <2>2. \A row \in rest : OfCapture(row, n) /\ row.turn \in 1..n
    BY <1>8, <2>1 DEF CheckpointsMatch
  <2>3. \A i \in DOMAIN kept : kept[i].turn = kept[i].at
    BY <1>5, <2>1 DEF CheckpointsMatch
  <2>4. \A i, j \in DOMAIN kept : i < j /\ kept[i].count = kept[j].count => kept[i].at < kept[j].at
    BY <1>5, <2>1 DEF CheckpointsMatch
  <2>5. ASSUME NEW row \in rest
        PROVE  \E i \in DOMAIN kept : kept[i] = Made(row)
    <3>1. PICK k \in DOMAIN s : s[k] = Made(row)
      BY <1>8, <2>1 DEF CheckpointsMatch
    <3>2. s[k].count <= c
      BY <1>8, <3>1 DEF Made
    <3>. QED
      BY <1>5, <3>1, <3>2
  <2>6. ASSUME NEW i \in DOMAIN kept
        PROVE  \E row \in rest : row.count = kept[i].count /\ kept[i].at <= row.turn
    <3>1. PICK k \in DOMAIN s : kept[i] = s[k] /\ s[k].count <= c
      BY <1>5
    <3>2. PICK row \in r.turns : row.count = s[k].count /\ s[k].at <= row.turn
      BY <2>1 DEF CheckpointsMatch
    <3>3. row.count # NoCount /\ row.count <= c
      BY <1>10, <3>1, <3>2 DEF NoCount
    <3>. QED
      BY <1>9, <3>1, <3>2, <3>3
  <2>. QED
    BY <2>1, <2>2, <2>3, <2>4, <2>5, <2>6 DEF CheckpointsMatch
<1>20. ASSUME ~t.deleted
       PROVE  told = stored
  <2>1. t.messages = r.messages
    BY <1>19, <1>20 DEF Agree, Mirrored, SameLists
  <2>2. \A i \in DOMAIN t.messages : /\ t.messages[i].turn \in {NoTurnId} \cup ProviderTurns
                                     /\ t.messages[i].id \in 1..n
    <3>1. \A d \in Messages(n) : d.turn \in {NoTurnId} \cup ProviderTurns /\ d.id \in 1..n
      BY DEF Messages
    <3>. QED
      BY <1>1, <3>1
  <2>3. \A x \in {NoTurnId} \cup ProviderTurns : x \notin 1..n
    BY TurnsAssumption DEF NoTurnId
  <2>4. \A x \in T : x \in 1..n
    <3>1. ASSUME NEW x \in T
          PROVE  x \in 1..n
      <4>1. PICK i \in DOMAIN kept : x = kept[i].turn
        BY <1>11
      <4>2. PICK row \in rest : row.count = kept[i].count /\ kept[i].at <= row.turn
        BY <1>19, <1>20 DEF CheckpointsMatch
      <4>3. kept[i].turn = kept[i].at /\ kept[i].at \in 0..n /\ kept[i].turn \in Nat \ {0}
        <5>1. kept[i] \in Checkpoints(n)
          BY <1>5
        <5>2. kept[i].at \in 0..n /\ kept[i].turn \in TurnNames(n)
          BY <5>1 DEF Checkpoints
        <5>3. kept[i].turn = kept[i].at
          BY <1>19, <1>20 DEF CheckpointsMatch
        <5>. QED
          BY <5>2, <5>3, NamesAreNumbers
      <4>. QED
        BY <4>1, <4>3
    <3>. QED
      BY <3>1
  <2>5. \A x \in Z : x \in 1..n
    <3>1. ASSUME NEW x \in Z
          PROVE  x \in 1..n
      <4>1. PICK row \in rest : x = row.turn
        BY <1>11
      <4>. QED
        BY <1>8, <1>19, <1>20, <4>1 DEF CheckpointsMatch
    <3>. QED
      BY <3>1
  <2>6. \A x \in named : x = 0
    <3>1. ASSUME NEW x \in named
          PROVE  x = 0
      <4>1. PICK row \in rest : x \in {row.pending, row.assistant}
        BY <1>11
      <4>2. OfCapture(row, n) /\ row.turn \in 1..n
        BY <1>8, <1>19, <1>20 DEF CheckpointsMatch
      <4>. QED
        BY <4>1, <4>2 DEF OfCapture, NoMessage
    <3>. QED
      BY <3>1
  <2>7. \A i \in DOMAIN t.messages : /\ t.messages[i].turn \notin T
                                     /\ t.messages[i].turn \notin Z
                                     /\ t.messages[i].id \notin named
    BY <2>2, <2>3, <2>4, <2>5, <2>6
  <2>8. RetainMessages(t.messages, T, {}, c) = RetainMessages(t.messages, Z, named, c)
    BY <2>7, RetainedAlike
  <2>. QED
    BY <1>13, <2>1, <2>8
<1>21. ASSUME ~u.deleted
       PROVE  Mirrored(u, v, n)
  <2>1. ~t.deleted /\ Mirrored(t, r, n)
    BY <1>14, <1>21 DEF Agree
  <2>2. SameLists(u, v)
    BY <1>2, <1>3, <1>12, <1>14, <1>20, <2>1 DEF Mirrored, SameLists
  <2>3. CheckpointsMatch(u.checkpoints, v.turns, n)
    BY <1>2, <1>12, <1>19, <2>1
  <2>4. TurnsMatch(u.turn, v.turns)
    BY <1>2, <1>5, <1>7, <1>8, <1>12, <1>19, <2>1, LastKeptRow DEF turn
  <2>5. AtRest(u)
    BY <1>6, <1>12, <1>14, <2>1 DEF Mirrored, AtRest
  <2>. QED
    BY <2>2, <2>3, <2>4, <2>5 DEF Mirrored
<1>22. ASSUME ~u.deleted, CapturesOnly(t, r, n)
       PROVE  CapturesOnly(u, v, n)
  <2>1. ~t.deleted
    BY <1>14, <1>22
  <2>2. \A row \in v.turns : row.turn \in 1..n
    BY <1>2, <1>8, <1>22 DEF CapturesOnly
  <2>3. \A row \in v.turns : \E other \in v.turns : other.count # NoCount /\ row.turn <= other.turn
    BY <1>2, <1>8, <2>2
  <2>4. turn = NoTurn \/ Times(turn) = {turn.id}
    <3>1. CASE kept = <<>>
      BY <3>1 DEF turn, RevertedTurn
    <3>2. CASE kept # <<>>
      <4>1. Len(kept) \in DOMAIN kept
        BY <1>5, <3>2
      <4>2. kept[Len(kept)].turn = kept[Len(kept)].at
        BY <1>19, <2>1, <4>1 DEF CheckpointsMatch
      <4>. QED
        BY <3>2, <4>2 DEF turn, RevertedTurn, Times
    <3>. QED
      BY <3>1, <3>2
  <2>5. TurnIsLast(u.turn, u.checkpoints)
    BY <1>12 DEF TurnIsLast, turn, RevertedTurn, Times, Last
  <2>6. v.thread.lastInteractedAt = u.lastInteractedAt /\ u.session = NoSession
    BY <1>14, <1>15, <1>22 DEF CapturesOnly
  <2>7. u.turn.state # "running" /\ u.turn = turn
    BY <1>6, <1>12
  <2>. QED
    BY <2>2, <2>3, <2>4, <2>5, <2>6, <2>7 DEF CapturesOnly
<1>. QED
  BY <1>14, <1>16, <1>17, <1>18, <1>21, <1>22 DEF Agree, Step, u, v

-----------------------------------------------------------------------------
(* Restarts.                                                                   *)

CountsOf(turns) == {row.count : row \in turns} \ {NoCount}
RowWith(turns, count) == CHOOSE row \in turns : row.count = count

LEMMA CountsFinite ==
    ASSUME NEW n \in Nat, NEW turns, TurnsTyped(turns, n)
    PROVE  CountsOf(turns) \in SUBSET Nat /\ IsFiniteSet(CountsOf(turns))
<1>. DEFINE all == {row.count : row \in turns}
            f == [row \in turns |-> row.count]
<1>1. f \in Surjection(turns, all)
  BY DEF Surjection
<1>2. IsFiniteSet(all)
  BY <1>1, FS_Surjection DEF TurnsTyped
<1>3. all \subseteq Nat
  BY RowNumbers DEF TurnsTyped
<1>. QED
  BY <1>2, <1>3, FS_Subset DEF CountsOf

\* What a restart reads as checkpoints: the rows with a count, in its order.
LEMMA CheckpointsRead ==
    ASSUME NEW n \in Nat, NEW turns, TurnsTyped(turns, n)
    PROVE  /\ CheckpointsOf(turns) \in Seq(Checkpoints(n))
           /\ \A i, j \in DOMAIN CheckpointsOf(turns) :
                 i < j => CheckpointsOf(turns)[i].count < CheckpointsOf(turns)[j].count
           /\ \A i \in DOMAIN CheckpointsOf(turns) :
                 \E row \in turns : row.count # NoCount /\ CheckpointsOf(turns)[i] = Made(row)
           /\ \A row \in turns : row.count # NoCount =>
                 \E i \in DOMAIN CheckpointsOf(turns) : CheckpointsOf(turns)[i] = Made(row)
<1>. DEFINE S == CountsOf(turns)
            N == Cardinality(S)
            s == CheckpointsOf(turns)
<1>1. S \in SUBSET Nat /\ IsFiniteSet(S)
  BY CountsFinite
<1>2. /\ N \in Nat
      /\ \A i \in 1..N : Nth(S, i) \in S
      /\ \A i, j \in 1..N : i < j => Nth(S, i) < Nth(S, j)
      /\ \A k \in S : \E i \in 1..N : Nth(S, i) = k
  BY <1>1, NthElements
<1>3. \A row \in turns : row.count # NoCount => row.count \in S
  BY DEF CountsOf
<1>4. ASSUME NEW k \in S
      PROVE  RowWith(turns, k) \in turns /\ RowWith(turns, k).count = k /\ k # NoCount
  <2>1. k # NoCount /\ \E row \in turns : row.count = k
    BY DEF CountsOf
  <2>. QED
    BY <2>1 DEF RowWith
<1>5. s = [i \in 1..N |-> [turn |-> RowWith(turns, Nth(S, i)).turn, count |-> Nth(S, i),
                           at |-> RowWith(turns, Nth(S, i)).completedAt]]
  BY DEF CheckpointsOf, CountsOf, RowWith
<1>6. DOMAIN s = 1..N
  BY <1>5
<1>7. ASSUME NEW i \in 1..N
      PROVE  /\ s[i] = Made(RowWith(turns, Nth(S, i))) /\ s[i].count = Nth(S, i)
             /\ RowWith(turns, Nth(S, i)) \in turns
             /\ RowWith(turns, Nth(S, i)).count = Nth(S, i) /\ Nth(S, i) # NoCount
             /\ s[i] \in Checkpoints(n)
  <2>. DEFINE row == RowWith(turns, Nth(S, i))
  <2>1. row \in turns /\ row.count = Nth(S, i) /\ Nth(S, i) # NoCount
    BY <1>2, <1>4
  <2>2. s[i] = [turn |-> row.turn, count |-> Nth(S, i), at |-> row.completedAt]
    BY <1>5
  <2>. HIDE DEF row, s
  <2>3. row.turn \in TurnNames(n) /\ row.completedAt \in 0..n /\ row.count \in Nat
    BY <2>1, RowNumbers DEF TurnsTyped
  <2>4. s[i] = Made(row) /\ s[i].count = Nth(S, i)
    BY <2>1, <2>2 DEF Made
  <2>5. s[i] \in Checkpoints(n)
    BY <2>1, <2>2, <2>3 DEF Checkpoints, NoCount
  <2>. QED
    BY <2>1, <2>4, <2>5 DEF row
<1>. HIDE DEF S, N
<1>8. s \in Seq(Checkpoints(n))
  <2>1. \E m \in Nat : s \in [1..m -> Checkpoints(n)]
    <3>1. s = [i \in 1..N |-> s[i]]
      BY <1>5
    <3>. HIDE DEF s
    <3>2. s \in [1..N -> Checkpoints(n)]
      BY <1>7, <3>1
    <3>. QED
      BY <1>2, <3>2
  <2>. HIDE DEF s
  <2>. QED
    BY <2>1
<1>. HIDE DEF s
<1>9. \A i, j \in DOMAIN s : i < j => s[i].count < s[j].count
  BY <1>2, <1>6, <1>7
<1>10. \A i \in DOMAIN s : \E row \in turns : row.count # NoCount /\ s[i] = Made(row)
  BY <1>6, <1>7
<1>11. ASSUME NEW row \in turns, row.count # NoCount
       PROVE  \E i \in DOMAIN s : s[i] = Made(row)
  <2>1. PICK i \in 1..N : Nth(S, i) = row.count
    BY <1>2, <1>3, <1>11
  <2>2. RowWith(turns, row.count) = row
    BY <1>7, <1>11, <2>1 DEF TurnsTyped
  <2>. QED
    BY <1>6, <1>7, <2>1, <2>2
<1>. QED
  BY <1>8, <1>9, <1>10, <1>11 DEF s

\* Where each checkpoint is of a row and each counted row has its checkpoint, strictly
\* in the order of counts, the two match.
LEMMA ReadMatches ==
    ASSUME NEW n \in Nat, NEW turns, TurnsTyped(turns, n), NEW old,
           CheckpointsMatch(old, turns, n)
    PROVE  CheckpointsMatch(CheckpointsOf(turns), turns, n)
<1>. DEFINE s == CheckpointsOf(turns)
<1>1. /\ s \in Seq(Checkpoints(n))
      /\ \A i, j \in DOMAIN s : i < j => s[i].count < s[j].count
      /\ \A i \in DOMAIN s : \E row \in turns : row.count # NoCount /\ s[i] = Made(row)
      /\ \A row \in turns : row.count # NoCount => \E i \in DOMAIN s : s[i] = Made(row)
  BY CheckpointsRead
<1>. HIDE DEF s
<1>2. \A row \in turns : OfCapture(row, n) /\ (row.count # NoCount => row.turn \in 1..n)
  BY DEF CheckpointsMatch
<1>3. ASSUME NEW i \in DOMAIN s
      PROVE  /\ s[i].turn = s[i].at
             /\ \E row \in turns : row.count = s[i].count /\ s[i].at <= row.turn
             /\ s[i].count \in Nat
  <2>1. PICK row \in turns : row.count # NoCount /\ s[i] = Made(row)
    BY <1>1
  <2>2. row.completedAt = row.turn /\ row.turn \in 1..n
    BY <1>2, <2>1 DEF OfCapture
  <2>3. s[i].turn = row.turn /\ s[i].at = row.turn /\ s[i].count = row.count
    BY <2>1, <2>2 DEF Made
  <2>4. row.count \in Nat
    BY RowNumbers DEF TurnsTyped
  <2>. QED
    BY <2>2, <2>3, <2>4
<1>4. \A i, j \in DOMAIN s : i < j /\ s[i].count = s[j].count => s[i].at < s[j].at
  BY <1>1, <1>3
<1>. QED
  BY <1>1, <1>2, <1>3, <1>4 DEF CheckpointsMatch, s

LEMMA LatestTyped ==
    ASSUME NEW n \in Nat, NEW turns, TurnsTyped(turns, n)
    PROVE  /\ TurnTyped(LatestTurn(turns), n)
           /\ turns = {} => LatestTurn(turns) = NoTurn
           /\ turns # {} => \E row \in turns : LatestTurn(turns).id = row.turn
<1>1. CASE turns = {}
  <2>1. LatestTurn(turns) = NoTurn
    BY <1>1 DEF LatestTurn
  <2>. QED
    BY <1>1, <2>1 DEF TurnTyped, TurnType, NoTurn, NoTurnId, NoTime, TurnStates
<1>2. CASE turns # {}
  <2>1. PICK row \in turns : LatestTurn(turns) = TurnOf(row)
    BY <1>2, LatestRow
  <2>2. /\ row.turn \in Nat \ {0} /\ row.turn \in TurnNames(n)
        /\ row.requestedAt \in 1..n /\ row.startedAt \in 1..n /\ row.completedAt \in 0..n
        /\ row.state \in {"running", "completed", "interrupted"}
    BY RowNumbers DEF TurnsTyped
  <2>3. TurnOf(row) \in TurnType(n) /\ TurnOf(row).id # NoTurnId
    BY <2>2 DEF TurnOf, TurnType, TurnStates, NoTurnId
  <2>. QED
    BY <1>2, <2>1, <2>3 DEF TurnTyped, TurnOf
<1>. QED
  BY <1>1, <1>2

\* The thread a restart starts from agrees with the rows it is read from.
LEMMA RestartStep ==
    ASSUME NEW t, NEW r, NEW n \in Nat, Agree(t, r, n)
    PROVE  Step(t, r, n, Snapshot(r), r, n)
<1>. DEFINE u == Snapshot(r)
            s == CheckpointsOf(r.turns)
            turn == LatestTurn(r.turns)
<1>1. /\ RowsTyped(r, n) /\ TurnsTyped(r.turns, n) /\ SameRow(t, r.thread)
      /\ t.deleted \in BOOLEAN
  BY DEF Agree, ThreadTyped, RowsTyped
<1>2. /\ s \in Seq(Checkpoints(n))
      /\ \A i, j \in DOMAIN s : i < j => s[i].count < s[j].count
      /\ \A i \in DOMAIN s : \E row \in r.turns : row.count # NoCount /\ s[i] = Made(row)
      /\ \A row \in r.turns : row.count # NoCount => \E i \in DOMAIN s : s[i] = Made(row)
  BY <1>1, CheckpointsRead
<1>3. /\ TurnTyped(turn, n)
      /\ r.turns = {} => turn = NoTurn
      /\ r.turns # {} => \E row \in r.turns : turn.id = row.turn
  BY <1>1, LatestTyped
<1>4. /\ DOMAIN u = ThreadFields /\ u.turn = turn /\ u.checkpoints = s
      /\ u.messages = r.messages /\ u.activities = r.activities /\ u.session = r.session
      /\ u.deleted = r.thread.deleted /\ u.settled = r.thread.settled
      /\ u.lastInteractedAt = r.thread.lastInteractedAt
      /\ SameRow(u, r.thread)
  BY DEF Snapshot, ThreadFields, Plain, SameRow
<1>5. r.thread.deleted = t.deleted /\ r.thread.settled = t.settled
  BY <1>1 DEF SameRow, Plain
<1>. HIDE DEF u, s, turn
<1>6. ThreadTyped(u, n)
  <2>1. \A i \in DOMAIN s : s[i].count \in Nat
    <3>1. \A c \in Checkpoints(n) : c.count \in Nat
      BY DEF Checkpoints
    <3>. QED
      BY <1>2, <3>1
  <2>2. \A i, j \in DOMAIN s : i < j => s[i].count <= s[j].count
    BY <1>2, <2>1
  <2>. QED
    BY <1>1, <1>2, <1>3, <1>4, <1>5, <2>2 DEF ThreadTyped, RowsTyped
<1>7. ASSUME ~t.deleted
      PROVE  Mirrored(u, r, n)
  <2>1. Mirrored(t, r, n)
    BY <1>7 DEF Agree
  <2>2. CheckpointsMatch(u.checkpoints, r.turns, n)
    BY <1>1, <1>4, <2>1, ReadMatches DEF Mirrored, s
  <2>3. TurnsMatch(u.turn, r.turns)
    <3>1. \A y \in Times(turn) : y \in Nat
      BY <1>3 DEF TurnTyped, TurnType, Times
    <3>2. \A y \in Times(turn) : \E z \in Times(LatestTurn(r.turns)) : y <= z
      BY <3>1 DEF turn
    <3>3. turn # NoTurn => \E row \in r.turns : row.turn = turn.id
      BY <1>3
    <3>4. turn.state = LatestTurn(r.turns).state
      BY DEF turn
    <3>. QED
      BY <1>4, <3>2, <3>3, <3>4 DEF TurnsMatch
  <2>4. AtRest(u)
    BY <1>4, <1>5, <2>1 DEF Mirrored, AtRest, TurnsMatch, SameLists, turn
  <2>5. SameLists(u, r)
    BY <1>4 DEF SameLists
  <2>. QED
    BY <2>2, <2>3, <2>4, <2>5 DEF Mirrored
<1>8. ASSUME ~u.deleted, CapturesOnly(t, r, n)
      PROVE  CapturesOnly(u, r, n)
  <2>1. Mirrored(t, r, n)
    BY <1>4, <1>5, <1>8 DEF Agree
  <2>2. \A row \in r.turns : OfCapture(row, n) /\ row.turn \in 1..n
    BY <1>8, <2>1 DEF Mirrored, CheckpointsMatch, CapturesOnly
  <2>3. turn.state # "running"
    BY <1>8, <2>1 DEF Mirrored, TurnsMatch, CapturesOnly, turn
  <2>4. u.session = NoSession
    BY <1>4, <1>8, <2>1 DEF Mirrored, SameLists, CapturesOnly
  <2>5. CASE r.turns = {}
    <3>1. s = <<>>
      BY <1>2, <2>5
    <3>2. turn = NoTurn
      BY <1>3, <2>5
    <3>3. TurnIsLast(turn, s)
      BY <3>1, <3>2 DEF TurnIsLast
    <3>. QED
      BY <1>4, <2>3, <2>4, <2>5, <3>2, <3>3 DEF CapturesOnly
  <2>6. CASE r.turns # {}
    <3>1. PICK top \in r.turns : turn = TurnOf(top) /\ \A row \in r.turns : Later(top, row)
      BY <1>1, <2>6, LatestRow DEF turn
    <3>2. PICK other \in r.turns : other.count # NoCount /\ top.turn <= other.turn
      BY <1>8 DEF CapturesOnly
    <3>3. \A row \in r.turns : /\ row.requestedAt = row.turn /\ row.completedAt = row.turn
                               /\ row.startedAt = row.turn /\ row.turn \in 1..n
      BY <2>2 DEF OfCapture
    <3>4. \A row \in r.turns : row.turn <= top.turn
      BY <3>1, <3>3 DEF Later
    <3>5. other = top
      <4>1. other.turn = top.turn
        BY <3>2, <3>3, <3>4
      <4>. QED
        BY <1>1, <4>1 DEF TurnsTyped
    <3>6. PICK i \in DOMAIN s : s[i] = Made(top)
      BY <1>2, <3>2, <3>5
    <3>7. s[i].at = top.turn /\ s[i].turn = top.turn
      BY <3>3, <3>6 DEF Made
    <3>8. Times(turn) = {top.turn} /\ turn.id = top.turn
      BY <3>1, <3>3 DEF Times, TurnOf
    <3>9. ASSUME CapturedInOrder(u)
          PROVE  TurnIsLast(turn, s)
      <4>1. Len(s) \in DOMAIN s /\ DOMAIN s = 1..Len(s) /\ Len(s) \in Nat /\ s # <<>>
        BY <1>2, <3>6
      <4>2. PICK row \in r.turns : s[Len(s)] = Made(row)
        BY <1>2, <4>1
      <4>3. s[Len(s)].at = row.turn
        BY <3>3, <4>2 DEF Made
      <4>4. i = Len(s)
        <5>1. ASSUME i < Len(s)
              PROVE  FALSE
          <6>1. s[i].at < s[Len(s)].at
            BY <1>4, <3>9, <4>1, <5>1 DEF CapturedInOrder
          <6>. QED
            BY <3>3, <3>4, <3>7, <4>3, <6>1
        <5>. QED
          BY <4>1, <5>1
      <4>. QED
        BY <3>7, <3>8, <4>1, <4>4 DEF TurnIsLast, Last
    <3>. QED
      BY <1>4, <1>8, <2>3, <2>4, <2>2, <3>8, <3>9 DEF CapturesOnly
  <2>. QED
    BY <2>5, <2>6
<1>. QED
  BY <1>1, <1>4, <1>5, <1>6, <1>7, <1>8 DEF Agree, Step, u

-----------------------------------------------------------------------------
(* What a command makes of the thread and of its rows.                         *)

Done(t, c) == ProjectEvents(t, Decide(t, c))
Stored(t, r, c) == ProjectAll(r, Decide(t, c))

LEMMA NothingDecided ==
    ASSUME NEW t, NEW r, NEW c, Decide(t, c) = <<>>
    PROVE  Done(t, c) = t /\ Stored(t, r, c) = r
<1>1. Len(Decide(t, c)) = 0
  OBVIOUS
<1>. QED
  BY <1>1, EventsInTurn, RowsInTurn DEF Done, Stored

LEMMA OneDecided ==
    ASSUME NEW t, NEW r, NEW c, NEW e, Decide(t, c) = <<e>>
    PROVE  Done(t, c) = ProjectEvent(t, e) /\ Stored(t, r, c) = ProjectRows(r, e)
<1>1. Len(Decide(t, c)) = 1 /\ Decide(t, c)[1] = e
  OBVIOUS
<1>. QED
  BY <1>1, EventsInTurn, RowsInTurn DEF Done, Stored

LEMMA StepStays ==
    ASSUME NEW t, NEW r, NEW n, Agree(t, r, n)
    PROVE  Step(t, r, n, t, r, n)
BY DEF Step

\* A client that settles, snoozes, wakes, archives or renames, and the status of the session.
PlainCommands == {"thread.settle", "thread.unsettle", "thread.snooze", "thread.unsnooze",
                  "thread.archive", "thread.rename", "thread.terminal.statusChanged"}

LEMMA SettleFits ==
    ASSUME NEW t, NEW c, DOMAIN t = ThreadFields, NEW e, Settle(t, c) = <<e>>
    PROVE  e.type = "thread.settled" /\ AtRest([t EXCEPT !.settled = "settled"])
<1>1. ~(\/ Gone(t) \/ HasActiveWork(t) \/ OpenRequests(t.activities) # {}
        \/ HasQueuedTurnStart(t, c.at))
  <2>1. ASSUME \/ Gone(t) \/ HasActiveWork(t) \/ OpenRequests(t.activities) # {}
               \/ HasQueuedTurnStart(t, c.at)
        PROVE  FALSE
    <3>1. Settle(t, c) = <<>>
      BY <2>1 DEF Settle
    <3>2. Len(<<>>) = 0 /\ Len(<<e>>) = 1
      OBVIOUS
    <3>. QED
      BY <3>1, <3>2
  <2>. QED
    BY <2>1
<1>2. e = [type |-> "thread.settled",
           settledAt |-> IF t.settled = "settled" /\ t.settledAt # NoTime
                         THEN t.settledAt ELSE c.at]
  BY <1>1 DEF Settle
<1>. DEFINE s == [t EXCEPT !.settled = "settled"]
<1>3. s.activities = t.activities /\ s.session = t.session /\ s.turn = t.turn
  BY DEF ThreadFields, Plain
<1>4. e.type = "thread.settled"
  BY <1>2
<1>. HIDE DEF s
<1>5. AtRest(s)
  BY <1>1, <1>3 DEF AtRest, HasActiveWork
<1>. QED
  BY <1>4, <1>5 DEF s

LEMMA PlainDecided ==
    ASSUME NEW t, NEW c, DOMAIN t = ThreadFields, SnoozeTyped(t), c.type \in PlainCommands,
           c.type = "thread.unsettle" => c.reason = "user",
           c.type = "thread.snooze" => c.until \in Nat /\ c.at \in Nat \ {0}
    PROVE  \/ Decide(t, c) = <<>>
           \/ \E e : Decide(t, c) = <<e>> /\ e.type \in PlainTypes /\ FieldsFit(t, e)
<1>1. CASE c.type = "thread.settle"
  <2>1. Decide(t, c) = Settle(t, c)
    BY <1>1 DEF Decide
  <2>2. Settle(t, c) = <<>> \/ \E e : Settle(t, c) = <<e>>
    BY DEF Settle
  <2>3. ASSUME NEW e, Settle(t, c) = <<e>>
        PROVE  e.type \in PlainTypes /\ FieldsFit(t, e)
    <3>1. e.type = "thread.settled" /\ AtRest([t EXCEPT !.settled = "settled"])
      BY <2>3, SettleFits
    <3>. QED
      BY <3>1 DEF FieldsFit, PlainTypes
  <2>. QED
    BY <2>1, <2>2, <2>3
<1>2. CASE c.type = "thread.unsettle"
  <2>. DEFINE e == [type |-> "thread.unsettled", reason |-> c.reason]
  <2>1. Decide(t, c) = Unsettle(t, c)
    BY <1>2 DEF Decide
  <2>2. Unsettle(t, c) = <<>> \/ Unsettle(t, c) = <<e>>
    BY DEF Unsettle
  <2>3. e.type \in PlainTypes /\ FieldsFit(t, e)
    BY <1>2 DEF FieldsFit, PlainTypes
  <2>. QED
    BY <2>1, <2>2, <2>3
<1>3. CASE c.type = "thread.snooze"
  <2>. DEFINE e == [type |-> "thread.snoozed", snoozedUntil |-> c.until,
                    snoozedAt |-> IF t.snoozedUntil = c.until /\ t.snoozedAt # NoTime
                                  THEN t.snoozedAt ELSE c.at]
  <2>1. Decide(t, c) = Snooze(t, c)
    BY <1>3 DEF Decide
  <2>2. Snooze(t, c) = <<>> \/ Snooze(t, c) = <<e>>
    BY DEF Snooze
  <2>3. e.type \in PlainTypes /\ FieldsFit(t, e)
    BY <1>3 DEF FieldsFit, PlainTypes, SnoozeTyped, NoTime
  <2>. QED
    BY <2>1, <2>2, <2>3
<1>4. CASE c.type = "thread.unsnooze"
  <2>. DEFINE e == [type |-> "thread.unsnoozed"]
  <2>1. Decide(t, c) = Unsnooze(t, c)
    BY <1>4 DEF Decide
  <2>2. Unsnooze(t, c) = <<>> \/ Unsnooze(t, c) = <<e>>
    BY DEF Unsnooze, Event
  <2>3. e.type \in PlainTypes /\ FieldsFit(t, e)
    BY DEF FieldsFit, PlainTypes
  <2>. QED
    BY <2>1, <2>2, <2>3
<1>5. CASE c.type = "thread.archive"
  <2>. DEFINE e == [type |-> "thread.meta-updated", archived |-> c.archived]
  <2>1. Decide(t, c) = <<e>>
    BY <1>5 DEF Decide
  <2>2. e.type \in PlainTypes /\ FieldsFit(t, e)
    BY DEF FieldsFit, PlainTypes
  <2>. QED
    BY <2>1, <2>2
<1>6. CASE c.type = "thread.rename"
  <2>. DEFINE e == [type |-> "thread.meta-updated", title |-> c.title,
                    titleSource |-> c.titleSource]
  <2>1. Decide(t, c) = <<e>>
    BY <1>6 DEF Decide
  <2>2. e.type \in PlainTypes /\ FieldsFit(t, e)
    BY DEF FieldsFit, PlainTypes
  <2>. QED
    BY <2>1, <2>2
<1>7. CASE c.type = "thread.terminal.statusChanged"
  <2>. DEFINE e == [type |-> "thread.terminal-status-changed", status |-> c.status]
  <2>1. Decide(t, c) = <<e>>
    BY <1>7 DEF Decide
  <2>2. e.type \in PlainTypes /\ FieldsFit(t, e)
    BY DEF FieldsFit, PlainTypes
  <2>. QED
    BY <2>1, <2>2
<1>. QED
  BY <1>1, <1>2, <1>3, <1>4, <1>5, <1>6, <1>7 DEF PlainCommands

LEMMA PlainExecuted ==
    ASSUME NEW t, NEW r, NEW n \in Nat, Agree(t, r, n), NEW c, c.type \in PlainCommands,
           c.type = "thread.unsettle" => c.reason = "user",
           c.type = "thread.snooze" => c.until \in Nat /\ c.at \in Nat \ {0}
    PROVE  Step(t, r, n, Done(t, c), Stored(t, r, c), n)
<1>1. DOMAIN t = ThreadFields /\ SnoozeTyped(t)
  BY DEF Agree, ThreadTyped, RowsTyped, SnoozeTyped, SameRow, Plain
<1>2. CASE Decide(t, c) = <<>>
  BY <1>2, NothingDecided, StepStays
<1>3. ASSUME NEW e, Decide(t, c) = <<e>>, e.type \in PlainTypes, FieldsFit(t, e)
      PROVE  Step(t, r, n, Done(t, c), Stored(t, r, c), n)
  BY <1>3, OneDecided, FieldsStep
<1>. QED
  BY <1>1, <1>2, <1>3, PlainDecided

\* The events that bring a thread back, before those of a message, a session or a request.
LEMMA BroughtBack ==
    ASSUME NEW t, NEW r, NEW n \in Nat, Agree(t, r, n), NEW e,
           e \in {[type |-> "thread.unsettled", reason |-> "activity"], Event("thread.unsnoozed")}
    PROVE  /\ Step(t, r, n, ProjectEvent(t, e), ProjectRows(r, e), n)
           /\ ProjectEvent(t, e).settled =
                 (IF e.type = "thread.unsettled" THEN "none" ELSE t.settled)
           /\ ProjectEvent(t, e).deleted = t.deleted
           /\ ProjectEvent(t, e).activities = t.activities
           /\ Room(t) => Room(ProjectEvent(t, e))
<1>1. DOMAIN t = ThreadFields
  BY DEF Agree, ThreadTyped
<1>2. e.type \in PlainTypes /\ FieldsFit(t, e)
  BY DEF FieldsFit, PlainTypes, Event
<1>3. CASE e = [type |-> "thread.unsettled", reason |-> "activity"]
  <2>1. ProjectEvent(t, e) = [t EXCEPT !.settled = "none", !.settledAt = NoTime]
    BY <1>3 DEF ProjectEvent
  <2>. QED
    BY <1>1, <1>2, <1>3, <2>1, FieldsStep DEF Room, ThreadFields, Plain
<1>4. CASE e = Event("thread.unsnoozed")
  <2>1. e.type = "thread.unsnoozed"
    BY <1>4 DEF Event
  <2>2. ProjectEvent(t, e) = [t EXCEPT !.snoozedUntil = NoTime, !.snoozedAt = NoTime]
    BY <2>1 DEF ProjectEvent
  <2>. QED
    BY <1>1, <1>2, <2>1, <2>2, FieldsStep DEF Room, ThreadFields, Plain
<1>. QED
  BY <1>3, <1>4

\* One more event after that.
LEMMA BackThen ==
    ASSUME NEW t, NEW r, NEW n \in Nat, Agree(t, r, n), NEW e, NEW c,
           Decide(t, c) = Unsettled(t) \o <<e>>
    PROVE  \E u, v : /\ Step(t, r, n, u, v, n) /\ u.settled # "settled"
                     /\ u.deleted = t.deleted /\ u.activities = t.activities
                     /\ Room(t) => Room(u)
                     /\ Done(t, c) = ProjectEvent(u, e)
                     /\ Stored(t, r, c) = ProjectRows(v, e)
<1>. DEFINE back == [type |-> "thread.unsettled", reason |-> "activity"]
<1>1. CASE t.settled = "none"
  <2>1. Decide(t, c) = <<e>>
    BY <1>1 DEF Unsettled
  <2>2. Done(t, c) = ProjectEvent(t, e) /\ Stored(t, r, c) = ProjectRows(r, e)
    BY <2>1, OneDecided
  <2>3. Step(t, r, n, t, r, n) /\ t.settled # "settled"
    BY <1>1, StepStays
  <2>. WITNESS t, r
  <2>. QED
    BY <2>2, <2>3
<1>2. CASE t.settled # "none"
  <2>1. Unsettled(t) = <<back>>
    BY <1>2 DEF Unsettled
  <2>. HIDE DEF back
  <2>2. Len(Decide(t, c)) = 2 /\ Decide(t, c)[1] = back /\ Decide(t, c)[2] = e
    BY <2>1
  <2>3. /\ Done(t, c) = ProjectEvent(ProjectEvent(t, back), e)
        /\ Stored(t, r, c) = ProjectRows(ProjectRows(r, back), e)
    BY <2>2, EventsInTurn, RowsInTurn DEF Done, Stored
  <2>4. /\ Step(t, r, n, ProjectEvent(t, back), ProjectRows(r, back), n)
        /\ ProjectEvent(t, back).settled = "none"
        /\ ProjectEvent(t, back).deleted = t.deleted
        /\ ProjectEvent(t, back).activities = t.activities
        /\ Room(t) => Room(ProjectEvent(t, back))
    BY BroughtBack DEF back
  <2>. WITNESS ProjectEvent(t, back), ProjectRows(r, back)
  <2>. QED
    BY <2>3, <2>4
<1>. QED
  BY <1>1, <1>2

\* A message of the user and the start of its turn.
LEMMA MessageThenStart ==
    ASSUME NEW t, NEW r, NEW n \in Nat, n < MaxNow, Agree(t, r, n), Room(t), NEW a, NEW b,
           a = [type |-> "thread.message-sent",
                message |-> [id |-> n + 1, role |-> "user", turn |-> NoTurnId, at |-> n + 1]],
           b = [type |-> "thread.turn-start-requested", message |-> n + 1]
    PROVE  Step(t, r, n, ProjectEvent(ProjectEvent(t, a), b),
                ProjectRows(ProjectRows(r, a), b), n + 1)
<1>1. a.type = "thread.message-sent" /\ a.message.id = n + 1 /\ a.message.role = "user"
      /\ a.message \in Messages(n + 1)
  BY DEF Messages
<1>2. b.type \in AsideTypes /\ (b.type = "thread.turn-start-requested" => b.message \in 0..(n + 1))
  BY DEF AsideTypes
<1>3. Step(t, r, n, ProjectEvent(t, a), ProjectRows(r, a), n + 1)
  BY <1>1, UserMessageStep
<1>4. Agree(ProjectEvent(t, a), ProjectRows(r, a), n + 1)
  BY <1>3 DEF Step
<1>5. Step(ProjectEvent(t, a), ProjectRows(r, a), n + 1, ProjectEvent(ProjectEvent(t, a), b),
           ProjectRows(ProjectRows(r, a), b), n + 1)
  BY <1>2, <1>4, AsideStep
<1>. QED
  BY <1>3, <1>5, StepsCompose

LEMMA TurnStartExecuted ==
    ASSUME NEW t, NEW r, NEW n \in Nat, n < MaxNow, Agree(t, r, n), Room(t), NEW c,
           c.type = "thread.turn.start", c.at = n + 1
    PROVE  Step(t, r, n, Done(t, c), Stored(t, r, c), n + 1)
<1>. DEFINE a == [type |-> "thread.message-sent",
                  message |-> [id |-> n + 1, role |-> "user", turn |-> NoTurnId, at |-> n + 1]]
            b == [type |-> "thread.turn-start-requested", message |-> n + 1]
            back == [type |-> "thread.unsettled", reason |-> "activity"]
            wake == Event("thread.unsnoozed")
            s == Decide(t, c)
<1>1. s = Unsettled(t) \o Unsnoozed(t) \o <<a, b>>
  BY DEF Decide, TurnStart
<1>2. t.settled # "none" => Unsettled(t) = <<back>>
  BY DEF Unsettled
<1>3. t.snoozedUntil # NoTime => Unsnoozed(t) = <<wake>>
  BY DEF Unsnoozed
<1>4. /\ t.settled = "none" => Unsettled(t) = <<>>
      /\ t.snoozedUntil = NoTime => Unsnoozed(t) = <<>>
  BY DEF Unsettled, Unsnoozed
<1>5. ASSUME NEW u, NEW v, Agree(u, v, n), Room(u)
      PROVE  Step(u, v, n, ProjectEvent(ProjectEvent(u, a), b),
                  ProjectRows(ProjectRows(v, a), b), n + 1)
  <2>. HIDE DEF s
  <2>. QED
    BY <1>5, MessageThenStart
<1>6. ASSUME NEW u, NEW v, Agree(u, v, n), Room(u), NEW e, e \in {back, wake}
      PROVE  /\ Step(u, v, n, ProjectEvent(u, e), ProjectRows(v, e), n)
             /\ Agree(ProjectEvent(u, e), ProjectRows(v, e), n)
             /\ Room(ProjectEvent(u, e))
  BY <1>6, BroughtBack DEF Step
<1>. HIDE DEF a, b, back, wake, s
<1>7. CASE t.settled = "none" /\ t.snoozedUntil = NoTime
  <2>1. Len(s) = 2 /\ s[1] = a /\ s[2] = b
    BY <1>1, <1>4, <1>7
  <2>2. /\ Done(t, c) = ProjectEvent(ProjectEvent(t, a), b)
        /\ Stored(t, r, c) = ProjectRows(ProjectRows(r, a), b)
    BY <2>1, EventsInTurn, RowsInTurn DEF Done, Stored, s
  <2>. QED
    BY <1>5, <2>2
<1>8. CASE t.settled # "none" /\ t.snoozedUntil = NoTime
  <2>1. Len(s) = 3 /\ s[1] = back /\ s[2] = a /\ s[3] = b
    <3>1. Unsettled(t) = <<back>> /\ Unsnoozed(t) = <<>>
      BY <1>2, <1>4, <1>8
    <3>2. <<back>> \o <<>> = <<back>>
      OBVIOUS
    <3>. QED
      BY <1>1, <3>1, <3>2
  <2>2. /\ Done(t, c) = ProjectEvent(ProjectEvent(ProjectEvent(t, back), a), b)
        /\ Stored(t, r, c) = ProjectRows(ProjectRows(ProjectRows(r, back), a), b)
    BY <2>1, EventsInTurn, RowsInTurn DEF Done, Stored, s
  <2>. QED
    BY <1>5, <1>6, <2>2, StepsCompose
<1>9. CASE t.settled = "none" /\ t.snoozedUntil # NoTime
  <2>1. Len(s) = 3 /\ s[1] = wake /\ s[2] = a /\ s[3] = b
    <3>1. Unsettled(t) = <<>> /\ Unsnoozed(t) = <<wake>>
      BY <1>3, <1>4, <1>9
    <3>2. <<>> \o <<wake>> = <<wake>>
      OBVIOUS
    <3>. QED
      BY <1>1, <3>1, <3>2
  <2>2. /\ Done(t, c) = ProjectEvent(ProjectEvent(ProjectEvent(t, wake), a), b)
        /\ Stored(t, r, c) = ProjectRows(ProjectRows(ProjectRows(r, wake), a), b)
    BY <2>1, EventsInTurn, RowsInTurn DEF Done, Stored, s
  <2>. QED
    BY <1>5, <1>6, <2>2, StepsCompose
<1>10. CASE t.settled # "none" /\ t.snoozedUntil # NoTime
  <2>1. Len(s) = 4 /\ s[1] = back /\ s[2] = wake /\ s[3] = a /\ s[4] = b
    <3>. DEFINE z == <<back>> \o <<wake>>
                E == {a, b, back, wake}
    <3>1. Unsettled(t) = <<back>> /\ Unsnoozed(t) = <<wake>>
      BY <1>2, <1>3, <1>10
    <3>2. z \in Seq(E) /\ Len(z) = 2 /\ z[1] = back /\ z[2] = wake
      OBVIOUS
    <3>3. s = z \o <<a, b>>
      BY <1>1, <3>1
    <3>. DEFINE y == <<a, b>>
    <3>4. y \in Seq(E) /\ Len(y) = 2 /\ y[1] = a /\ y[2] = b
      OBVIOUS
    <3>5. s = z \o y
      BY <3>3
    <3>. HIDE DEF z, y, E
    <3>6. Len(s) = 4 /\ \A i \in 1..4 : s[i] = IF i <= 2 THEN z[i] ELSE y[i - 2]
      <4>1. /\ Len(z \o y) = Len(z) + Len(y)
            /\ \A i \in 1..Len(z) + Len(y) : (z \o y)[i] =
                    IF i <= Len(z) THEN z[i] ELSE y[i - Len(z)]
        BY <3>2, <3>4, ConcatProperties
      <4>. QED
        BY <3>2, <3>4, <3>5, <4>1
    <3>7. s[1] = z[1] /\ s[2] = z[2] /\ s[3] = y[1] /\ s[4] = y[2]
      BY <3>6
    <3>. QED
      BY <3>2, <3>4, <3>6, <3>7
  <2>2. /\ Done(t, c) =
              ProjectEvent(ProjectEvent(ProjectEvent(ProjectEvent(t, back), wake), a), b)
        /\ Stored(t, r, c) =
              ProjectRows(ProjectRows(ProjectRows(ProjectRows(r, back), wake), a), b)
    BY <2>1, EventsInTurn, RowsInTurn DEF Done, Stored, s
  <2>. DEFINE u == ProjectEvent(t, back)
              v == ProjectRows(r, back)
              x == ProjectEvent(u, wake)
              y == ProjectRows(v, wake)
  <2>3. Step(t, r, n, u, v, n) /\ Agree(u, v, n) /\ Room(u)
    BY <1>6
  <2>. HIDE DEF u, v
  <2>4. Step(u, v, n, x, y, n) /\ Agree(x, y, n) /\ Room(x)
    BY <1>6, <2>3
  <2>. HIDE DEF x, y
  <2>5. Step(x, y, n, ProjectEvent(ProjectEvent(x, a), b), ProjectRows(ProjectRows(y, a), b), n + 1)
    BY <1>5, <2>4
  <2>6. Step(t, r, n, x, y, n)
    BY <2>3, <2>4, StepsCompose
  <2>7. /\ Done(t, c) = ProjectEvent(ProjectEvent(x, a), b)
        /\ Stored(t, r, c) = ProjectRows(ProjectRows(y, a), b)
    BY <2>2 DEF u, v, x, y
  <2>. QED
    BY <2>5, <2>6, <2>7, StepsCompose
<1>. QED
  BY <1>7, <1>8, <1>9, <1>10

\* A request or its answer.
LEMMA ActivityExecuted ==
    ASSUME NEW t, NEW r, NEW n \in Nat, Agree(t, r, n), Room(t), NEW c,
           c.type = "thread.activity.append", c.activity \in Activities,
           Newer(t.activities, c.activity)
    PROVE  Step(t, r, n, Done(t, c), Stored(t, r, c), n)
<1>. DEFINE e == [type |-> "thread.activity-appended", activity |-> c.activity]
<1>1. Decide(t, c) = AppendActivity(t, c)
  BY DEF Decide
<1>2. c.activity.kind \in {"approval.requested", "approval.resolved"}
  BY DEF Activities
<1>3. e.type = "thread.activity-appended" /\ e.activity = c.activity
  OBVIOUS
<1>4. CASE c.activity.kind = "approval.requested"
  <2>1. Decide(t, c) = Unsettled(t) \o <<e>>
    BY <1>1, <1>4 DEF AppendActivity
  <2>. HIDE DEF e
  <2>2. PICK u, v : /\ Step(t, r, n, u, v, n) /\ u.settled # "settled" /\ Room(u)
                    /\ u.activities = t.activities
                    /\ Done(t, c) = ProjectEvent(u, e) /\ Stored(t, r, c) = ProjectRows(v, e)
    BY <2>1, BackThen
  <2>3. Agree(u, v, n)
    BY <2>2 DEF Step
  <2>4. Step(u, v, n, ProjectEvent(u, e), ProjectRows(v, e), n)
    BY <1>3, <2>2, <2>3, ActivityStep
  <2>. QED
    BY <2>2, <2>4, StepsCompose
<1>5. CASE c.activity.kind = "approval.resolved"
  <2>1. Decide(t, c) = <<>> \o <<e>>
    BY <1>1, <1>5 DEF AppendActivity
  <2>. HIDE DEF e
  <2>2. Decide(t, c) = <<e>>
    BY <2>1
  <2>3. Step(t, r, n, ProjectEvent(t, e), ProjectRows(r, e), n)
    BY <1>3, <1>5, ActivityStep
  <2>. QED
    BY <2>2, <2>3, OneDecided
<1>. QED
  BY <1>2, <1>4, <1>5

LEMMA SessionExecuted ==
    ASSUME NEW t, NEW r, NEW n \in Nat, n < MaxNow, Agree(t, r, n), NEW c,
           c.type = "thread.session.set", c.at = n + 1, c.turn \in {NoTurnId} \cup ProviderTurns,
           (c.session = "running") = (c.turn # NoTurnId)
    PROVE  /\ Agree(Done(t, c), Stored(t, r, c), n + 1)
           /\ Done(t, c).deleted = t.deleted
<1>. DEFINE e == [type |-> "thread.session-set", session |-> c.session, turn |-> c.turn,
                  at |-> c.at]
<1>1. Decide(t, c) = SetSession(t, c)
  BY DEF Decide
<1>3. /\ e.type = "thread.session-set" /\ e.at = n + 1 /\ e.turn = c.turn
      /\ e.session = c.session
  OBVIOUS
<1>4. CASE c.session \in {"starting", "running"}
  <2>1. Decide(t, c) = Unsettled(t) \o <<e>>
    BY <1>1, <1>4 DEF SetSession
  <2>. HIDE DEF e
  <2>2. PICK u, v : /\ Step(t, r, n, u, v, n) /\ u.settled # "settled" /\ u.deleted = t.deleted
                    /\ Done(t, c) = ProjectEvent(u, e) /\ Stored(t, r, c) = ProjectRows(v, e)
    BY <2>1, BackThen
  <2>3. Agree(u, v, n)
    BY <2>2 DEF Step
  <2>. QED
    BY <1>3, <2>2, <2>3, SessionAgrees
<1>5. CASE c.session \notin {"starting", "running"}
  <2>1. Decide(t, c) = <<>> \o <<e>>
    BY <1>1, <1>5 DEF SetSession
  <2>. HIDE DEF e
  <2>2. Decide(t, c) = <<e>>
    BY <2>1
  <2>. QED
    BY <1>3, <1>5, <2>2, OneDecided, SessionAgrees
<1>. QED
  BY <1>4, <1>5

LEMMA AnswerExecuted ==
    ASSUME NEW t, NEW r, NEW n \in Nat, n < MaxNow, Agree(t, r, n), Room(t), NEW c,
           c.type = "thread.message.assistant.complete", c.at = n + 1,
           c.turn \in ProviderTurns
    PROVE  /\ Agree(Done(t, c), Stored(t, r, c), n + 1)
           /\ Done(t, c).deleted = t.deleted
<1>. DEFINE m == [id |-> c.at, role |-> "assistant", turn |-> c.turn, at |-> c.at]
            e == [type |-> "thread.message-sent", message |-> m]
<1>1. Decide(t, c) = <<e>>
  BY DEF Decide
<1>2. /\ e.type = "thread.message-sent" /\ e.message.id = n + 1 /\ e.message.at = n + 1
      /\ e.message.role = "assistant" /\ e.message.turn \in ProviderTurns
  OBVIOUS
<1>3. e.message \in Messages(n + 1)
  BY DEF Messages
<1>. HIDE DEF e
<1>. QED
  BY <1>1, <1>2, <1>3, OneDecided, AnswerAgrees

LEMMA InterruptExecuted ==
    ASSUME NEW t, NEW r, NEW n \in Nat, n < MaxNow, Agree(t, r, n), NEW c,
           c.type = "thread.turn.interrupt", c.at = n + 1, t.turn # NoTurn, c.turn = t.turn.id
    PROVE  Step(t, r, n, Done(t, c), Stored(t, r, c), n + 1)
<1>. DEFINE e == [type |-> "thread.turn-interrupt-requested", turn |-> c.turn, at |-> c.at]
<1>1. Decide(t, c) = <<e>>
  BY DEF Decide
<1>2. e.type = "thread.turn-interrupt-requested" /\ e.at = n + 1 /\ e.turn = t.turn.id
  OBVIOUS
<1>. HIDE DEF e
<1>. QED
  BY <1>1, <1>2, OneDecided, InterruptStep

LEMMA CaptureExecuted ==
    ASSUME NEW t, NEW r, NEW n \in Nat, n < MaxNow, Agree(t, r, n), Room(t), NEW c,
           c.type = "thread.turn.diff.complete", c.at = n + 1, c.turn = n + 1,
           c.count \in Nat \ {0}
    PROVE  Step(t, r, n, Done(t, c), Stored(t, r, c), n + 1)
<1>. DEFINE e == [type |-> "thread.turn-diff-completed", turn |-> c.turn, count |-> c.count,
                  at |-> c.at]
<1>1. Decide(t, c) = <<e>>
  BY DEF Decide
<1>2. e.type = "thread.turn-diff-completed" /\ e.at = n + 1 /\ e.turn = n + 1
      /\ e.count \in Nat \ {0}
  OBVIOUS
<1>. HIDE DEF e
<1>. QED
  BY <1>1, <1>2, OneDecided, CaptureStep

\* Answers to requests, reverts and deletion.
LEMMA RestExecuted ==
    ASSUME NEW t, NEW r, NEW n \in Nat, n < MaxNow, Agree(t, r, n), NEW c,
           c.type \in {"thread.approval.respond", "thread.revert.complete", "thread.delete"},
           c.type = "thread.revert.complete" => c.count \in Nat
    PROVE  Step(t, r, n, Done(t, c), Stored(t, r, c), n)
<1>1. CASE c.type = "thread.approval.respond"
  <2>. DEFINE e == [type |-> "thread.approval-response-requested", request |-> c.request]
  <2>1. Decide(t, c) = <<e>>
    BY <1>1 DEF Decide
  <2>2. e.type \in AsideTypes /\ e.type # "thread.turn-start-requested"
    BY DEF AsideTypes
  <2>. HIDE DEF e
  <2>. QED
    BY <2>1, <2>2, OneDecided, AsideStep
<1>2. CASE c.type = "thread.revert.complete"
  <2>. DEFINE e == [type |-> "thread.reverted", count |-> c.count]
  <2>1. Decide(t, c) = <<e>>
    BY <1>2 DEF Decide
  <2>2. e.type = "thread.reverted" /\ e.count \in Nat
    BY <1>2
  <2>. HIDE DEF e
  <2>. QED
    BY <2>1, <2>2, OneDecided, RevertStep
<1>3. CASE c.type = "thread.delete"
  <2>. DEFINE e == [type |-> "thread.deleted"]
  <2>1. Decide(t, c) = <<e>>
    BY <1>3 DEF Decide, Event
  <2>2. e.type = "thread.deleted"
    OBVIOUS
  <2>. HIDE DEF e
  <2>. QED
    BY <2>1, <2>2, OneDecided, DeletedStep
<1>. QED
  BY <1>1, <1>2, <1>3

-----------------------------------------------------------------------------
(* Any command the server executes.                                            *)

ProviderCommands == {"thread.session.set", "thread.message.assistant.complete"}

\* What the callers of Execute know of the command, when n was the last instant.
Fits(t, c, n) ==
    \/ /\ c.type \in PlainCommands
       /\ c.type = "thread.unsettle" => c.reason = "user"
       /\ c.type = "thread.snooze" => c.until \in Nat /\ c.at \in Nat \ {0}
    \/ c.type = "thread.turn.start" /\ c.at = n + 1
    \/ c.type = "thread.activity.append" /\ c.activity \in Activities
          /\ Newer(t.activities, c.activity)
    \/ c.type = "thread.turn.interrupt" /\ c.at = n + 1 /\ t.turn # NoTurn /\ c.turn = t.turn.id
    \/ c.type = "thread.turn.diff.complete" /\ c.at = n + 1 /\ c.turn = n + 1
          /\ c.count \in Nat \ {0}
    \/ /\ c.type \in {"thread.approval.respond", "thread.revert.complete", "thread.delete"}
       /\ c.type = "thread.revert.complete" => c.count \in Nat
    \/ c.type = "thread.session.set" /\ c.at = n + 1 /\ c.turn \in {NoTurnId} \cup ProviderTurns
          /\ (c.session = "running") = (c.turn # NoTurnId)
    \/ c.type = "thread.message.assistant.complete" /\ c.at = n + 1 /\ c.turn \in ProviderTurns

InstantAfter(c, n) == IF c.type \in Stamps THEN n + 1 ELSE n

LEMMA Executed ==
    ASSUME NEW t, NEW r, NEW n \in Nat, n < MaxNow, Agree(t, r, n), Room(t), NEW c, Fits(t, c, n)
    PROVE  /\ Agree(Done(t, c), Stored(t, r, c), InstantAfter(c, n))
           /\ t.deleted => Done(t, c).deleted
           /\ c.type \notin ProviderCommands /\ CapturesOnly(t, r, n) /\ ~Done(t, c).deleted =>
                 CapturesOnly(Done(t, c), Stored(t, r, c), InstantAfter(c, n))
<1>1. CASE /\ c.type \in PlainCommands
           /\ c.type = "thread.unsettle" => c.reason = "user"
           /\ c.type = "thread.snooze" => c.until \in Nat /\ c.at \in Nat \ {0}
  <2>1. InstantAfter(c, n) = IF c.type = "thread.snooze" THEN n + 1 ELSE n
    BY <1>1 DEF InstantAfter, Stamps, PlainCommands
  <2>2. Step(t, r, n, Done(t, c), Stored(t, r, c), n)
    BY <1>1, PlainExecuted
  <2>3. Agree(Done(t, c), Stored(t, r, c), n)
    BY <2>2 DEF Step
  <2>4. Step(Done(t, c), Stored(t, r, c), n, Done(t, c), Stored(t, r, c), n + 1)
    BY <2>3, TimePasses
  <2>5. Step(t, r, n, Done(t, c), Stored(t, r, c), n + 1)
    BY <2>2, <2>4, StepsCompose
  <2>. QED
    BY <2>1, <2>2, <2>5 DEF Step
<1>2. CASE c.type = "thread.turn.start" /\ c.at = n + 1
  <2>1. InstantAfter(c, n) = n + 1
    BY <1>2 DEF InstantAfter, Stamps
  <2>. QED
    BY <1>2, <2>1, TurnStartExecuted DEF Step
<1>3. CASE c.type = "thread.activity.append" /\ c.activity \in Activities
             /\ Newer(t.activities, c.activity)
  <2>1. InstantAfter(c, n) = n
    BY <1>3 DEF InstantAfter, Stamps
  <2>. QED
    BY <1>3, <2>1, ActivityExecuted DEF Step
<1>4. CASE c.type = "thread.turn.interrupt" /\ c.at = n + 1 /\ t.turn # NoTurn
             /\ c.turn = t.turn.id
  <2>1. InstantAfter(c, n) = n + 1
    BY <1>4 DEF InstantAfter, Stamps
  <2>. QED
    BY <1>4, <2>1, InterruptExecuted DEF Step
<1>5. CASE c.type = "thread.turn.diff.complete" /\ c.at = n + 1 /\ c.turn = n + 1
             /\ c.count \in Nat \ {0}
  <2>1. InstantAfter(c, n) = n + 1
    BY <1>5 DEF InstantAfter, Stamps
  <2>2. Step(t, r, n, Done(t, c), Stored(t, r, c), n + 1)
    BY <1>5, CaptureExecuted
  <2>. QED
    BY <2>1, <2>2 DEF Step
<1>6. CASE /\ c.type \in {"thread.approval.respond", "thread.revert.complete", "thread.delete"}
           /\ c.type = "thread.revert.complete" => c.count \in Nat
  <2>1. InstantAfter(c, n) = n
    BY <1>6 DEF InstantAfter, Stamps
  <2>. QED
    BY <1>6, <2>1, RestExecuted DEF Step
<1>7. CASE c.type = "thread.session.set" /\ c.at = n + 1
             /\ c.turn \in {NoTurnId} \cup ProviderTurns
             /\ (c.session = "running") = (c.turn # NoTurnId)
  <2>1. InstantAfter(c, n) = n + 1 /\ c.type \in ProviderCommands
    BY <1>7 DEF InstantAfter, Stamps, ProviderCommands
  <2>. QED
    BY <1>7, <2>1, SessionExecuted
<1>8. CASE c.type = "thread.message.assistant.complete" /\ c.at = n + 1
             /\ c.turn \in ProviderTurns
  <2>1. InstantAfter(c, n) = n + 1 /\ c.type \in ProviderCommands
    BY <1>8 DEF InstantAfter, Stamps, ProviderCommands
  <2>. QED
    BY <1>8, <2>1, AnswerExecuted
<1>. QED
  BY <1>1, <1>2, <1>3, <1>4, <1>5, <1>6, <1>7, <1>8 DEF Fits

\* Checkpoints are in the order of their counts, so the newest is the last.
LEMMA NewestIsLast ==
    ASSUME NEW t, NEW n \in Nat, ThreadTyped(t, n)
    PROVE  NewestCount(t) = IF t.checkpoints = <<>> THEN 0 ELSE Last(t.checkpoints).count
<1>. DEFINE s == t.checkpoints
            counts == {s[i].count : i \in DOMAIN s}
            Greatest1(k) == k \in counts /\ \A m \in counts : m <= k
<1>1. /\ s \in Seq(Checkpoints(n))
      /\ \A i, j \in DOMAIN s : i < j => s[i].count <= s[j].count
  BY DEF ThreadTyped
<1>2. \A i \in DOMAIN s : s[i].count \in Nat
  <2>1. \A c \in Checkpoints(n) : c.count \in Nat
    BY DEF Checkpoints
  <2>. HIDE DEF s
  <2>. QED
    BY <1>1, <2>1
<1>3. NewestCount(t) = IF counts = {} THEN 0 ELSE CHOOSE k \in counts : \A m \in counts : m <= k
  BY DEF NewestCount
<1>4. /\ \A x \in counts : \E i \in DOMAIN s : x = s[i].count
      /\ \A i \in DOMAIN s : s[i].count \in counts
  OBVIOUS
<1>5. Last(s) = s[Len(s)]
  BY DEF Last
<1>. HIDE DEF s, counts
<1>6. CASE s = <<>>
  <2>1. counts = {}
    BY <1>4, <1>6
  <2>. QED
    BY <1>3, <1>6, <2>1 DEF s
<1>7. CASE s # <<>>
  <2>1. Len(s) \in DOMAIN s /\ \A i \in DOMAIN s : i <= Len(s) /\ i \in Nat
    BY <1>1, <1>7
  <2>2. \A i \in DOMAIN s : s[i].count <= s[Len(s)].count
    BY <1>1, <1>2, <2>1
  <2>3. s[Len(s)].count \in counts /\ \A m \in counts : m <= s[Len(s)].count /\ m \in Nat
    BY <1>2, <1>4, <2>1, <2>2
  <2>4. \A k \in counts : (\A m \in counts : m <= k) => k = s[Len(s)].count
    BY <1>2, <2>1, <2>3
  <2>5. (CHOOSE k \in counts : \A m \in counts : m <= k) = s[Len(s)].count
    BY <2>3, <2>4
  <2>. QED
    BY <1>3, <1>5, <1>7, <2>3, <2>5 DEF s
<1>. QED
  BY <1>6, <1>7

LEMMA CountNatural ==
    ASSUME NEW t, NEW n \in Nat, ThreadTyped(t, n)
    PROVE  NewestCount(t) \in Nat
<1>1. t.checkpoints # <<>> => Last(t.checkpoints) \in Checkpoints(n)
  <2>1. t.checkpoints \in Seq(Checkpoints(n))
    BY DEF ThreadTyped
  <2>. QED
    BY <2>1 DEF Last
<1>2. \A c \in Checkpoints(n) : c.count \in Nat
  BY DEF Checkpoints
<1>. QED
  BY <1>1, <1>2, NewestIsLast

-----------------------------------------------------------------------------
(* The activities a command leaves.                                            *)

SameActivities(t, u) == DOMAIN u = ThreadFields /\ u.activities = t.activities

LEMMA OtherEvent ==
    ASSUME NEW t, DOMAIN t = ThreadFields, t.activities \in Seq(Activities), NEW e,
           e.type # "thread.activity-appended"
    PROVE  SameActivities(t, ProjectEvent(t, e))
<1>. DEFINE u == ProjectEvent(t, e)
<1>0. /\ "activities" \in DOMAIN t
      /\ ThreadFields \subseteq DOMAIN t /\ DOMAIN t \subseteq ThreadFields
  BY DEF ThreadFields
<1>1. CASE e.type \in {"thread.deleted", "thread.settled", "thread.unsettled",
                       "thread.snoozed", "thread.unsnoozed", "thread.terminal-status-changed"}
  <2>1. \/ u = [t EXCEPT !.deleted = TRUE]
        \/ u = [t EXCEPT !.settled = "settled", !.settledAt = e.settledAt]
        \/ u = [t EXCEPT !.settled = IF e.reason = "user" THEN "active" ELSE "none",
                         !.settledAt = NoTime]
        \/ u = [t EXCEPT !.snoozedUntil = e.snoozedUntil, !.snoozedAt = e.snoozedAt]
        \/ u = [t EXCEPT !.snoozedUntil = NoTime, !.snoozedAt = NoTime]
        \/ u = [t EXCEPT !.status = e.status]
    BY <1>1 DEF ProjectEvent
  <2>. HIDE DEF u
  <2>2. DOMAIN u = DOMAIN t /\ u.activities = t.activities
    BY <1>0, <2>1
  <2>. QED
    BY <2>2 DEF SameActivities, u
<1>2. CASE e.type = "thread.meta-updated"
  <2>1. u = MetaUpdated(t, e)
    BY <1>2 DEF ProjectEvent
  <2>2. \/ u = t \/ u = [t EXCEPT !.archived = e.archived]
        \/ u = [t EXCEPT !.title = e.title, !.titleSource = e.titleSource]
    BY <2>1 DEF MetaUpdated
  <2>. HIDE DEF u
  <2>3. DOMAIN u = DOMAIN t /\ u.activities = t.activities
    BY <1>0, <2>2
  <2>. QED
    BY <2>3 DEF SameActivities, u
<1>3. CASE e.type = "thread.message-sent"
  <2>1. u = MessageSent(t, e)
    BY <1>3 DEF ProjectEvent
  <2>2. \E x : u = [t EXCEPT !.messages = x]
    BY <2>1 DEF MessageSent
  <2>. HIDE DEF u
  <2>3. DOMAIN u = DOMAIN t /\ u.activities = t.activities
    BY <1>0, <2>2
  <2>. QED
    BY <2>3 DEF SameActivities, u
<1>4. CASE e.type = "thread.session-set"
  <2>1. u = SessionSet(t, e)
    BY <1>4 DEF ProjectEvent
  <2>. HIDE DEF u
  <2>2. DOMAIN u = DOMAIN t
    BY <2>1 DEF SessionSet
  <2>3. u.activities = t.activities
    BY <1>0, <2>1 DEF SessionSet
  <2>. QED
    BY <2>2, <2>3 DEF SameActivities, u
<1>5. CASE e.type = "thread.turn-diff-completed"
  <2>1. u = TurnDiffCompleted(t, e)
    BY <1>5 DEF ProjectEvent
  <2>2. \E x, y : u = [t EXCEPT !.checkpoints = x, !.turn = y]
    BY <2>1 DEF TurnDiffCompleted
  <2>. HIDE DEF u
  <2>3. DOMAIN u = DOMAIN t /\ u.activities = t.activities
    BY <1>0, <2>2
  <2>. QED
    BY <2>3 DEF SameActivities, u
<1>6. CASE e.type = "thread.reverted"
  <2>1. u = Reverted(t, e)
    BY <1>6 DEF ProjectEvent
  <2>. HIDE DEF u
  <2>2. DOMAIN u = DOMAIN t
    BY <2>1 DEF Reverted
  <2>3. \E y : u.activities = RetainActivities(t.activities, y)
    BY <1>0, <2>1 DEF Reverted
  <2>4. DOMAIN u = DOMAIN t /\ u.activities = t.activities
    BY <2>2, <2>3, ActivitiesStay
  <2>. QED
    BY <2>4 DEF SameActivities, u
<1>7. CASE e.type \notin {"thread.deleted", "thread.settled", "thread.unsettled",
                          "thread.snoozed", "thread.unsnoozed",
                          "thread.terminal-status-changed", "thread.meta-updated",
                          "thread.message-sent", "thread.session-set",
                          "thread.turn-diff-completed", "thread.reverted"}
  <2>1. u = t
    BY <1>7 DEF ProjectEvent
  <2>. QED
    BY <2>1 DEF SameActivities
<1>. QED
  BY <1>1, <1>2, <1>3, <1>4, <1>5, <1>6, <1>7

\* Commands other than the report of a request or an answer, and their events.
OtherCommands ==
    {"thread.delete", "thread.settle", "thread.unsettle", "thread.snooze", "thread.unsnooze",
     "thread.archive", "thread.rename", "thread.turn.start", "thread.turn.interrupt",
     "thread.approval.respond", "thread.session.set", "thread.message.assistant.complete",
     "thread.turn.diff.complete", "thread.revert.complete", "thread.terminal.statusChanged"}

OtherEvents(s) ==
    Len(s) \in 0..4 /\ \A i \in 1..Len(s) : s[i].type # "thread.activity-appended"

LEMMA OneOther ==
    ASSUME NEW s, s = <<>> \/ \E e : s = <<e>> /\ e.type # "thread.activity-appended"
    PROVE  OtherEvents(s)
<1>1. CASE s = <<>>
  BY <1>1 DEF OtherEvents
<1>2. ASSUME NEW e, s = <<e>>, e.type # "thread.activity-appended"
      PROVE  OtherEvents(s)
  <2>1. Len(s) = 1 /\ s[1] = e
    BY <1>2
  <2>. QED
    BY <1>2, <2>1 DEF OtherEvents
<1>. QED
  BY <1>1, <1>2

LEMMA OtherDecided ==
    ASSUME NEW t, NEW c, c.type \in OtherCommands
    PROVE  OtherEvents(Decide(t, c))
<1>. DEFINE s == Decide(t, c)
<1>1. CASE c.type \in {"thread.turn.start", "thread.session.set"}
  <2>. DEFINE back == [type |-> "thread.unsettled", reason |-> "activity"]
              wake == Event("thread.unsnoozed")
              a == [type |-> "thread.message-sent",
                    message |-> [id |-> c.at, role |-> "user", turn |-> NoTurnId, at |-> c.at]]
              b == [type |-> "thread.turn-start-requested", message |-> c.at]
              d == [type |-> "thread.session-set", session |-> c.session, turn |-> c.turn,
                    at |-> c.at]
              E == {back, wake, a, b, d}
  <2>1. \A e \in E : e.type # "thread.activity-appended"
    BY DEF Event
  <2>2. Unsettled(t) \in {<<>>, <<back>>} /\ Unsnoozed(t) \in {<<>>, <<wake>>}
    BY DEF Unsettled, Unsnoozed
  <2>3. /\ c.type = "thread.turn.start" => s = (Unsettled(t) \o Unsnoozed(t)) \o <<a, b>>
        /\ c.type = "thread.session.set" =>
              s = (IF c.session \in {"starting", "running"} THEN Unsettled(t) ELSE <<>>) \o <<d>>
    BY DEF Decide, TurnStart, SetSession
  <2>4. {back, wake, a, b, d} \subseteq E
    OBVIOUS
  <2>. HIDE DEF s, back, wake, a, b, d, E
  <2>5. ASSUME NEW e \in E
        PROVE  <<e>> \in Seq(E) /\ Len(<<e>>) = 1
    OBVIOUS
  <2>6. /\ <<>> \in Seq(E) /\ Len(<<>>) = 0
        /\ <<a, b>> \in Seq(E) /\ Len(<<a, b>>) = 2
    BY <2>4
  <2>7. /\ Unsettled(t) \in Seq(E) /\ Len(Unsettled(t)) \in 0..1
        /\ Unsnoozed(t) \in Seq(E) /\ Len(Unsnoozed(t)) \in 0..1
    <3>1. back \in E /\ wake \in E
      BY <2>4
    <3>2. \A e \in E : <<e>> \in Seq(E) /\ Len(<<e>>) = 1
      BY <2>5
    <3>3. ASSUME NEW x, NEW e \in E, x \in {<<>>, <<e>>}
          PROVE  x \in Seq(E) /\ Len(x) \in 0..1
      <4>1. CASE x = <<>>
        BY <2>6, <4>1
      <4>2. CASE x = <<e>>
        <5>1. Len(x) = 1 /\ x \in Seq(E)
          BY <3>2, <4>2
        <5>. QED
          BY <5>1
      <4>. QED
        BY <3>3, <4>1, <4>2
    <3>. QED
      BY <2>2, <3>1, <3>3
  <2>8. ASSUME NEW x \in Seq(E), NEW y \in Seq(E)
        PROVE  x \o y \in Seq(E) /\ Len(x \o y) = Len(x) + Len(y)
    BY ConcatProperties
  <2>9. s \in Seq(E) /\ Len(s) \in 0..4
    <3>1. CASE c.type = "thread.turn.start"
      <4>1. (Unsettled(t) \o Unsnoozed(t)) \in Seq(E)
            /\ Len(Unsettled(t) \o Unsnoozed(t)) \in 0..2
        <5>1. Len(Unsettled(t) \o Unsnoozed(t)) = Len(Unsettled(t)) + Len(Unsnoozed(t))
          BY <2>7, <2>8
        <5>. QED
          BY <2>7, <2>8, <5>1
      <4>2. s \in Seq(E) /\ Len(s) = Len(Unsettled(t) \o Unsnoozed(t)) + 2
        BY <2>3, <2>6, <2>8, <3>1, <4>1
      <4>. QED
        BY <4>1, <4>2
    <3>2. CASE c.type = "thread.session.set"
      <4>. DEFINE x == IF c.session \in {"starting", "running"} THEN Unsettled(t) ELSE <<>>
      <4>1. x \in Seq(E) /\ Len(x) \in 0..1
        BY <2>6, <2>7
      <4>2. <<d>> \in Seq(E) /\ Len(<<d>>) = 1
        BY <2>4, <2>5
      <4>3. s = x \o <<d>>
        BY <2>3, <3>2
      <4>. HIDE DEF x
      <4>4. s \in Seq(E) /\ Len(s) = Len(x) + 1
        BY <2>8, <4>1, <4>2, <4>3
      <4>5. \A k \in 0..1 : k + 1 \in 0..4
        OBVIOUS
      <4>6. Len(s) \in 0..4
        BY ONLY <4>1, <4>4, <4>5
      <4>. QED
        BY ONLY <4>4, <4>6
    <3>. QED
      BY <1>1, <3>1, <3>2
  <2>10. \A i \in 1..Len(s) : s[i] \in E
    BY <2>9
  <2>. QED
    BY <2>1, <2>9, <2>10 DEF OtherEvents, s
<1>2. CASE c.type \notin {"thread.turn.start", "thread.session.set"}
  <2>1. s = <<>> \/ \E e : s = <<e>> /\ e.type # "thread.activity-appended"
    <3>1. CASE c.type = "thread.settle"
      BY <3>1 DEF Decide, Settle
    <3>2. CASE c.type = "thread.unsettle"
      BY <3>2 DEF Decide, Unsettle
    <3>3. CASE c.type = "thread.snooze"
      BY <3>3 DEF Decide, Snooze
    <3>4. CASE c.type = "thread.unsnooze"
      BY <3>4 DEF Decide, Unsnooze, Event
    <3>5. CASE c.type \in {"thread.delete", "thread.archive", "thread.rename",
                           "thread.turn.interrupt", "thread.approval.respond",
                           "thread.message.assistant.complete", "thread.turn.diff.complete",
                           "thread.revert.complete", "thread.terminal.statusChanged"}
      BY <3>5 DEF Decide, Event
    <3>. QED
      BY <1>2, <3>1, <3>2, <3>3, <3>4, <3>5 DEF OtherCommands
  <2>. HIDE DEF s
  <2>. QED
    BY <2>1, OneOther DEF s
<1>. QED
  BY <1>1, <1>2

\* What a command does to the activities.
LEMMA OtherDone ==
    ASSUME NEW t, DOMAIN t = ThreadFields, t.activities \in Seq(Activities), NEW c,
           c.type \in OtherCommands
    PROVE  SameActivities(t, Done(t, c))
<1>. DEFINE s == Decide(t, c)
<1>1. Len(s) \in 0..4 /\ \A i \in 1..Len(s) : s[i].type # "thread.activity-appended"
  BY OtherDecided DEF OtherEvents
<1>2. SameActivities(t, t)
  BY DEF SameActivities
<1>3. ASSUME NEW u, SameActivities(t, u), NEW i \in 1..Len(s)
      PROVE  SameActivities(t, ProjectEvent(u, s[i]))
  <2>1. DOMAIN u = ThreadFields /\ u.activities \in Seq(Activities)
    BY <1>3 DEF SameActivities
  <2>2. SameActivities(u, ProjectEvent(u, s[i]))
    <3>. HIDE DEF s
    <3>. QED
      BY <1>1, <2>1, OtherEvent
  <2>. QED
    BY <1>3, <2>2 DEF SameActivities
<1>4. Done(t, c) = ProjectEvents(t, s)
  BY DEF Done
<1>. HIDE DEF s
<1>5. CASE Len(s) = 0
  BY <1>2, <1>4, <1>5, EventsInTurn
<1>6. CASE Len(s) # 0
  <2>. DEFINE t1 == ProjectEvent(t, s[1])
              t2 == ProjectEvent(t1, s[2])
              t3 == ProjectEvent(t2, s[3])
              t4 == ProjectEvent(t3, s[4])
  <2>1. /\ Len(s) = 1 => Done(t, c) = t1
        /\ Len(s) = 2 => Done(t, c) = t2
        /\ Len(s) = 3 => Done(t, c) = t3
        /\ Len(s) = 4 => Done(t, c) = t4
    BY <1>4, EventsInTurn
  <2>2. SameActivities(t, t1)
    BY <1>1, <1>2, <1>3, <1>6
  <2>. HIDE DEF t1
  <2>3. Len(s) \in 2..4 => SameActivities(t, t2)
    BY <1>1, <1>3, <2>2
  <2>. HIDE DEF t2
  <2>4. Len(s) \in 3..4 => SameActivities(t, t3)
    BY <1>1, <1>3, <2>3
  <2>. HIDE DEF t3
  <2>5. Len(s) = 4 => SameActivities(t, t4)
    BY <1>1, <1>3, <2>4
  <2>. HIDE DEF t4
  <2>. QED
    BY <1>1, <1>6, <2>1, <2>2, <2>3, <2>4, <2>5
<1>. QED
  BY <1>5, <1>6

LEMMA ActivityDone ==
    ASSUME NEW t, DOMAIN t = ThreadFields, t.activities \in Seq(Activities), NEW c,
           c.type = "thread.activity.append"
    PROVE  /\ DOMAIN Done(t, c) = ThreadFields
           /\ Done(t, c).activities =
                 Newest(WithActivity(t.activities, c.activity), MaxActivities)
<1>. DEFINE e == [type |-> "thread.activity-appended", activity |-> c.activity]
            back == [type |-> "thread.unsettled", reason |-> "activity"]
            s == Decide(t, c)
<1>1. ASSUME NEW u, SameActivities(t, u)
      PROVE  /\ DOMAIN ProjectEvent(u, e) = ThreadFields
             /\ ProjectEvent(u, e).activities =
                   Newest(WithActivity(t.activities, c.activity), MaxActivities)
  <2>1. ProjectEvent(u, e) = ActivityAppended(u, e)
    BY DEF ProjectEvent
  <2>2. "activities" \in DOMAIN u
    BY <1>1 DEF SameActivities, ThreadFields
  <2>3. e.activity = c.activity
    OBVIOUS
  <2>. HIDE DEF e
  <2>. QED
    BY <1>1, <2>1, <2>2, <2>3 DEF ActivityAppended, SameActivities
<1>2. s = Unsettled(t) \o <<e>> \/ s = <<>> \o <<e>>
  BY DEF Decide, AppendActivity
<1>3. Unsettled(t) = <<>> \/ Unsettled(t) = <<back>>
  BY DEF Unsettled
<1>4. back.type # "thread.activity-appended"
  OBVIOUS
<1>5. SameActivities(t, t) /\ SameActivities(t, ProjectEvent(t, back))
  <2>. HIDE DEF back
  <2>. QED
    BY <1>4, OtherEvent DEF SameActivities
<1>6. Done(t, c) = ProjectEvents(t, s)
  BY DEF Done
<1>. HIDE DEF e, back, s
<1>7. \/ Len(s) = 1 /\ s[1] = e
      \/ Len(s) = 2 /\ s[1] = back /\ s[2] = e
  <2>1. CASE s = <<>> \o <<e>>
    BY <2>1
  <2>2. CASE s = <<back>> \o <<e>>
    <3>. DEFINE E == {back, e}
                x == <<back>>
                y == <<e>>
    <3>1. x \in Seq(E) /\ y \in Seq(E) /\ Len(x) = 1 /\ Len(y) = 1 /\ x[1] = back /\ y[1] = e
      OBVIOUS
    <3>2. s = x \o y
      BY <2>2
    <3>. HIDE DEF E, x, y
    <3>3. /\ Len(s) = Len(x) + Len(y)
          /\ \A i \in 1..(Len(x) + Len(y)) : s[i] = IF i <= Len(x) THEN x[i] ELSE y[i - Len(x)]
      BY <3>1, <3>2, ConcatProperties
    <3>4. Len(s) = 2 /\ s[1] = x[1] /\ s[2] = y[1]
      BY <3>1, <3>3
    <3>. QED
      BY <3>1, <3>4
  <2>. QED
    BY <1>2, <1>3, <2>1, <2>2
<1>8. \/ Done(t, c) = ProjectEvent(t, e)
      \/ Done(t, c) = ProjectEvent(ProjectEvent(t, back), e)
  BY <1>6, <1>7, EventsInTurn
<1>. QED
  BY <1>1, <1>5, <1>8

-----------------------------------------------------------------------------
(* The order of the hooks.                                                     *)

Commands == [type : {"thread.activity.append"}, activity : Activities]
              \cup [type : {"thread.terminal.statusChanged"}, status : {"active", "dormant"}]

BringsActivity(c) == c.type = "thread.activity.append"

\* The activities of memory are older than those in the queue, which are in their order.
Ahead(activities, waiting) ==
    /\ \A k \in DOMAIN waiting : BringsActivity(waiting[k]) => Newer(activities, waiting[k].activity)
    /\ \A j, k \in DOMAIN waiting : j < k /\ BringsActivity(waiting[j]) /\ BringsActivity(waiting[k]) =>
          waiting[j].activity.id < waiting[k].activity.id

HookOrder ==
    /\ DOMAIN mem = ThreadFields /\ mem.activities \in Seq(Activities)
    /\ queue \in Seq(Commands) /\ asked \in Seq(Requests)
    /\ Ahead(mem.activities, queue)

\* What memory keeps of the activities are activities of it.
LEMMA NewestElements ==
    ASSUME NEW s \in Seq(Activities)
    PROVE  /\ Newest(s, MaxActivities) \in Seq(Activities)
           /\ \A i \in DOMAIN Newest(s, MaxActivities) :
                 \E j \in DOMAIN s : Newest(s, MaxActivities)[i] = s[j]
<1>. DEFINE l == Len(s)
            from == IF l > MaxActivities THEN l - MaxActivities + 1 ELSE 1
            z == SubSeq(s, from, l)
<1>1. l \in Nat /\ MaxActivities \in Nat \ {0} /\ DOMAIN s = 1..l
  BY CapsAssumption
<1>2. from \in 1..(l + 1) /\ Newest(s, MaxActivities) = z
  BY <1>1 DEF Newest
<1>. HIDE DEF from, l
<1>3. /\ z \in Seq(Activities)
      /\ DOMAIN z = 1..(l - from + 1)
      /\ \A i \in 1..(l - from + 1) : z[i] = s[from + i - 1]
  BY <1>1, <1>2
<1>4. \A i \in 1..(l - from + 1) : from + i - 1 \in DOMAIN s
  BY <1>1, <1>2
<1>. QED
  BY <1>2, <1>3, <1>4

\* The first command is taken.
LEMMA AheadTaken ==
    ASSUME NEW activities \in Seq(Activities), NEW waiting \in Seq(Commands), waiting # <<>>,
           Ahead(activities, waiting)
    PROVE  /\ BringsActivity(Head(waiting)) =>
                 LET a == Head(waiting).activity
                 IN  /\ a \in Activities /\ Newer(activities, a)
                     /\ WithActivity(activities, a) = Append(activities, a)
                     /\ Ahead(Newest(Append(activities, a), MaxActivities), Tail(waiting))
           /\ Ahead(activities, Tail(waiting))
<1>. DEFINE rest == Tail(waiting)
            head == Head(waiting)
            m == Len(waiting)
            a == head.activity
            s == Append(activities, a)
            z == Newest(s, MaxActivities)
<1>1. /\ m \in Nat \ {0} /\ DOMAIN waiting = 1..m /\ head = waiting[1] /\ head \in Commands
      /\ DOMAIN rest = 1..(m - 1) /\ \A i \in 1..(m - 1) : rest[i] = waiting[i + 1]
  OBVIOUS
<1>2. BringsActivity(head) => a \in Activities
  BY <1>1 DEF Commands, BringsActivity
<1>3. a \in Activities => s \in Seq(Activities) /\ \A i \in DOMAIN s :
          s[i] = a \/ \E j \in DOMAIN activities : s[i] = activities[j]
  <2>. HIDE DEF a
  <2>. QED
    OBVIOUS
<1>. HIDE DEF rest, head, m, a
<1>4. \A i \in DOMAIN rest : /\ i + 1 \in DOMAIN waiting /\ rest[i] = waiting[i + 1]
                             /\ 1 \in DOMAIN waiting /\ 1 < i + 1
  BY <1>1
<1>5. Ahead(activities, rest)
  <2>1. \A j, k \in DOMAIN rest : j < k => j + 1 < k + 1
    BY <1>1
  <2>. QED
    BY <1>4, <2>1 DEF Ahead
<1>6. ASSUME BringsActivity(head)
      PROVE  /\ a \in Activities /\ Newer(activities, a)
             /\ WithActivity(activities, a) = s
             /\ Ahead(z, rest)
  <2>1. a \in Activities /\ 1 \in DOMAIN waiting /\ a = waiting[1].activity
    BY <1>1, <1>2, <1>6 DEF a
  <2>2. Newer(activities, a)
    BY <1>1, <1>6, <2>1 DEF Ahead
  <2>3. WithActivity(activities, a) = s
    BY <2>1, <2>2, NewestPlaced
  <2>4. s \in Seq(Activities)
    BY <1>3, <2>1
  <2>5. ASSUME NEW i \in DOMAIN z
        PROVE  z[i] = a \/ \E j \in DOMAIN activities : z[i] = activities[j]
    <3>. HIDE DEF s
    <3>1. PICK j \in DOMAIN s : z[i] = s[j]
      BY <2>4, <2>5, NewestElements
    <3>. QED
      BY <1>3, <2>1, <3>1
  <2>. HIDE DEF z, s
  <2>6. ASSUME NEW k \in DOMAIN rest, BringsActivity(rest[k])
        PROVE  Newer(z, rest[k].activity)
    <3>1. a.id < rest[k].activity.id
      BY <1>1, <1>4, <1>6, <2>1, <2>6 DEF Ahead
    <3>2. Newer(activities, rest[k].activity)
      BY <1>5, <2>6 DEF Ahead
    <3>. QED
      BY <2>5, <3>1, <3>2 DEF Newer
  <2>. QED
    BY <1>5, <2>1, <2>2, <2>3, <2>6 DEF Ahead
<1>. QED
  BY <1>5, <1>6 DEF rest, head, a

\* The next activity is newer than those known.
LEMMA NextIsNewer ==
    ASSUME HookOrder
    PROVE  /\ NextActivity \in Nat \ {0}
           /\ \A i \in DOMAIN mem.activities : mem.activities[i].id < NextActivity
           /\ \A k \in DOMAIN queue : BringsActivity(queue[k]) => queue[k].activity.id < NextActivity
<1>. DEFINE s == mem.activities
            queued == {i \in DOMAIN queue : queue[i].type = "thread.activity.append"}
            f == [i \in DOMAIN s |-> s[i].id]
            g == [i \in queued |-> queue[i].activity.id]
            F == {f[i] : i \in DOMAIN s}
            G == {g[i] : i \in queued}
            ids == {s[i].id : i \in DOMAIN s} \cup {queue[i].activity.id : i \in queued}
<1>1. /\ Len(s) \in Nat /\ DOMAIN s = 1..Len(s) /\ \A i \in DOMAIN s : s[i] \in Activities
      /\ Len(queue) \in Nat /\ DOMAIN queue = 1..Len(queue)
      /\ \A i \in DOMAIN queue : queue[i] \in Commands
  BY DEF HookOrder
<1>2. /\ \A i \in DOMAIN s : s[i].id \in Nat
      /\ \A i \in queued : queue[i].activity.id \in Nat
  BY <1>1 DEF Commands, Activities
<1>3. IsFiniteSet(DOMAIN s) /\ IsFiniteSet(queued)
  <2>1. IsFiniteSet(1..Len(s)) /\ IsFiniteSet(1..Len(queue))
    BY <1>1, FS_Interval
  <2>. QED
    BY <1>1, <2>1, FS_Subset
<1>4. ids = F \cup G
  OBVIOUS
<1>. HIDE DEF s, queued
<1>5. IsFiniteSet(F) /\ IsFiniteSet(G)
  <2>1. f \in Surjection(DOMAIN s, F)
    BY DEF Surjection
  <2>2. g \in Surjection(queued, G)
    BY DEF Surjection
  <2>. HIDE DEF f, g, F, G
  <2>. QED
    BY <1>3, <2>1, <2>2, FS_Surjection
<1>6. IsFiniteSet(ids)
  <2>. HIDE DEF F, G, ids
  <2>. QED
    BY <1>4, <1>5, FS_Union
<1>7. ids \in SUBSET Nat
  BY <1>2
<1>8. NextActivity = IF ids = {} THEN 1
                     ELSE 1 + CHOOSE k \in ids : \A other \in ids : other <= k
  BY DEF NextActivity, s, queued
<1>9. /\ \A i \in DOMAIN s : s[i].id \in ids
      /\ \A i \in queued : queue[i].activity.id \in ids
  OBVIOUS
<1>. HIDE DEF ids
<1>10. CASE ids = {}
  BY <1>8, <1>9, <1>10 DEF s, queued, BringsActivity
<1>11. CASE ids # {}
  <2>1. \E k \in ids : \A other \in ids : other <= k
    BY <1>6, <1>7, <1>11, Greatest
  <2>. DEFINE top == CHOOSE k \in ids : \A other \in ids : other <= k
  <2>2. top \in ids /\ \A other \in ids : other <= top
    BY <2>1
  <2>3. NextActivity = 1 + top
    BY <1>8, <1>11
  <2>. HIDE DEF top
  <2>4. NextActivity \in Nat \ {0} /\ \A other \in ids : other < NextActivity
    BY <1>7, <2>2, <2>3
  <2>. QED
    BY <1>9, <2>4 DEF s, queued, BringsActivity
<1>. QED
  BY <1>10, <1>11

\* What hooks offer comes after what there is.
LEMMA AheadOffered ==
    ASSUME HookOrder, NEW more \in Seq(Commands),
           \A k \in DOMAIN more : BringsActivity(more[k]) =>
               more[k].activity.id = NextActivity + k - 1
    PROVE  queue \o more \in Seq(Commands) /\ Ahead(mem.activities, queue \o more)
<1>. DEFINE all == queue \o more
            m == Len(queue)
<1>1. /\ m \in Nat /\ Len(more) \in Nat /\ DOMAIN queue = 1..m /\ DOMAIN more = 1..Len(more)
      /\ DOMAIN all = 1..(m + Len(more)) /\ all \in Seq(Commands)
      /\ \A i \in 1..m : all[i] = queue[i]
      /\ \A i \in 1..Len(more) : all[m + i] = more[i]
  BY DEF HookOrder
<1>2. /\ NextActivity \in Nat \ {0}
      /\ \A i \in DOMAIN mem.activities : mem.activities[i].id < NextActivity
      /\ \A k \in DOMAIN queue : BringsActivity(queue[k]) => queue[k].activity.id < NextActivity
  BY NextIsNewer
<1>. HIDE DEF all, m
<1>3. ASSUME NEW k \in DOMAIN all, BringsActivity(all[k])
      PROVE  \/ k \in DOMAIN queue /\ all[k] = queue[k]
             \/ k > m /\ all[k].activity.id = NextActivity + (k - m) - 1
  <2>1. CASE k > m
    <3>1. k - m \in 1..Len(more) /\ all[k] = more[k - m]
      <4>1. k - m \in 1..Len(more) /\ m + (k - m) = k
        BY <1>1, <2>1
      <4>. QED
        BY <1>1, <4>1
    <3>. QED
      BY <1>1, <1>3, <2>1, <3>1
  <2>2. CASE ~(k > m)
    BY <1>1, <2>2
  <2>. QED
    BY <2>1, <2>2
<1>4. \A i \in DOMAIN mem.activities : mem.activities[i].id \in Nat
  <2>1. \A i \in DOMAIN mem.activities : mem.activities[i] \in Activities
    BY DEF HookOrder
  <2>. QED
    BY <2>1 DEF Activities
<1>5. \A k \in DOMAIN queue : BringsActivity(queue[k]) => queue[k].activity.id \in Nat
  <2>1. \A k \in DOMAIN queue : queue[k] \in Commands
    BY DEF HookOrder
  <2>. QED
    BY <2>1 DEF Commands, BringsActivity, Activities
<1>6. ASSUME NEW k \in DOMAIN all, BringsActivity(all[k])
      PROVE  Newer(mem.activities, all[k].activity)
  <2>1. CASE k \in DOMAIN queue /\ all[k] = queue[k]
    BY <1>6, <2>1 DEF HookOrder, Ahead
  <2>2. CASE k > m /\ all[k].activity.id = NextActivity + (k - m) - 1
    <3>1. k \in Nat /\ NextActivity + (k - m) - 1 \in Nat
          /\ NextActivity + (k - m) - 1 >= NextActivity
      BY <1>1, <1>2, <2>2
    <3>. QED
      BY <1>2, <1>4, <2>2, <3>1 DEF Newer
  <2>. QED
    BY <1>3, <1>6, <2>1, <2>2
<1>7. ASSUME NEW j \in DOMAIN all, NEW k \in DOMAIN all, j < k, BringsActivity(all[j]), BringsActivity(all[k])
      PROVE  all[j].activity.id < all[k].activity.id
  <2>1. CASE k \in DOMAIN queue
    <3>1. j \in DOMAIN queue /\ all[j] = queue[j] /\ all[k] = queue[k]
      BY <1>1, <1>7, <2>1
    <3>2. \A i, l \in DOMAIN queue : i < l /\ BringsActivity(queue[i]) /\ BringsActivity(queue[l])
              => queue[i].activity.id < queue[l].activity.id
      BY DEF HookOrder, Ahead
    <3>. QED
      BY ONLY <1>7, <2>1, <3>1, <3>2
  <2>2. CASE k \notin DOMAIN queue
    <3>1. k > m /\ all[k].activity.id = NextActivity + (k - m) - 1
      BY <1>3, <1>7, <2>2
    <3>2. CASE j \in DOMAIN queue /\ all[j] = queue[j]
      <4>1. all[j].activity.id < NextActivity /\ all[j].activity.id \in Nat
        BY <1>2, <1>5, <1>7, <3>2
      <4>. QED
        BY <1>1, <1>2, <3>1, <4>1
    <3>3. CASE j > m /\ all[j].activity.id = NextActivity + (j - m) - 1
      BY <1>1, <1>2, <1>7, <3>1, <3>3
    <3>. QED
      BY <1>3, <1>7, <3>2, <3>3
  <2>. QED
    BY <2>1, <2>2
<1>8. Ahead(mem.activities, all)
  BY <1>6, <1>7 DEF Ahead
<1>. QED
  BY <1>1, <1>8 DEF all

\* What the hooks offer are commands.
LEMMA ApprovalsAreCommands ==
    /\ \A kind \in {"approval.requested", "approval.resolved"}, q \in Requests,
          id \in Nat \ {0} : Approval(kind, q, id) \in Commands
    /\ \A status \in {"active", "dormant"} : StatusChanged(status) \in Commands
<1>1. ASSUME NEW kind \in {"approval.requested", "approval.resolved"}, NEW q \in Requests,
             NEW id \in Nat \ {0}
      PROVE  Approval(kind, q, id) \in Commands
  <2>. DEFINE a == [id |-> id, kind |-> kind, request |-> q, turn |-> NoTurnId]
  <2>1. a \in Activities
    BY DEF Activities
  <2>. HIDE DEF a
  <2>2. Approval(kind, q, id) = [type |-> "thread.activity.append", activity |-> a]
    BY DEF Approval, a
  <2>. QED
    BY <2>1, <2>2 DEF Commands
<1>2. ASSUME NEW status \in {"active", "dormant"}
      PROVE  StatusChanged(status) \in Commands
  BY DEF StatusChanged, Commands
<1>. QED
  BY <1>1, <1>2

LEMMA ResolveAreCommands ==
    ASSUME HookOrder, NEW requests \in Seq(Requests)
    PROVE  /\ Resolve(requests) \in Seq(Commands)
           /\ \A k \in DOMAIN Resolve(requests) :
                 Resolve(requests)[k].activity.id = NextActivity + k - 1
<1>1. Len(requests) \in Nat /\ DOMAIN requests = 1..Len(requests)
      /\ \A i \in 1..Len(requests) : requests[i] \in Requests
  OBVIOUS
<1>. DEFINE x(i) == Approval("approval.resolved", requests[i], NextActivity + i - 1)
<1>2. NextActivity \in Nat \ {0}
  BY NextIsNewer
<1>3. ASSUME NEW i \in 1..Len(requests)
      PROVE  x(i) \in Commands /\ x(i).activity.id = NextActivity + i - 1
  <2>1. NextActivity + i - 1 \in Nat \ {0} /\ requests[i] \in Requests
    BY <1>1, <1>2
  <2>2. x(i) \in Commands
    BY <2>1, ApprovalsAreCommands
  <2>. QED
    BY <2>2 DEF Approval
<1>4. Resolve(requests) = [i \in 1..Len(requests) |-> x(i)]
  BY <1>1 DEF Resolve
<1>. HIDE DEF x
<1>. QED
  BY <1>1, <1>3, <1>4

\* Clients send nothing that carries an activity.
LEMMA ClientsAreOther ==
    ASSUME \/ DeleteThread \/ SettleThread \/ UnsettleThread \/ SnoozeThread \/ UnsnoozeThread
           \/ ArchiveThread \/ RenameThread \/ StartTurn \/ InterruptTurn \/ RespondToApproval
           \/ SetSessionStatus \/ CompleteAssistantMessage
    PROVE  \E c : /\ c.type \in OtherCommands /\ Execute(c)
                  /\ UNCHANGED <<child, asked, queue>>
<1>1. \E c : c.type \in OtherCommands /\ Client(c)
  <2>1. CASE DeleteThread \/ SettleThread \/ UnsnoozeThread \/ StartTurn
    <3>1. \E type \in OtherCommands : Client(Command(type))
      BY <2>1 DEF DeleteThread, SettleThread, UnsnoozeThread, StartTurn, OtherCommands
    <3>2. \A type : Command(type).type = type
      BY DEF Command
    <3>. QED
      BY <3>1, <3>2
  <2>2. CASE UnsettleThread
    BY <2>2 DEF UnsettleThread, OtherCommands
  <2>3. CASE SnoozeThread
    BY <2>3 DEF SnoozeThread, OtherCommands
  <2>4. CASE ArchiveThread
    BY <2>4 DEF ArchiveThread, OtherCommands
  <2>5. CASE RenameThread
    BY <2>5 DEF RenameThread, OtherCommands
  <2>6. CASE InterruptTurn
    BY <2>6 DEF InterruptTurn, OtherCommands
  <2>7. CASE RespondToApproval
    BY <2>7 DEF RespondToApproval, OtherCommands
  <2>8. CASE SetSessionStatus
    BY <2>8 DEF SetSessionStatus, OtherCommands
  <2>9. CASE CompleteAssistantMessage
    BY <2>9 DEF CompleteAssistantMessage, OtherCommands
  <2>. QED
    BY <2>1, <2>2, <2>3, <2>4, <2>5, <2>6, <2>7, <2>8, <2>9
<1>2. PICK c : c.type \in OtherCommands /\ Client(c)
  BY <1>1
<1>3. c.type \in OtherCommands /\ Execute(c) /\ UNCHANGED <<child, asked, queue>>
  BY <1>2 DEF Client, inProgress
<1>. QED
  BY <1>3

LEMMA HookOrderInHooks ==
    ASSUME HookOrder,
           \/ StartSession \/ EndSession \/ UserPromptSubmit \/ PermissionRequest
           \/ PostToolUse \/ Stop
    PROVE  HookOrder'
<1>0. mem' = mem /\ asked \in Seq(Requests) /\ NextActivity \in Nat \ {0}
  BY NextIsNewer DEF HookOrder, StartSession, EndSession, UserPromptSubmit,
     PermissionRequest, PostToolUse, Stop
<1>1. ASSUME NEW more \in Seq(Commands), Offer(more), asked' \in Seq(Requests),
             \A k \in DOMAIN more : BringsActivity(more[k]) =>
                 more[k].activity.id = NextActivity + k - 1
      PROVE  HookOrder'
  <2>1. queue' = queue \o more
    BY <1>1 DEF Offer
  <2>2. queue' \in Seq(Commands) /\ Ahead(mem.activities, queue')
    BY <1>1, <2>1, AheadOffered
  <2>. QED
    BY <1>0, <1>1, <2>2 DEF HookOrder
<1>2. ASSUME NEW c \in Commands
      PROVE  <<c>> \in Seq(Commands) /\ DOMAIN <<c>> = {1} /\ <<c>>[1] = c
  OBVIOUS
<1>3. CASE StartSession \/ EndSession
  <2>1. PICK status \in {"active", "dormant"} : Offer(<<StatusChanged(status)>>)
    BY <1>3 DEF StartSession, EndSession
  <2>2. asked' = asked
    BY <1>3 DEF StartSession, EndSession, inProgress
  <2>. DEFINE x == StatusChanged(status)
  <2>3. x \in Commands /\ ~BringsActivity(x)
    BY ApprovalsAreCommands DEF StatusChanged, BringsActivity
  <2>4. Offer(<<x>>)
    BY <2>1
  <2>. HIDE DEF x
  <2>. QED
    BY <1>0, <1>1, <1>2, <2>2, <2>3, <2>4
<1>4. CASE UserPromptSubmit \/ Stop
  <2>1. Offer(Resolve(asked)) /\ asked' = <<>>
    BY <1>4 DEF UserPromptSubmit, Stop
  <2>2. asked' \in Seq(Requests)
    BY <2>1
  <2>. QED
    BY <1>0, <1>1, <2>1, <2>2, ResolveAreCommands
<1>5. CASE PermissionRequest
  <2>1. PICK q \in Requests : /\ Offer(<<Approval("approval.requested", q, NextActivity)>>)
                              /\ asked' = Append(asked, q)
    BY <1>5 DEF PermissionRequest
  <2>. DEFINE x == Approval("approval.requested", q, NextActivity)
  <2>2. x \in Commands /\ x.activity.id = NextActivity
    <3>1. x \in Commands
      BY <1>0, ApprovalsAreCommands
    <3>. QED
      BY <3>1 DEF Approval
  <2>3. Offer(<<x>>)
    BY <2>1
  <2>. HIDE DEF x
  <2>4. asked' \in Seq(Requests)
    BY <1>0, <2>1
  <2>5. NextActivity = NextActivity + 1 - 1
    BY <1>0
  <2>. QED
    BY <1>1, <1>2, <2>2, <2>3, <2>4, <2>5
<1>6. CASE PostToolUse
  <2>1. /\ asked # <<>>
        /\ Offer(Resolve(<<asked[Len(asked)]>>))
        /\ asked' = SubSeq(asked, 1, Len(asked) - 1)
    BY <1>6 DEF PostToolUse
  <2>2. <<asked[Len(asked)]>> \in Seq(Requests) /\ asked' \in Seq(Requests)
    BY <1>0, <2>1
  <2>. QED
    BY <1>1, <2>1, <2>2, ResolveAreCommands
<1>. QED
  BY <1>3, <1>4, <1>5, <1>6

LEMMA HookOrderOther ==
    ASSUME HookOrder, NEW c, c.type \in OtherCommands, Execute(c), UNCHANGED <<asked, queue>>
    PROVE  HookOrder'
<1>1. mem' = Done(mem, c)
  BY DEF Execute, Done
<1>2. SameActivities(mem, mem')
  BY <1>1, OtherDone DEF HookOrder
<1>. QED
  BY <1>2 DEF HookOrder, SameActivities

LEMMA HookOrderTaken ==
    ASSUME HookOrder, TakeCommand
    PROVE  HookOrder'
<1>. DEFINE c == Head(queue)
<1>1. /\ queue # <<>> /\ Execute(c) /\ queue' = Tail(queue) /\ asked' = asked
  BY DEF TakeCommand, inProgress
<1>2. /\ queue \in Seq(Commands) /\ mem.activities \in Seq(Activities)
      /\ DOMAIN mem = ThreadFields /\ Ahead(mem.activities, queue)
  BY DEF HookOrder
<1>3. c \in Commands /\ Tail(queue) \in Seq(Commands)
  BY <1>1, <1>2
<1>4. mem' = Done(mem, c)
  BY <1>1 DEF Execute, Done
<1>5. /\ BringsActivity(c) =>
            /\ c.activity \in Activities
            /\ WithActivity(mem.activities, c.activity) = Append(mem.activities, c.activity)
            /\ Ahead(Newest(Append(mem.activities, c.activity), MaxActivities), Tail(queue))
      /\ Ahead(mem.activities, Tail(queue))
  BY <1>1, <1>2, AheadTaken
<1>. HIDE DEF c
<1>6. CASE BringsActivity(c)
  <2>. DEFINE z == Append(mem.activities, c.activity)
  <2>1. z \in Seq(Activities)
    BY <1>2, <1>5, <1>6
  <2>2. DOMAIN mem' = ThreadFields /\ mem'.activities = Newest(z, MaxActivities)
    BY <1>2, <1>4, <1>5, <1>6, ActivityDone DEF BringsActivity
  <2>3. Ahead(Newest(z, MaxActivities), Tail(queue))
    BY <1>5, <1>6
  <2>. HIDE DEF z
  <2>. QED
    BY <1>1, <1>3, <2>1, <2>2, <2>3, NewestElements DEF HookOrder
<1>7. CASE ~BringsActivity(c)
  <2>1. c.type \in OtherCommands
    BY <1>3, <1>7 DEF Commands, OtherCommands, BringsActivity
  <2>2. SameActivities(mem, mem')
    BY <1>2, <1>4, <2>1, OtherDone
  <2>. QED
    BY <1>1, <1>2, <1>3, <1>5, <2>2 DEF SameActivities, HookOrder
<1>. QED
  BY <1>6, <1>7

\* What else the server does but a restart carries nothing.
LEMMA ServerIsOther ==
    ASSUME \/ EndCapture \/ StartRevert \/ EndRevert \/ EndTitle \/ StartSweep \/ EndSweep
           \/ Tick
    PROVE  /\ UNCHANGED <<child, asked, queue>>
           /\ mem' = mem \/ \E c : c.type \in OtherCommands /\ Execute(c)
<1>2. CASE EndCapture
  <2>1. PICK i \in DOMAIN captures :
          /\ \/ Execute([type |-> "thread.turn.diff.complete", at |-> now, turn |-> now,
                         count |-> captures[i] + 1])
             \/ UNCHANGED <<mem, rows, now>>
          /\ UNCHANGED <<child, asked, queue>>
    BY <1>2 DEF EndCapture
  <2>. DEFINE c == [type |-> "thread.turn.diff.complete", at |-> now, turn |-> now,
                    count |-> captures[i] + 1]
  <2>2. c.type \in OtherCommands
    BY DEF OtherCommands
  <2>3. Execute(c) \/ mem' = mem
    BY <2>1
  <2>. HIDE DEF c
  <2>. QED
    BY <2>1, <2>2, <2>3
<1>3. CASE EndRevert
  <2>1. PICK n \in reverting :
          /\ Execute([type |-> "thread.revert.complete", at |-> now, count |-> n])
          /\ UNCHANGED <<child, asked, queue>>
    BY <1>3 DEF EndRevert
  <2>. DEFINE c == [type |-> "thread.revert.complete", at |-> now, count |-> n]
  <2>2. c.type \in OtherCommands /\ Execute(c)
    BY <2>1 DEF OtherCommands
  <2>. HIDE DEF c
  <2>. QED
    BY <2>1, <2>2
<1>4. CASE EndTitle
  <2>. DEFINE c == [type |-> "thread.rename", at |-> now, title |-> "generated",
                    titleSource |-> "auto"]
  <2>1. c.type \in OtherCommands /\ Execute(c) /\ UNCHANGED <<child, asked, queue>>
    BY <1>4 DEF EndTitle, OtherCommands
  <2>. HIDE DEF c
  <2>. QED
    BY <2>1
<1>5. CASE EndSweep
  <2>. DEFINE c == [type |-> "thread.archive", at |-> now, archived |-> TRUE]
  <2>1. c.type \in OtherCommands /\ Execute(c) /\ UNCHANGED <<child, asked, queue>>
    BY <1>5 DEF EndSweep, OtherCommands
  <2>. HIDE DEF c
  <2>. QED
    BY <2>1
<1>6. CASE StartRevert \/ StartSweep \/ Tick
  <2>1. UNCHANGED <<mem, child, asked, queue>>
    BY <1>6 DEF StartRevert, StartSweep, Tick, inProgress
  <2>. QED
    BY <2>1
<1>. QED
  BY <1>2, <1>3, <1>4, <1>5, <1>6

LEMMA HookOrderKeeps ==
    ASSUME HookOrder, ThreadNext, ~Restart
    PROVE  HookOrder'
<1>1. CASE \/ DeleteThread \/ SettleThread \/ UnsettleThread \/ SnoozeThread \/ UnsnoozeThread
           \/ ArchiveThread \/ RenameThread \/ StartTurn \/ InterruptTurn \/ RespondToApproval
           \/ SetSessionStatus \/ CompleteAssistantMessage
  BY <1>1, ClientsAreOther, HookOrderOther
<1>2. CASE \/ StartSession \/ EndSession \/ UserPromptSubmit \/ PermissionRequest
           \/ PostToolUse \/ Stop
  BY <1>2, HookOrderInHooks
<1>3. CASE TakeCommand
  BY <1>3, HookOrderTaken
<1>4. CASE \/ EndCapture \/ StartRevert \/ EndRevert \/ EndTitle \/ StartSweep \/ EndSweep
           \/ Tick
  <2>1. CASE mem' = mem
    BY <1>4, <2>1, ServerIsOther DEF HookOrder
  <2>. QED
    BY <1>4, <2>1, ServerIsOther, HookOrderOther
<1>. QED
  BY <1>1, <1>2, <1>3, <1>4 DEF ThreadNext

-----------------------------------------------------------------------------
(* The server's steps.                                                         *)

ServerTyped ==
    /\ now \in 2..(MaxNow + 1)
    /\ asked \in Seq(Requests)
    /\ queue \in Seq(Commands)
    /\ captures \in Seq(Nat)
    /\ reverting \subseteq Nat

\* Memory and tables agree, and each turn is of a capture where no provider reports turns.
Together ==
    /\ Agree(mem, rows, now - 1)
    /\ ~mem.deleted /\ ~Provider => CapturesOnly(mem, rows, now - 1)

ThreadIInv == ServerTyped /\ Together /\ HookOrder

LEMMA NewThreadAgrees ==
    ASSUME NEW t, NEW r, t = NewThread(1), r = NewRows(1)
    PROVE  Agree(t, r, 1) /\ CapturesOnly(t, r, 1)
<1>1. /\ t.turn = NoTurn /\ t.messages = <<>> /\ t.activities = <<>> /\ t.checkpoints = <<>>
      /\ t.session = NoSession /\ t.settled = "none" /\ t.deleted = FALSE
      /\ t.lastInteractedAt = 1 /\ DOMAIN t = ThreadFields
  <2>1. DOMAIN t = ThreadFields
    BY DEF NewThread, ThreadFields, Plain
  <2>2. /\ t.turn = NoTurn /\ t.messages = <<>> /\ t.activities = <<>> /\ t.checkpoints = <<>>
        /\ t.session = NoSession /\ t.settled = "none" /\ t.deleted = FALSE
        /\ t.lastInteractedAt = 1
    BY DEF NewThread
  <2>. QED
    BY <2>1, <2>2
<1>2. /\ r.turns = {} /\ r.messages = <<>> /\ r.activities = <<>> /\ r.session = NoSession
      /\ r.pending = 0 /\ DOMAIN r.thread = RowFields
      /\ r.thread.snoozedUntil = 0 /\ r.thread.snoozedAt = 0 /\ r.thread.lastInteractedAt = 1
      /\ SameRow(t, r.thread)
  <2>1. DOMAIN r.thread = RowFields
    BY DEF NewRows, RowFields, Plain
  <2>2. /\ r.turns = {} /\ r.messages = <<>> /\ r.activities = <<>> /\ r.session = NoSession
        /\ r.pending = 0
        /\ r.thread.snoozedUntil = 0 /\ r.thread.snoozedAt = 0 /\ r.thread.lastInteractedAt = 1
    BY DEF NewRows, NoMessage, NoTime
  <2>3. SameRow(t, r.thread)
    <3>1. /\ t.deleted = r.thread.deleted /\ t.archived = r.thread.archived
          /\ t.title = r.thread.title /\ t.titleSource = r.thread.titleSource
          /\ t.status = r.thread.status /\ t.createdAt = r.thread.createdAt
          /\ t.settled = r.thread.settled /\ t.settledAt = r.thread.settledAt
          /\ t.snoozedUntil = r.thread.snoozedUntil /\ t.snoozedAt = r.thread.snoozedAt
      BY DEF NewThread, NewRows
    <3>. QED
      BY <3>1 DEF Plain, SameRow
  <2>. QED
    BY <2>1, <2>2, <2>3
<1>3. TurnTyped(NoTurn, 1) /\ Times(NoTurn) = {0} /\ NoTurn.state = "none"
  BY DEF TurnTyped, TurnType, NoTurn, NoTurnId, NoTime, TurnStates, Times
<1>4. \A X : <<>> \in Seq(X)
  OBVIOUS
<1>5. DOMAIN t.checkpoints = {} /\ DOMAIN t.activities = {}
  BY <1>1
<1>6. ThreadTyped(t, 1)
  BY <1>1, <1>3, <1>4, <1>5 DEF ThreadTyped
<1>7. RowsTyped(r, 1)
  <2>1. IsFiniteSet({})
    BY FS_EmptySet
  <2>2. TurnsTyped(r.turns, 1)
    BY <1>2, <2>1 DEF TurnsTyped
  <2>3. SnoozeTyped(r.thread)
    BY <1>2 DEF SnoozeTyped, NoTime
  <2>4. r.messages \in Seq(Messages(1)) /\ r.activities \in Seq(Activities)
    BY <1>2, <1>4
  <2>. QED
    BY <1>2, <2>2, <2>3, <2>4 DEF RowsTyped
<1>8. LatestTurn(r.turns) = NoTurn
  BY <1>2 DEF LatestTurn
<1>9. CheckpointsMatch(t.checkpoints, r.turns, 1)
  BY <1>2, <1>5 DEF CheckpointsMatch
<1>10. TurnsMatch(t.turn, r.turns)
  BY <1>1, <1>3, <1>8 DEF TurnsMatch
<1>11. AtRest(t)
  BY <1>1 DEF AtRest
<1>12. Agree(t, r, 1)
  BY <1>1, <1>2, <1>6, <1>7, <1>9, <1>10, <1>11 DEF Agree, Mirrored, SameLists
<1>13. CapturesOnly(t, r, 1)
  BY <1>1, <1>2, <1>3 DEF CapturesOnly, TurnIsLast
<1>. QED
  BY <1>12, <1>13

LEMMA ThreadInitHolds == ThreadInit => ThreadIInv
<1>. SUFFICES ASSUME ThreadInit
     PROVE  ThreadIInv
  OBVIOUS
<1>1. now = 2 /\ now - 1 = 1 /\ MaxNow \in Nat \ {0}
  BY TurnsAssumption DEF ThreadInit
<1>2. Agree(mem, rows, 1) /\ CapturesOnly(mem, rows, 1)
  BY NewThreadAgrees DEF ThreadInit
<1>3. asked = <<>> /\ queue = <<>> /\ captures = <<>> /\ reverting = {}
  BY DEF ThreadInit
<1>4. \A S : <<>> \in Seq(S)
  OBVIOUS
<1>5. ServerTyped
  BY <1>1, <1>3, <1>4 DEF ServerTyped
<1>6. Ahead(mem.activities, queue)
  BY <1>3 DEF Ahead
<1>7. HookOrder
  BY <1>2, <1>5, <1>6 DEF HookOrder, ServerTyped, Agree, ThreadTyped
<1>. QED
  BY <1>1, <1>2, <1>5, <1>7 DEF ThreadIInv, Together

\* A command executed when the lists of memory have room.
LEMMA ExecuteKeeps ==
    ASSUME ServerTyped, Together, Room(mem), NEW c, Execute(c), Fits(mem, c, now - 1),
           inputs' = inputs, c.type \in ProviderCommands => c.type \in inputs
    PROVE  now' \in 2..(MaxNow + 1) /\ Together'
<1>. DEFINE n == now - 1
<1>1. n \in Nat /\ n < MaxNow /\ now = n + 1 /\ MaxNow \in Nat /\ n >= 1
  BY TurnsAssumption DEF Execute, ServerTyped
<1>2. mem' = Done(mem, c) /\ rows' = Stored(mem, rows, c)
      /\ now' = IF c.type \in Stamps THEN now + 1 ELSE now
  BY DEF Execute, Done, Stored
<1>3. Agree(mem, rows, n) /\ Fits(mem, c, n)
  BY DEF Together
<1>. HIDE DEF n
<1>4. /\ Agree(Done(mem, c), Stored(mem, rows, c), InstantAfter(c, n))
      /\ mem.deleted => Done(mem, c).deleted
      /\ c.type \notin ProviderCommands /\ CapturesOnly(mem, rows, n) /\ ~Done(mem, c).deleted =>
            CapturesOnly(Done(mem, c), Stored(mem, rows, c), InstantAfter(c, n))
  BY <1>1, <1>3, Executed
<1>5. now' - 1 = InstantAfter(c, n) /\ now' \in 2..(MaxNow + 1)
  BY <1>1, <1>2 DEF InstantAfter
<1>6. Agree(mem', rows', now' - 1)
  BY <1>2, <1>4, <1>5
<1>7. ASSUME ~(mem'.deleted), ~(Provider')
      PROVE  CapturesOnly(mem', rows', now' - 1)
  <2>1. Provider' = Provider
    BY DEF Provider
  <2>2. c.type \notin ProviderCommands
    BY <1>7, <2>1 DEF Provider, ProviderCommands
  <2>3. ~mem.deleted
    BY <1>2, <1>4, <1>7
  <2>4. CapturesOnly(mem, rows, n)
    BY <1>7, <2>1, <2>3 DEF Together, n
  <2>. QED
    BY <1>2, <1>4, <1>5, <1>7, <2>2, <2>4
<1>. QED
  BY <1>5, <1>6, <1>7 DEF Together

LEMMA TogetherStays ==
    ASSUME Together, UNCHANGED <<mem, rows, now, inputs>>
    PROVE  Together'
BY DEF Together, Provider

LEMMA ClientKeeps ==
    ASSUME ThreadIInv, Room(mem), NEW c, Client(c), Fits(mem, c, now - 1)
    PROVE  ServerTyped' /\ Together'
<1>1. Execute(c) /\ c.type \in inputs /\ UNCHANGED <<child, queue, inProgress, restarts, inputs>>
  BY DEF Client
<1>2. now' \in 2..(MaxNow + 1) /\ Together'
  BY <1>1, ExecuteKeeps DEF ThreadIInv
<1>3. asked' = asked /\ captures' = captures /\ reverting' = reverting /\ queue' = queue
  BY <1>1 DEF inProgress
<1>. QED
  BY <1>2, <1>3 DEF ThreadIInv, ServerTyped

\* The instant of a command is the one after the last.
LEMMA InstantOfCommand ==
    ASSUME ServerTyped
    PROVE  now \in Nat \ {0} /\ now = (now - 1) + 1 /\ now - 1 \in Nat
BY TurnsAssumption DEF ServerTyped

LEMMA ClientsKeep ==
    ASSUME ThreadIInv, Room(mem),
           \/ DeleteThread \/ SettleThread \/ UnsettleThread \/ SnoozeThread \/ UnsnoozeThread
           \/ ArchiveThread \/ RenameThread \/ StartTurn \/ InterruptTurn \/ RespondToApproval
           \/ SetSessionStatus \/ CompleteAssistantMessage
    PROVE  ServerTyped' /\ Together'
<1>0. now \in Nat \ {0} /\ now = (now - 1) + 1 /\ now - 1 \in Nat
  BY InstantOfCommand DEF ThreadIInv
<1>. DEFINE n == now - 1
<1>. HIDE DEF n
<1>1. CASE DeleteThread
  <2>1. Fits(mem, Command("thread.delete"), n)
    BY DEF Fits, Command
  <2>. QED
    BY <1>1, <2>1, ClientKeeps DEF DeleteThread, n
<1>2. CASE SettleThread
  <2>1. Fits(mem, Command("thread.settle"), n)
    BY DEF Fits, Command, PlainCommands
  <2>. QED
    BY <1>2, <2>1, ClientKeeps DEF SettleThread, n
<1>3. CASE UnsettleThread
  <2>. DEFINE c == [type |-> "thread.unsettle", at |-> now, reason |-> "user"]
  <2>1. Fits(mem, c, n)
    BY DEF Fits, PlainCommands
  <2>2. Client(c)
    BY <1>3 DEF UnsettleThread
  <2>. HIDE DEF c
  <2>. QED
    BY <2>1, <2>2, ClientKeeps DEF n
<1>4. CASE SnoozeThread
  <2>1. PICK d \in 1..2 : Client([type |-> "thread.snooze", at |-> now, until |-> now + d])
    BY <1>4 DEF SnoozeThread
  <2>. DEFINE c == [type |-> "thread.snooze", at |-> now, until |-> now + d]
  <2>2. now + d \in Nat
    BY <1>0
  <2>3. Fits(mem, c, n)
    BY <1>0, <2>2 DEF Fits, PlainCommands
  <2>4. Client(c)
    BY <2>1
  <2>. HIDE DEF c
  <2>. QED
    BY <2>3, <2>4, ClientKeeps DEF n
<1>5. CASE UnsnoozeThread
  <2>1. Fits(mem, Command("thread.unsnooze"), n)
    BY DEF Fits, Command, PlainCommands
  <2>. QED
    BY <1>5, <2>1, ClientKeeps DEF UnsnoozeThread, n
<1>6. CASE ArchiveThread
  <2>. DEFINE c == [type |-> "thread.archive", at |-> now, archived |-> ~mem.archived]
  <2>1. Fits(mem, c, n)
    BY DEF Fits, PlainCommands
  <2>2. Client(c)
    BY <1>6 DEF ArchiveThread
  <2>. HIDE DEF c
  <2>. QED
    BY <2>1, <2>2, ClientKeeps DEF n
<1>7. CASE RenameThread
  <2>. DEFINE c == [type |-> "thread.rename", at |-> now, title |-> "chosen",
                    titleSource |-> "manual"]
  <2>1. Fits(mem, c, n)
    BY DEF Fits, PlainCommands
  <2>2. Client(c)
    BY <1>7 DEF RenameThread
  <2>. HIDE DEF c
  <2>. QED
    BY <2>1, <2>2, ClientKeeps DEF n
<1>8. CASE StartTurn
  <2>1. Fits(mem, Command("thread.turn.start"), n)
    BY <1>0 DEF Fits, Command, n
  <2>. QED
    BY <1>8, <2>1, ClientKeeps DEF StartTurn, n
<1>9. CASE InterruptTurn
  <2>. DEFINE c == [type |-> "thread.turn.interrupt", at |-> now, turn |-> mem.turn.id]
  <2>1. mem.turn # NoTurn /\ Client(c)
    BY <1>9 DEF InterruptTurn
  <2>2. Fits(mem, c, n)
    BY <1>0, <2>1 DEF Fits, n
  <2>. HIDE DEF c
  <2>. QED
    BY <2>1, <2>2, ClientKeeps DEF n
<1>10. CASE RespondToApproval
  <2>1. PICK q \in OpenRequests(mem.activities) :
          Client([type |-> "thread.approval.respond", at |-> now, request |-> q])
    BY <1>10 DEF RespondToApproval
  <2>. DEFINE c == [type |-> "thread.approval.respond", at |-> now, request |-> q]
  <2>2. Fits(mem, c, n)
    BY DEF Fits
  <2>3. Client(c)
    BY <2>1
  <2>. HIDE DEF c
  <2>. QED
    BY <2>2, <2>3, ClientKeeps DEF n
<1>11. CASE SetSessionStatus
  <2>1. PICK s \in {"starting", "running", "ready", "error"}, turn \in ProviderTurns \cup {NoTurnId} :
          /\ (s = "running") = (turn # NoTurnId)
          /\ Client([type |-> "thread.session.set", at |-> now, session |-> s, turn |-> turn])
    BY <1>11 DEF SetSessionStatus
  <2>. DEFINE c == [type |-> "thread.session.set", at |-> now, session |-> s, turn |-> turn]
  <2>2. Fits(mem, c, n)
    BY <1>0, <2>1 DEF Fits, n
  <2>3. Client(c)
    BY <2>1
  <2>. HIDE DEF c
  <2>. QED
    BY <2>2, <2>3, ClientKeeps DEF n
<1>12. CASE CompleteAssistantMessage
  <2>1. PICK turn \in ProviderTurns :
          Client([type |-> "thread.message.assistant.complete", at |-> now, turn |-> turn])
    BY <1>12 DEF CompleteAssistantMessage
  <2>. DEFINE c == [type |-> "thread.message.assistant.complete", at |-> now, turn |-> turn]
  <2>2. Fits(mem, c, n)
    BY <1>0 DEF Fits, n
  <2>3. Client(c)
    BY <2>1
  <2>. HIDE DEF c
  <2>. QED
    BY <2>2, <2>3, ClientKeeps DEF n
<1>. QED
  BY <1>1, <1>2, <1>3, <1>4, <1>5, <1>6, <1>7, <1>8, <1>9, <1>10, <1>11, <1>12

LEMMA HooksKeep ==
    ASSUME ThreadIInv,
           \/ StartSession \/ EndSession \/ UserPromptSubmit \/ PermissionRequest
           \/ PostToolUse \/ Stop
    PROVE  ServerTyped' /\ Together'
<1>0. /\ now \in 2..(MaxNow + 1) /\ asked \in Seq(Requests) /\ queue \in Seq(Commands)
      /\ captures \in Seq(Nat) /\ reverting \subseteq Nat
  BY DEF ThreadIInv, ServerTyped
<1>3. UNCHANGED <<mem, rows, now, reverting, inputs>>
  BY DEF StartSession, EndSession, UserPromptSubmit, PermissionRequest, PostToolUse, Stop,
         inProgress
<1>4. Together'
  BY <1>3, TogetherStays DEF ThreadIInv
<1>5. queue' \in Seq(Commands) /\ asked' \in Seq(Requests)
  BY HookOrderInHooks DEF ThreadIInv, HookOrder
<1>6. captures' \in Seq(Nat)
  <2>1. captures' = captures \/ captures' = Append(captures, NewestCount(mem))
    BY DEF StartSession, EndSession, UserPromptSubmit, PermissionRequest, PostToolUse, Stop,
           inProgress
  <2>2. NewestCount(mem) \in Nat
    <3>1. now - 1 \in Nat /\ ThreadTyped(mem, now - 1)
      BY InstantOfCommand DEF ThreadIInv, Together, Agree
    <3>. QED
      BY <3>1, CountNatural
  <2>3. \A k \in Nat : Append(captures, k) \in Seq(Nat)
    BY <1>0, AppendProperties
  <2>4. Append(captures, NewestCount(mem)) \in Seq(Nat)
    BY <2>2, <2>3
  <2>. QED
    BY <1>0, <2>1, <2>4
<1>. QED
  BY <1>0, <1>3, <1>4, <1>5, <1>6 DEF ThreadIInv, ServerTyped

LEMMA CapturesLeft ==
    ASSUME NEW s \in Seq(Nat), NEW i \in DOMAIN s
    PROVE  RemoveAt(s, i) \in Seq(Nat)
<1>1. i \in 1..Len(s) /\ Len(s) \in Nat
  OBVIOUS
<1>2. SubSeq(s, 1, i - 1) \in Seq(Nat) /\ SubSeq(s, i + 1, Len(s)) \in Seq(Nat)
  BY <1>1, SubSeqProperties
<1>. QED
  BY <1>2, ConcatProperties DEF RemoveAt

\* What else the server does.
LEMMA ServerKeeps ==
    ASSUME ThreadIInv, Room(mem),
           \/ TakeCommand \/ EndCapture \/ StartRevert \/ EndRevert \/ EndTitle
           \/ StartSweep \/ EndSweep \/ Restart \/ Tick
    PROVE  ServerTyped' /\ Together'
<1>0. /\ now \in 2..(MaxNow + 1) /\ asked \in Seq(Requests) /\ queue \in Seq(Commands)
      /\ captures \in Seq(Nat) /\ reverting \subseteq Nat
      /\ now \in Nat \ {0} /\ now = (now - 1) + 1 /\ now - 1 \in Nat
      /\ MaxNow \in Nat \ {0}
  BY InstantOfCommand, TurnsAssumption DEF ThreadIInv, ServerTyped
<1>. DEFINE n == now - 1
<1>01. ASSUME NEW c, Execute(c), Fits(mem, c, n), inputs' = inputs,
              c.type \notin ProviderCommands
       PROVE  now' \in 2..(MaxNow + 1) /\ Together'
  BY <1>01, ExecuteKeeps DEF ThreadIInv
<1>. HIDE DEF n
<1>1. CASE TakeCommand
  <2>. DEFINE c == Head(queue)
  <2>1. /\ queue # <<>> /\ Execute(c) /\ queue' = Tail(queue) /\ inputs' = inputs
        /\ UNCHANGED inProgress
    BY <1>1 DEF TakeCommand
  <2>2. c \in Commands /\ queue' \in Seq(Commands)
    BY <1>0, <2>1
  <2>5. BringsActivity(c) => c.activity \in Activities /\ Newer(mem.activities, c.activity)
    BY <2>1, AheadTaken DEF ThreadIInv, HookOrder
  <2>. HIDE DEF c
  <2>3. Fits(mem, c, n) /\ c.type \notin ProviderCommands
    BY <2>2, <2>5 DEF Commands, BringsActivity, Fits, PlainCommands, ProviderCommands
  <2>4. now' \in 2..(MaxNow + 1) /\ Together'
    BY <1>01, <2>1, <2>3
  <2>. QED
    BY <1>0, <2>1, <2>2, <2>4 DEF ThreadIInv, ServerTyped, inProgress
<1>2. CASE EndCapture
  <2>1. PICK i \in DOMAIN captures :
          /\ \/ Execute([type |-> "thread.turn.diff.complete", at |-> now, turn |-> now,
                         count |-> captures[i] + 1])
             \/ UNCHANGED <<mem, rows, now>>
          /\ captures' = RemoveAt(captures, i)
          /\ UNCHANGED <<child, asked, queue, reverting, titling, sweeping, restarts, inputs>>
    BY <1>2 DEF EndCapture
  <2>. DEFINE c == [type |-> "thread.turn.diff.complete", at |-> now, turn |-> now,
                    count |-> captures[i] + 1]
  <2>2. captures[i] + 1 \in Nat \ {0} /\ captures' \in Seq(Nat)
    <3>1. captures[i] \in Nat
      BY <1>0
    <3>. QED
      BY <1>0, <2>1, <3>1, CapturesLeft
  <2>3. Fits(mem, c, n) /\ c.type \notin ProviderCommands
    BY <1>0, <2>2 DEF Fits, ProviderCommands, n
  <2>4. Execute(c) \/ UNCHANGED <<mem, rows, now>>
    BY <2>1
  <2>. HIDE DEF c
  <2>5. now' \in 2..(MaxNow + 1) /\ Together'
    <3>1. CASE Execute(c)
      BY <1>01, <2>1, <2>3, <3>1
    <3>2. CASE UNCHANGED <<mem, rows, now>>
      BY <1>0, <2>1, <3>2, TogetherStays DEF ThreadIInv
    <3>. QED
      BY <2>4, <3>1, <3>2
  <2>. QED
    BY <1>0, <2>1, <2>2, <2>5 DEF ThreadIInv, ServerTyped
<1>3. CASE StartRevert
  <2>1. NewestCount(mem) \in Nat
    <3>1. ThreadTyped(mem, n)
      BY DEF ThreadIInv, Together, Agree, n
    <3>. QED
      BY <1>0, <3>1, CountNatural DEF n
  <2>2. reverting' \subseteq Nat
    BY <1>3, <2>1 DEF StartRevert
  <2>3. UNCHANGED <<mem, rows, now, inputs>> /\ UNCHANGED <<asked, queue, captures>>
    BY <1>3 DEF StartRevert
  <2>. QED
    BY <1>0, <2>2, <2>3, TogetherStays DEF ThreadIInv, ServerTyped
<1>4. CASE EndRevert
  <2>1. PICK k \in reverting :
          /\ Execute([type |-> "thread.revert.complete", at |-> now, count |-> k])
          /\ reverting' = {}
          /\ UNCHANGED <<asked, queue, captures, inputs>>
    BY <1>4 DEF EndRevert
  <2>. DEFINE c == [type |-> "thread.revert.complete", at |-> now, count |-> k]
  <2>2. Fits(mem, c, n) /\ c.type \notin ProviderCommands
    BY <1>0 DEF Fits, ProviderCommands
  <2>3. Execute(c)
    BY <2>1
  <2>. HIDE DEF c
  <2>4. now' \in 2..(MaxNow + 1) /\ Together'
    BY <1>01, <2>1, <2>2, <2>3
  <2>. QED
    BY <1>0, <2>1, <2>4 DEF ThreadIInv, ServerTyped
<1>5. CASE EndTitle
  <2>. DEFINE c == [type |-> "thread.rename", at |-> now, title |-> "generated",
                    titleSource |-> "auto"]
  <2>1. Execute(c) /\ UNCHANGED <<asked, queue, captures, reverting, inputs>>
    BY <1>5 DEF EndTitle
  <2>2. Fits(mem, c, n) /\ c.type \notin ProviderCommands
    BY DEF Fits, ProviderCommands, PlainCommands
  <2>. HIDE DEF c
  <2>3. now' \in 2..(MaxNow + 1) /\ Together'
    BY <1>01, <2>1, <2>2
  <2>. QED
    BY <1>0, <2>1, <2>3 DEF ThreadIInv, ServerTyped
<1>6. CASE StartSweep
  <2>1. UNCHANGED <<mem, rows, now, inputs>> /\ UNCHANGED <<asked, queue, captures, reverting>>
    BY <1>6 DEF StartSweep
  <2>. QED
    BY <1>0, <2>1, TogetherStays DEF ThreadIInv, ServerTyped
<1>7. CASE EndSweep
  <2>. DEFINE c == [type |-> "thread.archive", at |-> now, archived |-> TRUE]
  <2>1. Execute(c) /\ UNCHANGED <<asked, queue, captures, reverting, inputs>>
    BY <1>7 DEF EndSweep
  <2>2. Fits(mem, c, n) /\ c.type \notin ProviderCommands
    BY DEF Fits, ProviderCommands, PlainCommands
  <2>. HIDE DEF c
  <2>3. now' \in 2..(MaxNow + 1) /\ Together'
    BY <1>01, <2>1, <2>2
  <2>. QED
    BY <1>0, <2>1, <2>3 DEF ThreadIInv, ServerTyped
<1>8. CASE Restart
  <2>1. /\ mem' = Snapshot(rows) /\ UNCHANGED <<rows, now, inputs>>
        /\ asked' = <<>> /\ captures' = <<>> /\ reverting' = {}
        /\ queue' = <<>> \/ queue' = <<StatusChanged("dormant")>>
    BY <1>8 DEF Restart
  <2>2. Step(mem, rows, n, Snapshot(rows), rows, n)
    BY <1>0, RestartStep DEF ThreadIInv, Together, n
  <2>3. Together'
    BY <2>1, <2>2 DEF Step, ThreadIInv, Together, Provider, n
  <2>4. queue' \in Seq(Commands)
    <3>1. \A x \in Commands : <<x>> \in Seq(Commands)
      OBVIOUS
    <3>2. <<>> \in Seq(Commands)
      OBVIOUS
    <3>. QED
      BY <2>1, <3>1, <3>2, ApprovalsAreCommands
  <2>. QED
    BY <1>0, <2>1, <2>3, <2>4 DEF ThreadIInv, ServerTyped
<1>9. CASE Tick
  <2>1. /\ now < MaxNow /\ now' = now + 1 /\ UNCHANGED <<mem, rows, inputs>>
        /\ UNCHANGED <<asked, queue, captures, reverting>>
    BY <1>9 DEF Tick, inProgress
  <2>2. n \in Nat /\ n < MaxNow /\ now' - 1 = n + 1
    BY <1>0, <2>1 DEF n
  <2>3. Step(mem, rows, n, mem, rows, n + 1)
    BY <2>2, TimePasses DEF ThreadIInv, Together, n
  <2>4. Together'
    BY <2>1, <2>2, <2>3 DEF Step, ThreadIInv, Together, Provider, n
  <2>5. now' \in 2..(MaxNow + 1)
    BY <1>0, <2>1
  <2>. QED
    BY <1>0, <2>1, <2>4, <2>5 DEF ThreadIInv, ServerTyped
<1>. QED
  BY <1>1, <1>2, <1>3, <1>4, <1>5, <1>6, <1>7, <1>8, <1>9

\* A restart reads the activities back and has no command that brings one.
LEMMA HookOrderRead ==
    ASSUME ThreadIInv, Restart
    PROVE  HookOrder'
<1>. DEFINE x == StatusChanged("dormant")
<1>1. /\ mem' = Snapshot(rows) /\ asked' = <<>>
      /\ queue' = <<>> \/ queue' = <<x>>
  BY DEF Restart
<1>2. mem'.activities = rows.activities /\ DOMAIN mem' = ThreadFields
  BY <1>1 DEF Snapshot, ThreadFields, Plain
<1>3. rows.activities \in Seq(Activities)
  BY DEF ThreadIInv, Together, Agree, RowsTyped
<1>4. x \in Commands /\ ~BringsActivity(x)
  BY ApprovalsAreCommands DEF StatusChanged, BringsActivity
<1>. HIDE DEF x
<1>5. \A S : <<>> \in Seq(S)
  OBVIOUS
<1>6. <<x>> \in Seq(Commands) /\ DOMAIN <<x>> = {1} /\ <<x>>[1] = x /\ DOMAIN <<>> = {}
  BY <1>4
<1>7. /\ queue' \in Seq(Commands)
      /\ \A k \in DOMAIN queue' : ~BringsActivity(queue'[k])
  BY <1>1, <1>4, <1>5, <1>6
<1>8. asked' \in Seq(Requests)
  BY <1>1, <1>5
<1>9. Ahead(mem'.activities, queue')
  BY <1>7 DEF Ahead
<1>. QED
  BY <1>2, <1>3, <1>7, <1>8, <1>9 DEF HookOrder

LEMMA ThreadNextHolds ==
    ASSUME ThreadIInv, Room(mem), [ThreadNext]_threadVars
    PROVE  ThreadIInv'
<1>1. CASE UNCHANGED threadVars
  BY <1>1 DEF threadVars, ThreadIInv, ServerTyped, Together, Provider, HookOrder
<1>0. CASE ThreadNext
  <2>1. HookOrder'
    BY <1>0, HookOrderKeeps, HookOrderRead DEF ThreadIInv
  <2>2. ServerTyped' /\ Together'
    BY <1>0, ClientsKeep, HooksKeep, ServerKeeps DEF ThreadNext
  <2>. QED
    BY <2>1, <2>2 DEF ThreadIInv
<1>. QED
  BY <1>0, <1>1

\* Memory and tables never stop agreeing, for as long as memory has dropped nothing of the
\* lists that only it bounds.
THEOREM ThreadHolds == ThreadSpec /\ []Room(mem) => []ThreadIInv
<1>1. ThreadIInv /\ Room(mem) /\ [ThreadNext]_threadVars => ThreadIInv'
  BY ThreadNextHolds
<1>. QED
  BY <1>1, ThreadInitHolds, PTL DEF ThreadSpec

-----------------------------------------------------------------------------
(* What the agreement gives.                                                   *)

\* What a restart would read, now.
LEMMA ReadBack ==
    ASSUME ThreadIInv
    PROVE  /\ now - 1 \in Nat
           /\ Agree(mem, rows, now - 1) /\ Agree(Snapshot(rows), rows, now - 1)
           /\ ~mem.deleted /\ ~Provider =>
                 CapturesOnly(mem, rows, now - 1) /\ CapturesOnly(Snapshot(rows), rows, now - 1)
<1>. DEFINE n == now - 1
<1>1. n \in Nat
  BY InstantOfCommand DEF ThreadIInv
<1>2. Agree(mem, rows, n) /\ (~mem.deleted /\ ~Provider => CapturesOnly(mem, rows, n))
  BY DEF ThreadIInv, Together
<1>. HIDE DEF n
<1>3. Step(mem, rows, n, Snapshot(rows), rows, n)
  BY <1>1, <1>2, RestartStep
<1>4. Snapshot(rows).deleted = mem.deleted
  BY <1>2 DEF Snapshot, Agree, SameRow, Plain
<1>. QED
  BY <1>1, <1>2, <1>3, <1>4 DEF Step, n

\* Checkpoints of captures that ran one after the other are those that a restart reads.
LEMMA ReadInOrder ==
    ASSUME NEW n \in Nat, NEW turns, TurnsTyped(turns, n), NEW cps \in Seq(Checkpoints(n)),
           CheckpointsMatch(cps, turns, n),
           \A i, j \in DOMAIN cps : i < j => cps[i].count < cps[j].count
    PROVE  CheckpointsOf(turns) = cps
<1>. DEFINE s == CheckpointsOf(turns)
            S == CountsOf(turns)
<1>1. /\ s \in Seq(Checkpoints(n))
      /\ \A i, j \in DOMAIN s : i < j => s[i].count < s[j].count
      /\ \A i \in DOMAIN s : \E row \in turns : row.count # NoCount /\ s[i] = Made(row)
      /\ \A row \in turns : row.count # NoCount => \E i \in DOMAIN s : s[i] = Made(row)
  BY CheckpointsRead
<1>2. S \in SUBSET Nat
  BY CountsFinite
<1>3. /\ \A k \in S : \E row \in turns : row.count = k /\ k # NoCount
      /\ \A row \in turns : row.count # NoCount => row.count \in S
  BY DEF CountsOf
<1>. HIDE DEF s, S
<1>4. \A c \in Checkpoints(n) : c.count \in Nat \ {0}
  BY DEF Checkpoints
<1>5. ASSUME NEW i \in DOMAIN cps
      PROVE  \E row \in turns : row.count # NoCount /\ cps[i] = Made(row)
  <2>0. cps[i] \in Checkpoints(n)
    OBVIOUS
  <2>1. PICK row \in turns : row.count = cps[i].count
    BY DEF CheckpointsMatch
  <2>2. row.count # NoCount
    BY <1>4, <2>0, <2>1 DEF NoCount
  <2>3. PICK j \in DOMAIN cps : cps[j] = Made(row)
    BY <2>1, <2>2 DEF CheckpointsMatch
  <2>4. cps[j].count = cps[i].count
    BY <2>1, <2>3 DEF Made
  <2>5. j = i
    <3>1. i \in Nat /\ j \in Nat /\ cps[i].count \in Nat
      BY <1>4, <2>0
    <3>. QED
      BY <2>4, <3>1
  <2>. QED
    BY <2>2, <2>3, <2>5
\* Two lists in the order of their counts that have the same counts.
<1>6. ASSUME NEW z \in Seq(Checkpoints(n)),
             \A i, j \in DOMAIN z : i < j => z[i].count < z[j].count,
             \A i \in DOMAIN z : \E row \in turns : row.count # NoCount /\ z[i] = Made(row),
             \A row \in turns : row.count # NoCount => \E i \in DOMAIN z : z[i] = Made(row)
      PROVE  Len(z) = Cardinality(S) /\ \A i \in DOMAIN z : z[i].count = Nth(S, i)
  <2>. DEFINE m == Len(z)
              f == [i \in 1..m |-> z[i].count]
  <2>1. m \in Nat /\ DOMAIN z = 1..m
    OBVIOUS
  <2>2. \A i \in 1..m : z[i].count \in S
    <3>1. ASSUME NEW i \in 1..m
          PROVE  z[i].count \in S
      <4>1. PICK row \in turns : row.count # NoCount /\ z[i] = Made(row)
        BY <1>6, <2>1
      <4>. QED
        BY <1>3, <4>1 DEF Made
    <3>. QED
      BY <3>1
  <2>. HIDE DEF m
  <2>3. f \in [1..m -> S] /\ \A i \in 1..m : f[i] = z[i].count
    BY <2>2
  <2>. HIDE DEF f
  <2>4. ASSUME NEW i \in 1..m, NEW j \in 1..m, i < j
        PROVE  f[i] < f[j]
    <3>1. i \in DOMAIN z /\ j \in DOMAIN z
      BY <2>1
    <3>2. z[i].count < z[j].count
      BY <1>6, <2>4, <3>1
    <3>. QED
      BY <2>3, <3>2
  <2>5. ASSUME NEW k \in S
        PROVE  \E i \in 1..m : f[i] = k
    <3>1. PICK row \in turns : row.count = k /\ k # NoCount
      BY <1>3
    <3>2. PICK i \in DOMAIN z : z[i] = Made(row)
      BY <1>6, <3>1
    <3>. QED
      BY <2>1, <2>3, <3>1, <3>2 DEF Made
  <2>6. Cardinality(S) = m /\ \A i \in 1..m : Nth(S, i) = f[i]
    BY <1>2, <2>1, <2>3, <2>4, <2>5, NthIs
  <2>. QED
    BY <2>1, <2>3, <2>6 DEF m
<1>7. \A row \in turns : row.count # NoCount => \E i \in DOMAIN cps : cps[i] = Made(row)
  BY DEF CheckpointsMatch
<1>8. Len(s) = Cardinality(S) /\ \A i \in DOMAIN s : s[i].count = Nth(S, i)
  BY <1>1, <1>6
<1>9. Len(cps) = Cardinality(S) /\ \A i \in DOMAIN cps : cps[i].count = Nth(S, i)
  BY <1>5, <1>6, <1>7
<1>10. DOMAIN s = DOMAIN cps
  <2>1. DOMAIN s = 1..Len(s) /\ DOMAIN cps = 1..Len(cps)
    BY <1>1
  <2>. QED
    BY <1>8, <1>9, <2>1
<1>11. ASSUME NEW i \in DOMAIN s
       PROVE  s[i] = cps[i]
  <2>1. PICK a \in turns : a.count # NoCount /\ s[i] = Made(a)
    BY <1>1
  <2>2. PICK b \in turns : b.count # NoCount /\ cps[i] = Made(b)
    BY <1>5, <1>10
  <2>3. a.count = b.count
    BY <1>8, <1>9, <1>10, <2>1, <2>2 DEF Made
  <2>4. a = b
    BY <2>1, <2>3 DEF TurnsTyped
  <2>. QED
    BY <2>1, <2>2, <2>4
<1>12. \A i \in 1..Len(s) : s[i] = cps[i]
  <2>1. DOMAIN s = 1..Len(s)
    BY <1>1
  <2>. QED
    BY <1>11, <2>1
<1>13. s = cps
  BY <1>1, <1>8, <1>9, <1>12, SeqEqual
<1>. QED
  BY <1>13 DEF s

\* The newest checkpoint has the same count in memory and in what a restart reads.
LEMMA NewestRead ==
    ASSUME NEW t, NEW r, NEW n \in Nat, Agree(t, r, n), Agree(Snapshot(r), r, n), ~t.deleted
    PROVE  /\ NewestCount(t) = NewestCount(Snapshot(r))
           /\ ToSet(Snapshot(r).checkpoints) \subseteq ToSet(t.checkpoints)
<1>. DEFINE z == t.checkpoints
            s == Snapshot(r).checkpoints
<1>1. /\ ThreadTyped(t, n) /\ ThreadTyped(Snapshot(r), n)
      /\ z \in Seq(Checkpoints(n)) /\ s \in Seq(Checkpoints(n))
      /\ \A i, j \in DOMAIN z : i < j => z[i].count <= z[j].count
      /\ \A i, j \in DOMAIN s : i < j => s[i].count <= s[j].count
  BY DEF Agree, ThreadTyped
<1>2. CheckpointsMatch(z, r.turns, n) /\ TurnsTyped(r.turns, n)
  BY DEF Agree, Mirrored, RowsTyped
<1>3. s = CheckpointsOf(r.turns)
  BY DEF Snapshot
<1>4. \A i \in DOMAIN s : \E row \in r.turns : row.count # NoCount /\ s[i] = Made(row)
  BY <1>2, <1>3, CheckpointsRead
<1>5. \A row \in r.turns : row.count # NoCount => \E i \in DOMAIN s : s[i] = Made(row)
  BY <1>2, <1>3, CheckpointsRead
<1>6. NewestCount(t) = IF z = <<>> THEN 0 ELSE Last(z).count
  BY <1>1, NewestIsLast
<1>7. NewestCount(Snapshot(r)) = IF s = <<>> THEN 0 ELSE Last(s).count
  BY <1>1, NewestIsLast
<1>. HIDE DEF z, s
<1>8. ASSUME NEW y \in Seq(Checkpoints(n)), y # <<>>,
             \A i, j \in DOMAIN y : i < j => y[i].count <= y[j].count
      PROVE  /\ Last(y).count \in Nat \ {0}
             /\ \E i \in DOMAIN y : Last(y) = y[i]
             /\ \A i \in DOMAIN y : y[i].count <= Last(y).count
  <2>1. Len(y) \in DOMAIN y /\ \A i \in DOMAIN y : i \in Nat /\ i <= Len(y)
    BY <1>8
  <2>2. \A i \in DOMAIN y : y[i] \in Checkpoints(n)
    BY <1>8
  <2>3. \A c \in Checkpoints(n) : c.count \in Nat \ {0}
    BY DEF Checkpoints
  <2>4. ASSUME NEW i \in DOMAIN y
        PROVE  y[i].count <= y[Len(y)].count
    <3>1. CASE i = Len(y)
      BY <2>1, <2>2, <2>3, <3>1
    <3>2. CASE i < Len(y)
      BY <1>8, <2>1, <3>2
    <3>. QED
      BY <2>1, <3>1, <3>2
  <2>. QED
    BY <2>1, <2>2, <2>3, <2>4 DEF Last
<1>9. \A i \in DOMAIN s : \E j \in DOMAIN z : s[i] = z[j]
  BY <1>2, <1>4 DEF CheckpointsMatch
<1>10. ASSUME NEW j \in DOMAIN z
       PROVE  \E i \in DOMAIN s : s[i].count = z[j].count
  <2>1. PICK row \in r.turns : row.count = z[j].count
    BY <1>2 DEF CheckpointsMatch
  <2>2. z[j] \in Checkpoints(n)
    BY <1>1
  <2>3. row.count # NoCount
    BY <2>1, <2>2 DEF Checkpoints, NoCount
  <2>. QED
    BY <1>5, <2>1, <2>3 DEF Made
<1>11. \A y \in Seq(Checkpoints(n)) : y = <<>> <=> DOMAIN y = {}
  OBVIOUS
<1>12. z = <<>> => NewestCount(t) = NewestCount(Snapshot(r))
  <2>. HAVE z = <<>>
  <2>1. s = <<>>
    BY <1>1, <1>9, <1>11
  <2>. QED
    BY <1>6, <1>7, <2>1
<1>13. z # <<>> => NewestCount(t) = NewestCount(Snapshot(r))
  <2>. HAVE z # <<>>
  <2>1. /\ Last(z).count \in Nat \ {0}
        /\ \E i \in DOMAIN z : Last(z) = z[i]
        /\ \A i \in DOMAIN z : z[i].count <= Last(z).count
    BY <1>1, <1>8
  <2>2. PICK i \in DOMAIN s : s[i].count = Last(z).count
    BY <1>10, <2>1
  <2>3. s # <<>>
    BY <1>1, <1>11
  <2>4. /\ Last(s).count \in Nat \ {0}
        /\ \E k \in DOMAIN s : Last(s) = s[k]
        /\ \A k \in DOMAIN s : s[k].count <= Last(s).count
    BY <1>1, <1>8, <2>3
  <2>5. Last(z).count <= Last(s).count
    BY <2>2, <2>4
  <2>6. Last(s).count <= Last(z).count
    BY <1>9, <2>1, <2>4
  <2>7. Last(s).count = Last(z).count
    BY <2>1, <2>4, <2>5, <2>6
  <2>. QED
    BY <1>6, <1>7, <2>3, <2>7
<1>14. ToSet(s) \subseteq ToSet(z)
  BY <1>9 DEF ToSet
<1>. QED
  BY <1>12, <1>13, <1>14 DEF z, s

LEMMA TurnsRead ==
    ASSUME ThreadIInv, ~mem.deleted, ~Provider, CapturedInOrder(mem)
    PROVE  /\ Snapshot(rows).checkpoints = mem.checkpoints
           /\ Snapshot(rows).turn.id = mem.turn.id
           /\ Snapshot(rows).turn.requestedAt = mem.turn.requestedAt
           /\ Snapshot(rows).turn.startedAt = mem.turn.startedAt
           /\ Snapshot(rows).turn.completedAt = mem.turn.completedAt
<1>. DEFINE s == Snapshot(rows)
            n == now - 1
<1>1. /\ n \in Nat /\ Agree(mem, rows, n)
      /\ CapturesOnly(mem, rows, n) /\ CapturesOnly(s, rows, n)
  BY ReadBack
<1>2. /\ mem.checkpoints \in Seq(Checkpoints(n)) /\ TurnsTyped(rows.turns, n)
      /\ CheckpointsMatch(mem.checkpoints, rows.turns, n)
  BY <1>1 DEF Agree, Mirrored, ThreadTyped, RowsTyped
<1>3. s.checkpoints = CheckpointsOf(rows.turns)
  BY DEF Snapshot
<1>. HIDE DEF s, n
<1>4. s.checkpoints = mem.checkpoints
  BY <1>1, <1>2, <1>3, ReadInOrder DEF CapturedInOrder
<1>5. CapturedInOrder(s)
  BY <1>4 DEF CapturedInOrder
<1>6. TurnIsLast(mem.turn, mem.checkpoints) /\ TurnIsLast(s.turn, mem.checkpoints)
  BY <1>1, <1>4, <1>5 DEF CapturesOnly
<1>7. CASE mem.checkpoints = <<>>
  BY <1>4, <1>6, <1>7 DEF TurnIsLast, s
<1>8. CASE mem.checkpoints # <<>>
  <2>1. /\ mem.turn.id = Last(mem.checkpoints).turn /\ s.turn.id = Last(mem.checkpoints).turn
        /\ Times(mem.turn) = {Last(mem.checkpoints).at}
        /\ Times(s.turn) = {Last(mem.checkpoints).at}
    BY <1>6, <1>8 DEF TurnIsLast
  <2>. QED
    BY <1>4, <2>1 DEF Times, s
<1>. QED
  BY <1>7, <1>8

LEMMA MemoryFollows == ThreadIInv => ViewsAgree
<1>. DEFINE s == Snapshot(rows)
            n == now - 1
            same == IF CapturedInOrder(mem) THEN {"turn"} ELSE {"turn", "checkpoints"}
<1>. SUFFICES ASSUME ThreadIInv, ~mem.deleted, ~Provider
     PROVE  /\ SameBut(mem, s, same)
            /\ CapturedInOrder(mem) => SameBut(mem.turn, s.turn, {"state"})
            /\ (mem.turn.state = "running") = (s.turn.state = "running")
            /\ NewestCount(mem) = NewestCount(s)
            /\ ToSet(s.checkpoints) \subseteq ToSet(mem.checkpoints)
  BY DEF ViewsAgree
<1>1. /\ n \in Nat /\ Agree(mem, rows, n) /\ Agree(s, rows, n)
      /\ CapturesOnly(mem, rows, n) /\ CapturesOnly(s, rows, n)
  BY ReadBack
<1>2. NewestCount(mem) = NewestCount(s) /\ ToSet(s.checkpoints) \subseteq ToSet(mem.checkpoints)
  <2>. HIDE DEF n
  <2>. QED
    BY <1>1, NewestRead
<1>3. mem.turn.state # "running" /\ s.turn.state # "running"
  BY <1>1 DEF CapturesOnly
<1>4. ASSUME CapturedInOrder(mem)
      PROVE  /\ s.checkpoints = mem.checkpoints
             /\ SameBut(mem.turn, s.turn, {"state"})
  <2>1. DOMAIN mem.turn = {"id", "state", "requestedAt", "startedAt", "completedAt"}
    BY <1>1 DEF Agree, ThreadTyped, TurnTyped, TurnType
  <2>2. /\ s.checkpoints = mem.checkpoints /\ s.turn.id = mem.turn.id
        /\ s.turn.requestedAt = mem.turn.requestedAt /\ s.turn.startedAt = mem.turn.startedAt
        /\ s.turn.completedAt = mem.turn.completedAt
    BY <1>4, TurnsRead
  <2>. HIDE DEF s
  <2>. QED
    BY <2>1, <2>2 DEF SameBut
<1>5. \A f \in Plain : mem[f] = s[f]
  BY <1>1 DEF Agree, SameRow
<1>6. /\ mem.session = s.session /\ mem.messages = s.messages /\ mem.activities = s.activities
      /\ mem.lastInteractedAt = s.lastInteractedAt
  <2>1. mem.session = rows.session /\ mem.messages = rows.messages
        /\ mem.activities = rows.activities
    BY <1>1 DEF Agree, Mirrored, SameLists
  <2>2. mem.lastInteractedAt = rows.thread.lastInteractedAt
    BY <1>1 DEF CapturesOnly
  <2>. QED
    BY <2>1, <2>2 DEF Snapshot
<1>7. DOMAIN mem = ThreadFields
  BY <1>1 DEF Agree, ThreadTyped
<1>8. CapturedInOrder(mem) => s.checkpoints = mem.checkpoints
  BY <1>4
<1>. HIDE DEF s, n
<1>9. ASSUME NEW f \in DOMAIN mem \ same
      PROVE  mem[f] = s[f]
  <2>1. \/ f \in Plain
        \/ f \in {"session", "messages", "activities", "lastInteractedAt"}
        \/ f = "checkpoints" /\ CapturedInOrder(mem)
    BY <1>7 DEF ThreadFields
  <2>. QED
    BY <1>5, <1>6, <1>8, <2>1
<1>10. SameBut(mem, s, same)
  BY <1>9 DEF SameBut
<1>. QED
  BY <1>2, <1>3, <1>4, <1>10

\* A message waits for its turn: one definition for the two the code has.
Waits(t, instant) ==
    \E at \in UserMessageTimes(t) :
        /\ \A other \in UserMessageTimes(t) : other <= at
        /\ instant - at <= Grace
        /\ t.session.status # "error"
        /\ \A x \in Times(t.turn) : x < at

LEMMA UserTimes ==
    ASSUME NEW t, NEW n \in Nat, ThreadTyped(t, n)
    PROVE  UserMessageTimes(t) \subseteq 1..n
<1>1. t.messages \in Seq(Messages(n))
  BY DEF ThreadTyped
<1>2. \A m \in Messages(n) : m.at \in 1..n
  BY DEF Messages
<1>3. \A i \in DOMAIN t.messages : t.messages[i].at \in 1..n
  BY <1>1, <1>2
<1>. QED
  BY <1>3 DEF UserMessageTimes

LEMMA TimesNatural ==
    ASSUME NEW t, NEW n \in Nat, ThreadTyped(t, n)
    PROVE  Times(t.turn) \subseteq Nat
BY DEF ThreadTyped, TurnTyped, TurnType, Times

\* The client's question.
LEMMA ClientWaits ==
    ASSUME NEW t, NEW n \in Nat, ThreadTyped(t, n), NEW instant
    PROVE  QueuedTurnStart(t, instant) = Waits(t, instant)
<1>1. UserMessageTimes(t) \subseteq 1..n
  BY UserTimes
<1>2. ASSUME NEW at \in UserMessageTimes(t)
      PROVE  (\A c \in {t.turn.requestedAt, t.turn.startedAt, t.turn.completedAt} :
                 c = NoTime \/ c < at) <=> (\A x \in Times(t.turn) : x < at)
  <2>1. at \in 1..n
    BY <1>1
  <2>. QED
    BY <2>1 DEF Times, NoTime
<1>3. QueuedTurnStart(t, instant) <=> Waits(t, instant)
  BY <1>2 DEF QueuedTurnStart, Waits
<1>4. QueuedTurnStart(t, instant) \in BOOLEAN /\ Waits(t, instant) \in BOOLEAN
  BY DEF QueuedTurnStart, Waits
<1>. QED
  BY <1>3, <1>4

\* The server's question.
LEMMA ServerWaits ==
    ASSUME NEW t, NEW n \in Nat, ThreadTyped(t, n), NEW instant
    PROVE  HasQueuedTurnStart(t, instant) <=> Waits(t, instant)
<1>. DEFINE users == UserMessageTimes(t)
            newest == CHOOSE m \in users : \A k \in users : k <= m
<1>1. users \subseteq 1..n /\ Times(t.turn) \subseteq Nat
  BY UserTimes, TimesNatural
<1>2. HasQueuedTurnStart(t, instant) <=>
        /\ users # {}
        /\ instant - newest <= Grace
        /\ t.session.status # "error"
        /\ \/ t.turn = NoTurn
           \/ \A at \in {t.turn.requestedAt, t.turn.startedAt, t.turn.completedAt} :
                 at < newest
  BY DEF HasQueuedTurnStart, UserMessageTimes
<1>3. Times(t.turn) = {t.turn.requestedAt, t.turn.startedAt, t.turn.completedAt}
  BY DEF Times
<1>4. t.turn = NoTurn => Times(t.turn) = {0}
  BY DEF Times, NoTurn, NoTime
<1>. HIDE DEF users
<1>5. CASE users = {}
  BY <1>2, <1>5 DEF Waits, users
<1>6. CASE users # {}
  <2>1. IsFiniteSet(users) /\ users \in SUBSET Nat
    BY <1>1, PlacesFinite
  <2>2. newest \in users /\ \A k \in users : k <= newest
    BY <1>6, <2>1, Greatest
  <2>. HIDE DEF newest
  <2>3. newest \in 1..n
    BY <1>1, <2>2
  <2>4. \A at \in users : (\A k \in users : k <= at) => at = newest
    BY <1>1, <2>2, <2>3
  <2>5. (\/ t.turn = NoTurn \/ \A x \in Times(t.turn) : x < newest)
          <=> \A x \in Times(t.turn) : x < newest
    BY <1>4, <2>3
  <2>6. HasQueuedTurnStart(t, instant) <=>
          /\ instant - newest <= Grace
          /\ t.session.status # "error"
          /\ \A x \in Times(t.turn) : x < newest
    BY <1>2, <1>3, <1>6, <2>5
  <2>7. Waits(t, instant) <=>
          \E at \in users : /\ \A other \in users : other <= at
                            /\ instant - at <= Grace
                            /\ t.session.status # "error"
                            /\ \A x \in Times(t.turn) : x < at
    BY DEF Waits, users
  <2>. QED
    BY <2>2, <2>4, <2>6, <2>7
<1>. QED
  BY <1>5, <1>6

\* The client's question and the server's: no activity of the model asks for an input.
LEMMA ClientBlocked ==
    ASSUME NEW t, t.activities \in Seq(Activities)
    PROVE  Blocked(t) <=> OpenRequests(t.activities) # {}
<1>. DEFINE s == t.activities
<1>1. Len(s) \in Nat /\ DOMAIN s = 1..Len(s)
  OBVIOUS
<1>2. \A i \in DOMAIN s : s[i].kind \in {"approval.requested", "approval.resolved"}
  <2>1. \A i \in DOMAIN s : s[i] \in Activities
    OBVIOUS
  <2>. QED
    BY <2>1 DEF Activities
<1>. HIDE DEF s
<1>3. ASSUME NEW j \in DOMAIN s
      PROVE  \A k \in (j + 1)..Len(s) : k \in DOMAIN s
  BY <1>1
<1>4. StillOpen(s, "approval.requested", "approval.resolved") = OpenRequests(s)
  BY <1>2, <1>3 DEF StillOpen, OpenRequests
<1>5. StillOpen(s, "user-input.requested", "user-input.resolved") = {}
  BY <1>2 DEF StillOpen
<1>. QED
  BY <1>4, <1>5 DEF Blocked, PendingApprovals, PendingUserInputs, s

LEMMA GuardsFollow == ThreadIInv => GuardsMirror
<1>. DEFINE s == Snapshot(rows)
            n == now - 1
<1>. SUFFICES ASSUME ThreadIInv, ~mem.deleted, ~mem.archived, ~Provider, CapturedInOrder(mem)
     PROVE  /\ CanSettle(s, now) = (Settle(mem, Command("thread.settle")) # <<>>)
            /\ CanSnooze(s, now) = (Snooze(mem, [at |-> now, until |-> now + 1]) # <<>>)
  BY DEF GuardsMirror
<1>1. /\ n \in Nat /\ Agree(mem, rows, n) /\ Agree(s, rows, n)
      /\ CapturesOnly(mem, rows, n) /\ CapturesOnly(s, rows, n)
  BY ReadBack
<1>2. /\ ThreadTyped(mem, n) /\ ThreadTyped(s, n)
      /\ mem.turn.state # "running" /\ s.turn.state # "running"
      /\ mem.session = NoSession /\ s.session = NoSession
  BY <1>1 DEF Agree, CapturesOnly
<1>3. /\ s.turn.requestedAt = mem.turn.requestedAt /\ s.turn.startedAt = mem.turn.startedAt
      /\ s.turn.completedAt = mem.turn.completedAt
  BY TurnsRead
<1>4. s.messages = mem.messages /\ s.activities = mem.activities
  BY <1>1 DEF Agree, Mirrored, SameLists, Snapshot
<1>5. now \in Nat
  BY InstantOfCommand DEF ThreadIInv
<1>. HIDE DEF s, n
<1>6. Waits(s, now) <=> Waits(mem, now)
  <2>1. UserMessageTimes(s) = UserMessageTimes(mem)
    BY <1>4 DEF UserMessageTimes
  <2>2. Times(s.turn) = Times(mem.turn)
    BY <1>3 DEF Times
  <2>. QED
    BY <1>2, <2>1, <2>2 DEF Waits
<1>7. QueuedTurnStart(s, now) <=> HasQueuedTurnStart(mem, now)
  <2>1. QueuedTurnStart(s, now) <=> Waits(s, now)
    BY <1>1, <1>2, ClientWaits
  <2>2. HasQueuedTurnStart(mem, now) <=> Waits(mem, now)
    BY <1>1, <1>2, ServerWaits
  <2>. QED
    BY <1>6, <2>1, <2>2
<1>8. ~Gone(mem) /\ ~HasActiveWork(mem)
  BY <1>2 DEF Gone, HasActiveWork, NoSession
<1>9. \A x : <<x>> # <<>>
  <2>1. ASSUME NEW x
        PROVE  <<x>> # <<>>
    <3>1. Len(<<x>>) = 1 /\ Len(<<>>) = 0
      OBVIOUS
    <3>. QED
      BY <3>1
  <2>. QED
    BY <2>1
<1>10. (Settle(mem, Command("thread.settle")) # <<>>) <=>
          OpenRequests(mem.activities) = {} /\ ~HasQueuedTurnStart(mem, now)
  <2>. DEFINE c == Command("thread.settle")
              e == [type |-> "thread.settled",
                    settledAt |-> IF mem.settled = "settled" /\ mem.settledAt # NoTime
                                  THEN mem.settledAt ELSE c.at]
  <2>1. c.at = now
    BY DEF Command
  <2>2. Settle(mem, c) = IF \/ Gone(mem) \/ HasActiveWork(mem)
                            \/ OpenRequests(mem.activities) # {}
                            \/ HasQueuedTurnStart(mem, c.at)
                         THEN <<>> ELSE <<e>>
    BY DEF Settle
  <2>3. <<e>> # <<>>
    BY <1>9
  <2>. HIDE DEF c, e
  <2>4. (Settle(mem, c) # <<>>) <=>
          OpenRequests(mem.activities) = {} /\ ~HasQueuedTurnStart(mem, now)
    BY <1>8, <2>1, <2>2, <2>3
  <2>. QED
    BY <2>4 DEF c
<1>11. (Snooze(mem, [at |-> now, until |-> now + 1]) # <<>>) <=>
          OpenRequests(mem.activities) = {} /\ ~HasQueuedTurnStart(mem, now)
  <2>. DEFINE c == [at |-> now, until |-> now + 1]
              e == [type |-> "thread.snoozed", snoozedUntil |-> c.until,
                    snoozedAt |-> IF mem.snoozedUntil = c.until /\ mem.snoozedAt # NoTime
                                  THEN mem.snoozedAt ELSE c.at]
  <2>1. c.at = now /\ ~(c.until <= c.at)
    BY <1>5
  <2>2. Snooze(mem, c) = IF \/ Gone(mem) \/ c.until <= c.at
                            \/ OpenRequests(mem.activities) # {}
                            \/ HasQueuedTurnStart(mem, c.at)
                         THEN <<>> ELSE <<e>>
    BY DEF Snooze
  <2>3. <<e>> # <<>>
    BY <1>9
  <2>. HIDE DEF c, e
  <2>4. (Snooze(mem, c) # <<>>) <=>
          OpenRequests(mem.activities) = {} /\ ~HasQueuedTurnStart(mem, now)
    BY <1>8, <2>1, <2>2, <2>3
  <2>. QED
    BY <2>4 DEF c
<1>15. Blocked(s) <=> OpenRequests(mem.activities) # {}
  BY <1>2, <1>4, ClientBlocked DEF ThreadTyped
<1>12. CanSettle(s, now) <=> OpenRequests(mem.activities) = {} /\ ~HasQueuedTurnStart(mem, now)
  BY <1>2, <1>7, <1>15 DEF CanSettle, NoSession
<1>13. CanSnooze(s, now) <=> OpenRequests(mem.activities) = {} /\ ~HasQueuedTurnStart(mem, now)
  BY <1>7, <1>15 DEF CanSnooze
<1>14. CanSettle(s, now) \in BOOLEAN /\ CanSnooze(s, now) \in BOOLEAN
  BY DEF CanSettle, CanSnooze
<1>. QED
  BY <1>10, <1>11, <1>12, <1>13, <1>14

LEMMA ListedFollows == ThreadIInv => ListedAsHeld
<1>. DEFINE s == Snapshot(rows)
            n == now - 1
<1>. SUFFICES ASSUME ThreadIInv
     PROVE  ListedAsHeld
  OBVIOUS
<1>1. n \in Nat /\ Agree(mem, rows, n) /\ Agree(s, rows, n)
  BY ReadBack
<1>2. now \in Nat
  BY InstantOfCommand DEF ThreadIInv
<1>3. /\ ThreadTyped(mem, n) /\ ThreadTyped(s, n) /\ SnoozeTyped(rows.thread)
      /\ rows.session # NoSession => rows.session.at # NoTime
  BY <1>1 DEF Agree, RowsTyped
<1>4. s.snoozedUntil = rows.thread.snoozedUntil /\ s.snoozedAt = rows.thread.snoozedAt
      /\ s.settled = rows.thread.settled /\ s.session = rows.session
  BY DEF Snapshot
<1>. HIDE DEF s, n
<1>5. ASSUME rows.thread.snoozedUntil # NoTime
      PROVE  EffectiveSnoozed(s, now) # (WokeAt(s, now) # NoTime)
  <2>1. /\ s.snoozedUntil \in Nat \ {0} /\ s.snoozedAt \in Nat \ {0}
    BY <1>3, <1>4, <1>5 DEF SnoozeTyped, NoTime
  <2>2. s.turn.completedAt \in Nat
    BY <1>3 DEF ThreadTyped, TurnTyped, TurnType
  <2>3. EffectiveSnoozed(s, now) <=> s.snoozedUntil > now /\ ~RaisedHandWhileSnoozed(s)
    BY DEF EffectiveSnoozed
  <2>4. EffectiveSnoozed(s, now) \in BOOLEAN
    BY DEF EffectiveSnoozed
  <2>5. CASE RaisedHandWhileSnoozed(s)
    <3>1. WokeAt(s, now) = IF TurnEndedSince(s) THEN s.turn.completedAt
                           ELSE IF s.session # NoSession THEN s.session.at ELSE s.snoozedAt
      BY <2>1, <2>5 DEF WokeAt, NoTime
    <3>2. TurnEndedSince(s) => s.turn.completedAt # NoTime
      BY <2>1, <2>2 DEF TurnEndedSince, NoTime
    <3>3. s.session # NoSession => s.session.at # NoTime
      BY <1>3, <1>4
    <3>4. WokeAt(s, now) # NoTime
      BY <2>1, <3>1, <3>2, <3>3 DEF NoTime
    <3>. QED
      BY <2>3, <2>4, <2>5, <3>4
  <2>6. CASE ~RaisedHandWhileSnoozed(s)
    <3>1. WokeAt(s, now) = IF s.snoozedUntil <= now THEN s.snoozedUntil ELSE NoTime
      BY <2>1, <2>6 DEF WokeAt, NoTime
    <3>2. WokeAt(s, now) # NoTime <=> s.snoozedUntil <= now
      BY <2>1, <3>1 DEF NoTime
    <3>3. s.snoozedUntil <= now <=> ~(s.snoozedUntil > now)
      BY <1>2, <2>1
    <3>. QED
      BY <2>3, <2>4, <2>6, <3>2, <3>3
  <2>. QED
    BY <2>5, <2>6
<1>6. ASSUME mem.settled = "settled", ~mem.deleted, ~HasQueuedTurnStart(mem, now)
      PROVE  EffectiveSettled(s, now)
  <2>1. Mirrored(mem, rows, n) /\ SameRow(mem, rows.thread)
    BY <1>1, <1>6 DEF Agree
  <2>2. s.activities = mem.activities /\ s.session = mem.session /\ s.messages = mem.messages
        /\ s.turn = LatestTurn(rows.turns)
    BY <2>1 DEF Mirrored, SameLists, Snapshot, s
  <2>3. OpenRequests(mem.activities) = {} /\ mem.session.status \notin {"starting", "running"}
        /\ mem.turn.state # "running"
    BY <1>6, <2>1 DEF Mirrored, AtRest
  <2>4. /\ s.turn.state # "running"
        /\ \A x \in Times(mem.turn) : \E y \in Times(s.turn) : x <= y
    BY <2>1, <2>2, <2>3 DEF Mirrored, TurnsMatch
  <2>5. ASSUME Waits(s, now)
        PROVE  Waits(mem, now)
    <3>1. PICK at \in UserMessageTimes(s) :
            /\ \A other \in UserMessageTimes(s) : other <= at
            /\ now - at <= Grace
            /\ s.session.status # "error"
            /\ \A x \in Times(s.turn) : x < at
      BY <2>5 DEF Waits
    <3>2. UserMessageTimes(s) = UserMessageTimes(mem)
      BY <2>2 DEF UserMessageTimes
    <3>3. at \in Nat /\ Times(s.turn) \subseteq Nat /\ Times(mem.turn) \subseteq Nat
      BY <1>1, <1>3, UserTimes, TimesNatural
    <3>4. \A x \in Times(mem.turn) : x < at
      BY <2>4, <3>1, <3>3
    <3>. QED
      BY <2>2, <3>1, <3>2, <3>4 DEF Waits
  <2>6. ~QueuedTurnStart(s, now)
    <3>1. HasQueuedTurnStart(mem, now) <=> Waits(mem, now)
      BY <1>1, <1>3, ServerWaits
    <3>2. QueuedTurnStart(s, now) <=> Waits(s, now)
      BY <1>1, <1>3, ClientWaits
    <3>. QED
      BY <1>6, <2>5, <3>1, <3>2
  <2>9. ~Blocked(s)
    BY <1>3, <2>2, <2>3, ClientBlocked DEF ThreadTyped
  <2>7. CanSettle(s, now)
    BY <2>2, <2>3, <2>4, <2>6, <2>9 DEF CanSettle
  <2>8. s.settled = "settled"
    BY <1>4, <1>6, <2>1 DEF SameRow, Plain
  <2>. QED
    BY <2>7, <2>8 DEF EffectiveSettled
<1>. QED
  BY <1>5, <1>6 DEF ListedAsHeld, s

\* projector.ts and ProjectionPipeline.ts fold the same events twice; what a restart reads
\* from the tables is the thread the server held.
THEOREM ThreadViewsAgree == ThreadSpec /\ []Room(mem) => []ViewsAgree
BY ThreadHolds, MemoryFollows, PTL

\* The guards of decider.ts and of threadLifecycle.ts answer alike.
THEOREM ThreadGuardsMirror == ThreadSpec /\ []Room(mem) => []GuardsMirror
BY ThreadHolds, GuardsFollow, PTL

\* A snoozed thread is asleep or has woken, and a settled one is listed as settled.
THEOREM ThreadListedAsHeld == ThreadSpec /\ []Room(mem) => []ListedAsHeld
BY ThreadHolds, ListedFollows, PTL

-----------------------------------------------------------------------------
(* Requests of the session and their answers.                                  *)

Asks(c) == c.type = "thread.activity.append" /\ c.activity.kind = "approval.requested"
Answers(a, q) == a.kind = "approval.resolved" /\ a.request = q
WillAnswer(c, q) == c.type = "thread.activity.append" /\ Answers(c.activity, q)

\* Each request, decided or waiting in the queue, has an answer after it or is still open
\* in the session.
Outstanding(activities, waiting, open) ==
    /\ \A j \in DOMAIN activities : activities[j].kind = "approval.requested" =>
          \/ \E k \in DOMAIN activities : k > j /\ Answers(activities[k], activities[j].request)
          \/ \E k \in DOMAIN waiting : WillAnswer(waiting[k], activities[j].request)
          \/ activities[j].request \in open
    /\ \A j \in DOMAIN waiting : Asks(waiting[j]) =>
          \/ \E k \in DOMAIN waiting :
                k > j /\ WillAnswer(waiting[k], waiting[j].activity.request)
          \/ waiting[j].activity.request \in open

Heard ==
    /\ DOMAIN mem = ThreadFields /\ mem.activities \in Seq(Activities)
    /\ queue \in Seq(Commands) /\ asked \in Seq(Requests)
    /\ child = "idle" => asked = <<>>
    /\ Outstanding(mem.activities, queue, ToSet(asked))

\* Only the server that heard the requests can answer them.
AskedIInv == restarts \in Nat /\ (restarts = 0 => HookOrder /\ Heard)

\* More commands: those open before stay open or are answered by them.
LEMMA Offered ==
    ASSUME NEW activities, NEW waiting \in Seq(Commands), NEW open,
           Outstanding(activities, waiting, open), NEW more \in Seq(Commands), NEW next,
           \A q \in open : q \in next \/ \E k \in DOMAIN more : WillAnswer(more[k], q),
           \A j \in DOMAIN more : Asks(more[j]) => more[j].activity.request \in next
    PROVE  Outstanding(activities, waiting \o more, next)
<1>. DEFINE all == waiting \o more
            m == Len(waiting)
<1>1. /\ m \in Nat /\ Len(more) \in Nat /\ DOMAIN waiting = 1..m /\ DOMAIN more = 1..Len(more)
      /\ DOMAIN all = 1..(m + Len(more))
      /\ \A i \in 1..m : all[i] = waiting[i]
      /\ \A i \in 1..Len(more) : all[m + i] = more[i]
  OBVIOUS
<1>2. \A i \in DOMAIN waiting : i \in DOMAIN all /\ all[i] = waiting[i]
  BY <1>1
<1>3. \A i \in DOMAIN more : m + i \in DOMAIN all /\ all[m + i] = more[i] /\ m + i > m
  BY <1>1
<1>4. \A i \in DOMAIN all : i \in DOMAIN waiting \/ \E k \in DOMAIN more : i = m + k
  <2>1. \A i \in DOMAIN all : i > m => i - m \in 1..Len(more) /\ i = m + (i - m)
    BY <1>1
  <2>. QED
    BY <1>1, <2>1
<1>5. \A i \in DOMAIN waiting : i <= m /\ i \in Nat
  BY <1>1
<1>. HIDE DEF all, m
<1>6. ASSUME NEW q \in open
      PROVE  q \in next \/ \E k \in DOMAIN all : k > m /\ WillAnswer(all[k], q)
  BY <1>3
<1>7. ASSUME NEW j \in DOMAIN activities, activities[j].kind = "approval.requested"
      PROVE  \/ \E k \in DOMAIN activities :
                   k > j /\ Answers(activities[k], activities[j].request)
             \/ \E k \in DOMAIN all : WillAnswer(all[k], activities[j].request)
             \/ activities[j].request \in next
  BY <1>2, <1>6, <1>7 DEF Outstanding
<1>8. ASSUME NEW j \in DOMAIN all, Asks(all[j])
      PROVE  \/ \E k \in DOMAIN all : k > j /\ WillAnswer(all[k], all[j].activity.request)
             \/ all[j].activity.request \in next
  <2>1. CASE j \in DOMAIN waiting
    <3>1. all[j] = waiting[j] /\ j <= m /\ j \in Nat /\ m \in Nat
      BY <1>1, <1>2, <1>5, <2>1
    <3>2. \/ \E k \in DOMAIN waiting :
                k > j /\ WillAnswer(waiting[k], waiting[j].activity.request)
          \/ waiting[j].activity.request \in open
      BY <1>8, <2>1, <3>1 DEF Outstanding
    <3>3. \A k \in DOMAIN all : k > m => k > j
      BY <1>1, <3>1
    <3>. QED
      BY <1>2, <1>6, <3>1, <3>2, <3>3
  <2>2. CASE j \notin DOMAIN waiting
    <3>1. PICK k \in DOMAIN more : j = m + k
      BY <1>4, <2>2
    <3>. QED
      BY <1>3, <1>8, <3>1
  <2>. QED
    BY <2>1, <2>2
<1>. QED
  BY <1>7, <1>8 DEF Outstanding, all

\* The first command is taken: its activity, when it has one, is the newest.
LEMMA Taken ==
    ASSUME NEW activities \in Seq(Activities), NEW waiting \in Seq(Commands), waiting # <<>>,
           NEW open, Outstanding(activities, waiting, open)
    PROVE  /\ Head(waiting).type = "thread.activity.append" =>
                 Outstanding(Append(activities, Head(waiting).activity), Tail(waiting), open)
           /\ Head(waiting).type # "thread.activity.append" =>
                 Outstanding(activities, Tail(waiting), open)
<1>. DEFINE rest == Tail(waiting)
            head == Head(waiting)
            m == Len(waiting)
            l == Len(activities)
<1>1. /\ m \in Nat \ {0} /\ DOMAIN waiting = 1..m /\ head = waiting[1]
      /\ DOMAIN rest = 1..(m - 1) /\ \A i \in 1..(m - 1) : rest[i] = waiting[i + 1]
      /\ l \in Nat /\ DOMAIN activities = 1..l
  OBVIOUS
<1>. HIDE DEF rest, head, m, l
<1>2. \A i \in DOMAIN waiting : i # 1 => i - 1 \in DOMAIN rest /\ rest[i - 1] = waiting[i]
  BY <1>1
<1>3. \A i \in DOMAIN rest : i + 1 \in DOMAIN waiting /\ rest[i] = waiting[i + 1]
  BY <1>1
<1>4. ASSUME NEW j \in DOMAIN rest, Asks(rest[j])
      PROVE  \/ \E k \in DOMAIN rest : k > j /\ WillAnswer(rest[k], rest[j].activity.request)
             \/ rest[j].activity.request \in open
  <2>1. j + 1 \in DOMAIN waiting /\ rest[j] = waiting[j + 1] /\ j \in Nat
    BY <1>1, <1>3
  <2>2. \/ \E k \in DOMAIN waiting :
              k > j + 1 /\ WillAnswer(waiting[k], rest[j].activity.request)
        \/ rest[j].activity.request \in open
    BY <1>4, <2>1 DEF Outstanding
  <2>3. \A k \in DOMAIN waiting : k > j + 1 => k - 1 \in DOMAIN rest /\ rest[k - 1] = waiting[k]
                                               /\ k - 1 > j
    BY <1>1, <1>2, <2>1
  <2>. QED
    BY <2>2, <2>3
<1>5. ASSUME NEW j \in DOMAIN activities, activities[j].kind = "approval.requested"
      PROVE  \/ \E k \in DOMAIN activities :
                   k > j /\ Answers(activities[k], activities[j].request)
             \/ WillAnswer(head, activities[j].request)
             \/ \E k \in DOMAIN rest : WillAnswer(rest[k], activities[j].request)
             \/ activities[j].request \in open
  BY <1>1, <1>2, <1>5 DEF Outstanding
<1>6. ASSUME head.type # "thread.activity.append"
      PROVE  Outstanding(activities, rest, open)
  BY <1>4, <1>5, <1>6 DEF Outstanding, WillAnswer
<1>7. ASSUME head.type = "thread.activity.append"
      PROVE  Outstanding(Append(activities, head.activity), rest, open)
  <2>. DEFINE z == Append(activities, head.activity)
  <2>1. /\ DOMAIN z = 1..(l + 1) /\ z[l + 1] = head.activity
        /\ \A i \in DOMAIN activities : i \in DOMAIN z /\ z[i] = activities[i] /\ l + 1 > i
    BY <1>1 DEF l
  <2>. HIDE DEF z
  <2>2. ASSUME NEW j \in DOMAIN z, z[j].kind = "approval.requested"
        PROVE  \/ \E k \in DOMAIN z : k > j /\ Answers(z[k], z[j].request)
               \/ \E k \in DOMAIN rest : WillAnswer(rest[k], z[j].request)
               \/ z[j].request \in open
    <3>1. CASE j = l + 1
      <4>1. Asks(waiting[1]) /\ 1 \in DOMAIN waiting /\ z[j].request = waiting[1].activity.request
        BY <1>1, <1>7, <2>1, <2>2, <3>1 DEF Asks
      <4>2. \/ \E k \in DOMAIN waiting : k > 1 /\ WillAnswer(waiting[k], z[j].request)
            \/ z[j].request \in open
        BY <4>1 DEF Outstanding
      <4>3. \A k \in DOMAIN waiting : k > 1 => k # 1
        BY <1>1
      <4>. QED
        BY <1>2, <4>2, <4>3
    <3>2. CASE j # l + 1
      <4>1. j \in DOMAIN activities /\ z[j] = activities[j]
        BY <1>1, <2>1, <3>2
      <4>2. l + 1 \in DOMAIN z /\ l + 1 > j
        BY <1>1, <2>1, <4>1
      <4>3. \/ \E k \in DOMAIN activities : k > j /\ Answers(activities[k], z[j].request)
            \/ WillAnswer(head, z[j].request)
            \/ \E k \in DOMAIN rest : WillAnswer(rest[k], z[j].request)
            \/ z[j].request \in open
        BY <1>5, <2>2, <4>1
      <4>. QED
        BY <2>1, <4>2, <4>3 DEF WillAnswer
    <3>. QED
      BY <3>1, <3>2
  <2>3. Outstanding(z, rest, open)
    BY <1>4, <2>2 DEF Outstanding
  <2>. QED
    BY <2>3 DEF z
<1>. QED
  BY <1>6, <1>7 DEF rest, head

\* Memory drops the oldest activities only: what answers a request is newer.
LEMMA Trimmed ==
    ASSUME NEW activities \in Seq(Activities), NEW waiting, NEW open,
           Outstanding(activities, waiting, open)
    PROVE  /\ Newest(activities, MaxActivities) \in Seq(Activities)
           /\ Outstanding(Newest(activities, MaxActivities), waiting, open)
<1>. DEFINE l == Len(activities)
            d == IF l > MaxActivities THEN l - MaxActivities ELSE 0
            z == Newest(activities, MaxActivities)
<1>1. l \in Nat /\ MaxActivities \in Nat \ {0} /\ DOMAIN activities = 1..l
  BY CapsAssumption
<1>2. d \in 0..l /\ z = SubSeq(activities, d + 1, l)
  <2>1. d \in 0..l
    BY <1>1
  <2>2. d + 1 = IF l > MaxActivities THEN l - MaxActivities + 1 ELSE 1
    BY <1>1
  <2>. HIDE DEF d
  <2>. QED
    BY <2>1, <2>2 DEF Newest
<1>. HIDE DEF d, l, z
<1>3. /\ z \in Seq(Activities) /\ DOMAIN z = 1..(l - d)
      /\ \A i \in 1..(l - d) : z[i] = activities[i + d]
  <2>1. d + 1 \in 1..(l + 1) /\ l \in d..Len(activities)
    BY <1>1, <1>2 DEF l
  <2>2. z \in Seq(Activities)
    BY <1>1, <1>2, SubSeqProperties DEF l
  <2>3. /\ Len(z) = l - (d + 1) + 1
        /\ \A i \in 1..(l - (d + 1) + 1) : z[i] = activities[(d + 1) + i - 1]
    <3>1. d + 1 \in 1..(Len(activities) + 1) /\ l \in ((d + 1) - 1)..Len(activities)
      BY <1>1, <1>2 DEF l
    <3>. QED
      BY <1>2, <3>1, SubSeqProperties
  <2>4. d \in Nat /\ l - (d + 1) + 1 = l - d /\ l - d \in Nat
    BY <1>1, <1>2
  <2>5. \A i \in 1..(l - d) : (d + 1) + i - 1 = i + d
    BY <2>4
  <2>6. Len(z) = l - d /\ \A i \in 1..(l - d) : z[i] = activities[i + d]
    BY <2>3, <2>4, <2>5
  <2>. QED
    BY <2>2, <2>4, <2>6
<1>4. ASSUME NEW j \in DOMAIN z, z[j].kind = "approval.requested"
      PROVE  \/ \E k \in DOMAIN z : k > j /\ Answers(z[k], z[j].request)
             \/ \E k \in DOMAIN waiting : WillAnswer(waiting[k], z[j].request)
             \/ z[j].request \in open
  <2>1. j + d \in DOMAIN activities /\ z[j] = activities[j + d] /\ j \in Nat
    BY <1>1, <1>2, <1>3
  <2>2. \A k \in DOMAIN activities : k > j + d =>
            k - d \in DOMAIN z /\ k - d > j /\ z[k - d] = activities[k]
    BY <1>1, <1>2, <1>3, <2>1
  <2>3. \/ \E k \in DOMAIN activities : k > j + d /\ Answers(activities[k], z[j].request)
        \/ \E k \in DOMAIN waiting : WillAnswer(waiting[k], z[j].request)
        \/ z[j].request \in open
    BY <1>4, <2>1 DEF Outstanding
  <2>4. ASSUME NEW k \in DOMAIN activities, k > j + d, Answers(activities[k], z[j].request)
        PROVE  \E i \in DOMAIN z : i > j /\ Answers(z[i], z[j].request)
    <3>1. k - d \in DOMAIN z /\ k - d > j /\ z[k - d] = activities[k]
      BY <2>2, <2>4
    <3>. QED
      BY <2>4, <3>1
  <2>. QED
    BY <2>3, <2>4
<1>. QED
  BY <1>3, <1>4 DEF Outstanding, z

-----------------------------------------------------------------------------
(* Every step keeps the requests accounted for.                                *)

LEMMA ExecuteOther ==
    ASSUME Heard, NEW c, c.type \in OtherCommands, Execute(c),
           UNCHANGED <<child, asked, queue>>
    PROVE  Heard'
<1>1. mem' = Done(mem, c)
  BY DEF Execute, Done
<1>2. SameActivities(mem, mem')
  BY <1>1, OtherDone DEF Heard
<1>. QED
  BY <1>2 DEF Heard, SameActivities

LEMMA NothingHeard ==
    ASSUME Heard, UNCHANGED <<mem, child, asked, queue>>
    PROVE  Heard'
BY DEF Heard

LEMMA HeardInClients ==
    ASSUME Heard,
           \/ DeleteThread \/ SettleThread \/ UnsettleThread \/ SnoozeThread \/ UnsnoozeThread
           \/ ArchiveThread \/ RenameThread \/ StartTurn \/ InterruptTurn \/ RespondToApproval
           \/ SetSessionStatus \/ CompleteAssistantMessage
    PROVE  Heard'
<1>1. PICK c : /\ c.type \in OtherCommands /\ Execute(c)
               /\ UNCHANGED <<child, asked, queue>>
  BY ClientsAreOther
<1>. QED
  BY <1>1, ExecuteOther

LEMMA ElementsOf ==
    /\ ToSet(<<>>) = {}
    /\ \A s \in Seq(Requests), q \in Requests : ToSet(Append(s, q)) = ToSet(s) \cup {q}
    /\ \A s \in Seq(Requests) : s # <<>> =>
          ToSet(s) = ToSet(SubSeq(s, 1, Len(s) - 1)) \cup {s[Len(s)]}
<1>1. ToSet(<<>>) = {}
  BY DEF ToSet
<1>2. ASSUME NEW s \in Seq(Requests), NEW q \in Requests
      PROVE  ToSet(Append(s, q)) = ToSet(s) \cup {q}
  <2>. DEFINE z == Append(s, q)
              l == Len(s)
  <2>1. /\ l \in Nat /\ DOMAIN s = 1..l /\ DOMAIN z = 1..(l + 1) /\ z[l + 1] = q
        /\ \A i \in 1..l : z[i] = s[i]
    OBVIOUS
  <2>. HIDE DEF z, l
  <2>2. \A i \in DOMAIN z : i \in DOMAIN s \/ i = l + 1
    BY <2>1
  <2>3. l + 1 \in DOMAIN z /\ \A i \in DOMAIN s : i \in DOMAIN z /\ z[i] = s[i]
    BY <2>1
  <2>4. ToSet(z) = ToSet(s) \cup {q}
    BY <2>1, <2>2, <2>3 DEF ToSet
  <2>. QED
    BY <2>4 DEF z
<1>3. ASSUME NEW s \in Seq(Requests), s # <<>>
      PROVE  ToSet(s) = ToSet(SubSeq(s, 1, Len(s) - 1)) \cup {s[Len(s)]}
  <2>. DEFINE z == SubSeq(s, 1, Len(s) - 1)
              l == Len(s)
  <2>1. /\ l \in Nat \ {0} /\ DOMAIN s = 1..l /\ DOMAIN z = 1..(l - 1)
        /\ \A i \in 1..(l - 1) : z[i] = s[i]
    BY <1>3
  <2>. HIDE DEF z, l
  <2>2. \A i \in DOMAIN s : i \in DOMAIN z \/ i = l
    BY <2>1
  <2>3. l \in DOMAIN s /\ \A i \in DOMAIN z : i \in DOMAIN s /\ z[i] = s[i]
    BY <2>1
  <2>4. ToSet(s) = ToSet(z) \cup {s[l]}
    BY <2>2, <2>3 DEF ToSet
  <2>. QED
    BY <2>4 DEF z, l
<1>. QED
  BY <1>1, <1>2, <1>3

\* Answers to the requests of a list answer each, and ask nothing.
LEMMA Resolving ==
    ASSUME HookOrder, NEW requests \in Seq(Requests)
    PROVE  /\ Resolve(requests) \in Seq(Commands)
           /\ \A q \in ToSet(requests) : \E k \in DOMAIN Resolve(requests) :
                 WillAnswer(Resolve(requests)[k], q)
           /\ \A k \in DOMAIN Resolve(requests) : ~Asks(Resolve(requests)[k])
<1>1. /\ DOMAIN Resolve(requests) = DOMAIN requests
      /\ \A i \in DOMAIN requests :
            Resolve(requests)[i] =
                Approval("approval.resolved", requests[i], NextActivity + i - 1)
  BY DEF Resolve
<1>2. \A q, id : /\ WillAnswer(Approval("approval.resolved", q, id), q)
                 /\ ~Asks(Approval("approval.resolved", q, id))
  BY DEF Approval, WillAnswer, Answers, Asks
<1>3. ASSUME NEW q \in ToSet(requests)
      PROVE  \E k \in DOMAIN Resolve(requests) : WillAnswer(Resolve(requests)[k], q)
  <2>1. PICK i \in DOMAIN requests : q = requests[i]
    BY DEF ToSet
  <2>. QED
    BY <1>1, <1>2, <2>1
<1>. QED
  BY <1>1, <1>2, <1>3, ResolveAreCommands

LEMMA HeardInHooks ==
    ASSUME Heard, HookOrder,
           \/ StartSession \/ EndSession \/ UserPromptSubmit \/ PermissionRequest
           \/ PostToolUse \/ Stop
    PROVE  Heard'
<1>. DEFINE open == ToSet(asked)
<1>0. /\ queue \in Seq(Commands) /\ asked \in Seq(Requests)
      /\ Outstanding(mem.activities, queue, open)
  BY DEF Heard
<1>1. mem' = mem
  BY DEF StartSession, EndSession, UserPromptSubmit, PermissionRequest, PostToolUse, Stop
<1>2. ASSUME NEW more \in Seq(Commands), Offer(more), asked' \in Seq(Requests),
             child' = "idle" => asked' = <<>>,
             \A q \in open : q \in ToSet(asked') \/ \E k \in DOMAIN more : WillAnswer(more[k], q),
             \A j \in DOMAIN more : Asks(more[j]) => more[j].activity.request \in ToSet(asked')
      PROVE  Heard'
  <2>1. queue' = queue \o more /\ queue' \in Seq(Commands)
    BY <1>0, <1>2 DEF Offer
  <2>. HIDE DEF open
  <2>2. Outstanding(mem.activities, queue \o more, ToSet(asked'))
    BY <1>0, <1>2, Offered
  <2>3. (DOMAIN mem = ThreadFields /\ mem.activities \in Seq(Activities))'
    BY <1>1 DEF Heard
  <2>. QED
    BY <1>1, <1>2, <2>1, <2>2, <2>3 DEF Heard
<1>3. ASSUME NEW c \in Commands
      PROVE  <<c>> \in Seq(Commands) /\ DOMAIN <<c>> = {1} /\ <<c>>[1] = c
  OBVIOUS
<1>4. CASE StartSession \/ EndSession
  <2>1. PICK status \in {"active", "dormant"} : Offer(<<StatusChanged(status)>>)
    BY <1>4 DEF StartSession, EndSession
  <2>2. asked' = asked /\ child' # "idle"
    BY <1>4 DEF StartSession, EndSession, inProgress
  <2>. DEFINE x == StatusChanged(status)
  <2>3. x \in Commands /\ ~Asks(x)
    BY ApprovalsAreCommands DEF StatusChanged, Asks
  <2>4. Offer(<<x>>)
    BY <2>1
  <2>. HIDE DEF x
  <2>. QED
    BY <1>0, <1>2, <1>3, <2>2, <2>3, <2>4
<1>5. CASE UserPromptSubmit \/ Stop
  <2>1. Offer(Resolve(asked)) /\ asked' = <<>>
    BY <1>5 DEF UserPromptSubmit, Stop
  <2>2. asked' \in Seq(Requests)
    BY <2>1
  <2>. DEFINE more == Resolve(asked)
  <2>3. /\ more \in Seq(Commands)
        /\ \A q \in open : \E k \in DOMAIN more : WillAnswer(more[k], q)
        /\ \A k \in DOMAIN more : ~Asks(more[k])
    BY <1>0, Resolving
  <2>4. Offer(more)
    BY <2>1
  <2>. HIDE DEF more
  <2>. QED
    BY <1>2, <2>1, <2>2, <2>3, <2>4
<1>6. CASE PermissionRequest
  <2>1. PICK q \in Requests : /\ Offer(<<Approval("approval.requested", q, NextActivity)>>)
                              /\ asked' = Append(asked, q)
    BY <1>6 DEF PermissionRequest
  <2>2. child' # "idle"
    BY <1>6 DEF PermissionRequest
  <2>. DEFINE x == Approval("approval.requested", q, NextActivity)
  <2>3. x \in Commands /\ x.activity.request = q
    BY ApprovalsAreCommands, NextIsNewer DEF Approval
  <2>4. asked' \in Seq(Requests) /\ ToSet(asked') = open \cup {q}
    BY <1>0, <2>1, ElementsOf
  <2>5. Offer(<<x>>)
    BY <2>1
  <2>. HIDE DEF x
  <2>6. \A j \in DOMAIN <<x>> : <<x>>[j] = x
    BY <1>3, <2>3
  <2>. QED
    BY <1>2, <1>3, <2>2, <2>3, <2>4, <2>5, <2>6
<1>7. CASE PostToolUse
  <2>. DEFINE last == asked[Len(asked)]
  <2>1. /\ asked # <<>> /\ child' # "idle"
        /\ Offer(Resolve(<<last>>))
        /\ asked' = SubSeq(asked, 1, Len(asked) - 1)
    BY <1>7 DEF PostToolUse
  <2>2. last \in Requests /\ asked' \in Seq(Requests) /\ open = ToSet(asked') \cup {last}
    BY <1>0, <2>1, ElementsOf
  <2>. DEFINE more == Resolve(<<last>>)
  <2>. HIDE DEF last
  <2>3. <<last>> \in Seq(Requests) /\ last \in ToSet(<<last>>)
    BY <2>2 DEF ToSet
  <2>4. /\ more \in Seq(Commands)
        /\ \E k \in DOMAIN more : WillAnswer(more[k], last)
        /\ \A k \in DOMAIN more : ~Asks(more[k])
    BY <2>3, Resolving
  <2>5. Offer(more)
    BY <2>1
  <2>. HIDE DEF more, open
  <2>. QED
    BY <1>2, <2>1, <2>2, <2>4, <2>5
<1>. QED
  BY <1>4, <1>5, <1>6, <1>7

LEMMA HeardInServer ==
    ASSUME Heard, HookOrder,
           \/ TakeCommand \/ EndCapture \/ StartRevert \/ EndRevert \/ EndTitle
           \/ StartSweep \/ EndSweep \/ Tick
    PROVE  Heard'
<1>1. CASE TakeCommand
  <2>. DEFINE c == Head(queue)
              open == ToSet(asked)
  <2>1. /\ queue # <<>> /\ Execute(c) /\ queue' = Tail(queue)
        /\ child' = child /\ asked' = asked
    BY <1>1 DEF TakeCommand, inProgress
  <2>2. /\ queue \in Seq(Commands) /\ asked \in Seq(Requests)
        /\ mem.activities \in Seq(Activities) /\ DOMAIN mem = ThreadFields
        /\ Outstanding(mem.activities, queue, open)
        /\ child = "idle" => asked = <<>>
    BY DEF Heard
  <2>3. c \in Commands /\ Tail(queue) \in Seq(Commands)
    BY <2>1, <2>2
  <2>4. mem' = Done(mem, c)
    BY <2>1 DEF Execute, Done
  <2>5. /\ c.type = "thread.activity.append" =>
              Outstanding(Append(mem.activities, c.activity), Tail(queue), open)
        /\ c.type # "thread.activity.append" =>
              Outstanding(mem.activities, Tail(queue), open)
    <3>. DEFINE s == mem.activities
    <3>1. s \in Seq(Activities) /\ queue \in Seq(Commands) /\ queue # <<>>
      BY <2>1, <2>2
    <3>2. Outstanding(s, queue, open)
      BY <2>2
    <3>. HIDE DEF open, s
    <3>3. /\ Head(queue).type = "thread.activity.append" =>
                Outstanding(Append(s, Head(queue).activity), Tail(queue), open)
          /\ Head(queue).type # "thread.activity.append" =>
                Outstanding(s, Tail(queue), open)
      BY ONLY <3>1, <3>2, Taken
    <3>. QED
      BY <3>3 DEF s
  <2>. HIDE DEF c, open
  <2>6. /\ DOMAIN mem' = ThreadFields /\ mem'.activities \in Seq(Activities)
        /\ Outstanding(mem'.activities, Tail(queue), open)
    <3>1. CASE c.type = "thread.activity.append"
      <4>. DEFINE z == Append(mem.activities, c.activity)
      <4>1. c.activity \in Activities
        BY <2>3, <3>1 DEF Commands
      <4>2. z \in Seq(Activities)
        BY <2>2, <4>1
      <4>3. Outstanding(z, Tail(queue), open)
        BY <2>5, <3>1
      <4>5. WithActivity(mem.activities, c.activity) = z
        BY <2>1, <2>2, <3>1, AheadTaken DEF c, HookOrder, BringsActivity
      <4>4. DOMAIN mem' = ThreadFields /\ mem'.activities = Newest(z, MaxActivities)
        BY <2>2, <2>4, <3>1, <4>5, ActivityDone
      <4>. HIDE DEF z
      <4>. QED
        BY <4>2, <4>3, <4>4, Trimmed
    <3>2. CASE c.type # "thread.activity.append"
      <4>1. c.type \in OtherCommands
        BY <2>3, <3>2 DEF Commands, OtherCommands
      <4>2. SameActivities(mem, mem')
        BY <2>2, <2>4, <4>1, OtherDone
      <4>. QED
        BY <2>2, <2>5, <3>2, <4>2 DEF SameActivities
    <3>. QED
      BY <3>1, <3>2
  <2>. QED
    BY <2>1, <2>2, <2>3, <2>6 DEF Heard, open
<1>2. CASE ~TakeCommand
  <2>1. CASE mem' = mem
    BY <1>2, <2>1, ServerIsOther, NothingHeard
  <2>. QED
    BY <1>2, <2>1, ServerIsOther, ExecuteOther
<1>. QED
  BY <1>1, <1>2

LEMMA AskedInitHolds == ThreadInit => AskedIInv
<1>. SUFFICES ASSUME ThreadInit
     PROVE  AskedIInv
  OBVIOUS
<1>1. restarts \in Nat /\ queue = <<>> /\ asked = <<>> /\ mem = NewThread(1)
  BY DEF ThreadInit
<1>2. DOMAIN mem = ThreadFields /\ mem.activities = <<>>
  BY <1>1 DEF NewThread, ThreadFields, Plain
<1>3. mem.activities \in Seq(Activities) /\ queue \in Seq(Commands) /\ asked \in Seq(Requests)
  <2>1. \A S : <<>> \in Seq(S)
    OBVIOUS
  <2>. QED
    BY ONLY <1>1, <1>2, <2>1
<1>4. Outstanding(mem.activities, queue, ToSet(asked))
  BY <1>1, <1>2 DEF Outstanding
<1>5. Ahead(mem.activities, queue)
  BY <1>1 DEF Ahead
<1>. QED
  BY <1>1, <1>2, <1>3, <1>4, <1>5 DEF AskedIInv, Heard, HookOrder

LEMMA AskedNextHolds ==
    ASSUME AskedIInv, [ThreadNext]_threadVars
    PROVE  AskedIInv'
<1>1. CASE Restart
  <2>1. restarts' \in Nat /\ restarts' # 0
    BY <1>1 DEF AskedIInv, Restart
  <2>. QED
    BY <2>1 DEF AskedIInv
<1>2. CASE UNCHANGED threadVars
  <2>1. UNCHANGED <<mem, child, asked, queue, restarts>>
    BY <1>2 DEF threadVars
  <2>2. HookOrder => HookOrder'
    BY <2>1 DEF HookOrder
  <2>. QED
    BY <2>1, <2>2, NothingHeard DEF AskedIInv
<1>3. CASE ThreadNext /\ ~Restart
  <2>1. restarts' = restarts
    BY <1>3 DEF ThreadNext, DeleteThread, SettleThread, UnsettleThread, SnoozeThread,
       UnsnoozeThread, ArchiveThread, RenameThread, StartTurn, InterruptTurn,
       RespondToApproval, SetSessionStatus, CompleteAssistantMessage, Client, StartSession,
       EndSession, UserPromptSubmit, PermissionRequest, PostToolUse, Stop, TakeCommand,
       EndCapture, StartRevert, EndRevert, EndTitle, StartSweep, EndSweep, Tick
  <2>2. HookOrder /\ Heard => HookOrder' /\ Heard'
    <3>. SUFFICES ASSUME HookOrder, Heard
         PROVE  HookOrder' /\ Heard'
      OBVIOUS
    <3>1. HookOrder'
      BY <1>3, HookOrderKeeps
    <3>. QED
      BY <1>3, <3>1, HeardInClients, HeardInHooks, HeardInServer DEF ThreadNext
  <2>. QED
    BY <2>1, <2>2 DEF AskedIInv
<1>. QED
  BY <1>1, <1>2, <1>3

LEMMA ResolvedFollows == AskedIInv => StopResolvesAsked
<1>. SUFFICES ASSUME AskedIInv, restarts = 0, child = "idle", queue = <<>>
     PROVE  OpenRequests(mem.activities) = {}
  BY DEF StopResolvesAsked
<1>. DEFINE s == mem.activities
<1>1. Outstanding(s, <<>>, {})
  BY ElementsOf DEF AskedIInv, Heard
<1>6. s \in Seq(Activities)
  BY DEF AskedIInv, Heard
<1>. HIDE DEF s
<1>2. Len(s) \in Nat /\ DOMAIN s = 1..Len(s)
  BY <1>6
<1>3. \A j \in DOMAIN s : s[j].kind \in {"approval.requested", "approval.resolved"}
  <2>1. \A j \in DOMAIN s : s[j] \in Activities
    BY <1>6
  <2>. QED
    BY <2>1 DEF Activities
<1>4. ASSUME NEW j \in DOMAIN s, s[j].kind = "approval.requested"
      PROVE  \E k \in (j + 1)..Len(s) : /\ s[k].request = s[j].request
                                        /\ s[k].kind = "approval.resolved"
  <2>1. PICK k \in DOMAIN s : k > j /\ Answers(s[k], s[j].request)
    BY <1>1, <1>4 DEF Outstanding
  <2>2. k \in (j + 1)..Len(s)
    BY <1>2, <2>1
  <2>. QED
    BY <2>1, <2>2 DEF Answers
<1>5. OpenRequests(s) = {}
  BY <1>3, <1>4 DEF OpenRequests
<1>. QED
  BY <1>5 DEF s

\* Whatever order the hooks arrive in, and whatever clients, captures, reverts and the bound
\* on activities do meanwhile, a turn that stopped leaves no request open.
THEOREM ThreadResolvesAsked == ThreadSpec => []StopResolvesAsked
<1>1. AskedIInv /\ [ThreadNext]_threadVars => AskedIInv'
  BY AskedNextHolds
<1>. QED
  BY <1>1, AskedInitHolds, ResolvedFollows, PTL DEF ThreadSpec
=============================================================================
