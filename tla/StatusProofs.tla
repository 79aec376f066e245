------------------------------ MODULE StatusProofs ------------------------------
(* What the status of a session is worth.  First hooks (HookStatus): their types,  *)
(* and that a thread's badge tells stale hooks from news, for any windows in their *)
(* order and any budgets.  Then Pi (PiStatus): its types, and that the status is   *)
(* what Pi does once everything was read, for any number of turns, replies,        *)
(* redraws and resumed sessions.                                                   *)
EXTENDS HookStatus, PiStatus, SequenceTheorems, TLAPS

-----------------------------------------------------------------------------
(* Hooks.                                                                      *)

InFlight == 1 .. Len(inFlight)
OnlyOf(hooks) == \A i \in InFlight : inFlight[i].hook \in hooks
Asked == \E i \in InFlight : inFlight[i].hook \in {"permission", "question"}
Submitting == \E i \in InFlight : inFlight[i].hook = "promptSubmit"

\* A badge "working" is of a turn the idle timer watches; a hook confirms only a turn.
Watched(c) ==
    /\ c.badge = "working" => c.armed /\ c.turn
    /\ c.confirmed => c.turn

\* The terminal is active as long as the agent runs, and no turn of a gone agent is confirmed:
\* a hook that arrives after the exit starts at most a turn for the timer to end.
BadgeFollows ==
    /\ Watched(client)
    /\ agent = "gone" => ~client.confirmed /\ client.terminal # "active"
    /\ agent # "gone" => client.terminal = "active"

\* What may still arrive of an agent at this point of its turn.
HooksFollow ==
    /\ agent = "submitted" => OnlyOf({"promptSubmit", "postTool"})
    /\ agent = "submitted" /\ late = 0 => OnlyOf({"promptSubmit"})
    /\ agent = "idle" => OnlyOf({"postTool", "stop"} \cup Printed)
    /\ agent = "running" => OnlyOf({"postTool"})
    /\ agent = "blocked" => OnlyOf({"postTool", "permission", "question"})

\* A turn that runs has no completion behind it that would call its hooks stale, and the
\* prompt that began it took back what confirmed the one before, unless a background tool
\* has finished since.
TurnIsFresh ==
    ~unheard =>
        /\ agent \in {"running", "blocked"} => client.completed = Never
        /\ agent = "submitted" /\ ~Submitting =>
             client.completed = Never /\ (late = 0 => ~client.confirmed)

\* A tool's hook that is in flight when its turn is over was sent before the Stop: the Stop
\* is in flight and no older, or its completion is no older than the hook, which has arrived
\* before the window after the completion closes.
StopIsCloser ==
    agent = "idle" /\ late = 0 /\ ~unheard =>
        \A i \in InFlight : inFlight[i].hook = "postTool" =>
            \/ \E j \in InFlight : inFlight[j].hook = "stop" /\ inFlight[j].age <= inFlight[i].age
            \/ client.completed # Never /\ client.completed <= inFlight[i].age

\* A turn that a hook confirmed and that is over has its end on the way.
EndIsHeard ==
    agent = "idle" /\ late = 0 /\ ~unheard /\ client.confirmed => EndIsComing

\* The same of what the agent asks, and the window after a blocking status.
AskIsCloser ==
    agent = "blocked" /\ ~unheard /\ ~beside =>
        \A i \in InFlight : inFlight[i].hook = "postTool" =>
            \/ \E j \in InFlight : /\ inFlight[j].hook \in {"permission", "question"}
                                   /\ inFlight[j].age <= inFlight[i].age
            \/ /\ client.badge \in BlockingBadges /\ client.blocking # Never
               /\ client.blocking <= inFlight[i].age

\* What the agent asks is on its way or shown.
AskIsShown ==
    agent = "blocked" /\ ~unheard /\ ~beside => Asked \/ client.badge \in BlockingBadges

HInv == /\ TypeOK /\ BadgeFollows /\ HooksFollow /\ TurnIsFresh /\ StopIsCloser
        /\ EndIsHeard /\ AskIsCloser /\ AskIsShown

-----------------------------------------------------------------------------
(* What is in flight.                                                          *)

\* A sequence without one of its elements has the others, and only those.
LEMMA RemoveAtFacts ==
    ASSUME NEW S, NEW s \in Seq(S), NEW i \in 1 .. Len(s)
    PROVE  /\ RemoveAt(s, i) \in Seq(S)
           /\ \A k \in 1 .. Len(RemoveAt(s, i)) :
                  \E m \in 1 .. Len(s) : m # i /\ RemoveAt(s, i)[k] = s[m]
           /\ \A m \in 1 .. Len(s) :
                  m # i => \E k \in 1 .. Len(RemoveAt(s, i)) : RemoveAt(s, i)[k] = s[m]
<1>. DEFINE a == SubSeq(s, 1, i - 1)
            b == SubSeq(s, i + 1, Len(s))
<1>1. Len(s) \in Nat /\ i \in Nat /\ 1 <= i /\ i <= Len(s)
  OBVIOUS
<1>2. a \in Seq(S) /\ Len(a) = i - 1 /\ \A k \in 1 .. i - 1 : a[k] = s[k]
  <2>1. \A k \in 1 .. i - 1 : s[k] \in S
    BY <1>1
  <2>2. \A k \in 1 .. i - 1 : 1 + k - 1 = k
    OBVIOUS
  <2>. QED
    BY <1>1, <2>1, <2>2, SubSeqProperties
<1>3. b \in Seq(S) /\ Len(b) = Len(s) - i /\ \A k \in 1 .. Len(s) - i : b[k] = s[i + k]
  BY <1>1, SubSeqProperties
<1>. HIDE DEF a, b
<1>4. RemoveAt(s, i) = a \o b
  BY DEF RemoveAt, a, b
<1>5. /\ a \o b \in Seq(S) /\ Len(a \o b) = Len(s) - 1
      /\ \A k \in 1 .. Len(s) - 1 : (a \o b)[k] = IF k < i THEN s[k] ELSE s[k + 1]
  <2>1. a \o b \in Seq(S) /\ Len(a \o b) = Len(a) + Len(b)
        /\ \A k \in 1 .. Len(a) + Len(b) : (a \o b)[k] = IF k <= Len(a) THEN a[k] ELSE b[k - Len(a)]
    BY <1>2, <1>3, ConcatProperties
  <2>. QED
    BY <1>1, <1>2, <1>3, <2>1
<1>6. ASSUME NEW k \in 1 .. Len(s) - 1
      PROVE  \E m \in 1 .. Len(s) : m # i /\ (a \o b)[k] = s[m]
  <2>1. CASE k < i
    BY <1>1, <1>5, <2>1
  <2>2. CASE ~(k < i)
    BY <1>1, <1>5, <2>2
  <2>. QED
    BY <2>1, <2>2
<1>7. ASSUME NEW m \in 1 .. Len(s), m # i
      PROVE  \E k \in 1 .. Len(s) - 1 : (a \o b)[k] = s[m]
  <2>1. CASE m < i
    BY <1>1, <1>5, <2>1
  <2>2. CASE ~(m < i)
    <3>1. m - 1 \in 1 .. Len(s) - 1 /\ (m - 1) + 1 = m /\ ~(m - 1 < i)
      BY <1>1, <1>7, <2>2
    <3>. QED
      BY <1>5, <3>1
  <2>. QED
    BY <2>1, <2>2
<1>. QED
  BY <1>4, <1>5, <1>6, <1>7
-----------------------------------------------------------------------------
(* The session event state.                                                    *)

\* Ages are integers, from Never on; a moment ago is one, and every hook's is one.
LEMMA AgeFacts ==
    /\ Never = -1 /\ Never \in Ages /\ 0 \in Ages /\ 0 # Never
    /\ \A age \in Ages : /\ age \in Int /\ (age = Never \/ age >= 0)
                         /\ Older(age) \in Ages
                         /\ age = Never <=> Older(age) = Never
                         /\ age # Never => Older(age) <= age + 1
  BY WindowsAssumption DEF Never, Ages, Older

\* resetWorkingIdleTimer arms the timer exactly while the badge says "working".
LEMMA RestartFields ==
    ASSUME NEW c \in Entries
    PROVE  LET d == RestartIdleTimer(c)
           IN  /\ d \in Entries
               /\ d.badge = c.badge /\ d.terminal = c.terminal /\ d.completed = c.completed
               /\ d.blocking = c.blocking /\ d.turn = c.turn /\ d.confirmed = c.confirmed
               /\ d.armed <=> c.badge = "working"
<1>1. (c.badge = "working") \in BOOLEAN
  OBVIOUS
<1>. QED
  BY <1>1, AgeFacts DEF RestartIdleTimer, Entries

\* Every end of a turn leaves a completion and no turn.
LEMMA EndedFields ==
    ASSUME NEW c \in Entries
    PROVE  LET d == TurnEnded(c)
           IN  /\ d \in Entries
               /\ d.badge = c.badge /\ d.terminal = c.terminal /\ d.completed = 0
               /\ ~d.turn /\ ~d.confirmed
  BY AgeFacts DEF TurnEnded, Entries

\* So does the Stop.
LEMMA CompletedFields ==
    ASSUME NEW c \in Entries
    PROVE  LET d == HandleCompleted(c)
           IN  /\ d \in Entries /\ Watched(d)
               /\ d.terminal = c.terminal /\ d.completed = 0 /\ ~d.turn /\ ~d.confirmed
  BY EndedFields, AgeFacts DEF HandleCompleted, Entries, Watched, Badges

\* A prompt forgets the turn before.
LEMMA TurnStartFields ==
    ASSUME NEW c \in Entries
    PROVE  LET d == HandleTurnStart(c)
           IN  /\ d \in Entries /\ Watched(d)
               /\ d.terminal = c.terminal /\ d.completed = Never /\ ~d.confirmed
<1>. DEFINE e == [c EXCEPT !.badge = "working", !.completed = Never, !.started = Never,
                           !.blocking = Never, !.turn = TRUE, !.confirmed = FALSE]
<1>1. e \in Entries /\ e.badge = "working" /\ e.terminal = c.terminal /\ e.completed = Never
      /\ e.turn /\ ~e.confirmed
  BY AgeFacts DEF Entries, Badges
<1>2. HandleTurnStart(c) = RestartIdleTimer(e)
  BY DEF HandleTurnStart
<1>. HIDE DEF e
<1>. QED
  BY <1>1, <1>2, RestartFields DEF Watched

\* A stale "working" changes nothing; another says the turn runs, and confirms it unless
\* the turn had ended.
LEMMA WorkingFields ==
    ASSUME NEW c \in Entries, NEW acceptStale \in BOOLEAN
    PROVE  LET d == HandleWorking(c, acceptStale)
           IN  /\ d \in Entries
               /\ Watched(c) => Watched(d)
               /\ d.terminal = c.terminal
               /\ (~acceptStale /\ IsStale(c)) \/ c.terminal # "active" => d = c
               /\ d.completed = c.completed \/ d.completed = Never
               /\ acceptStale /\ c.terminal = "active" => d.badge = "working" /\ d.turn
<1>. DEFINE refused == c.terminal # "active" \/ (~acceptStale /\ IsStale(c))
<1>1. CASE refused
  BY <1>1 DEF HandleWorking
<1>2. CASE ~refused
  <2>. DEFINE e == [c EXCEPT !.badge = "working", !.completed = Never, !.started = Never,
                             !.blocking = Never, !.turn = TRUE,
                             !.confirmed = c.confirmed \/ c.completed = Never]
  <2>1. (c.confirmed \/ c.completed = Never) \in BOOLEAN
    OBVIOUS
  <2>2. e \in Entries /\ e.badge = "working" /\ e.terminal = c.terminal /\ e.completed = Never
        /\ e.turn
    BY <2>1, AgeFacts DEF Entries, Badges
  <2>3. HandleWorking(c, acceptStale) = RestartIdleTimer(e)
    BY <1>2 DEF HandleWorking
  <2>. HIDE DEF e
  <2>. QED
    BY <1>2, <2>2, <2>3, RestartFields DEF Watched
<1>. QED
  BY <1>1, <1>2

\* What the agent asks, or an error, is shown, unless the terminal rests or a turn has just
\* ended.
LEMMA BlockingFields ==
    ASSUME NEW c \in Entries, NEW status \in BlockingBadges \cup {"error", "none"}
    PROVE  LET d == HandleBlocking(c, status)
           IN  /\ d \in Entries
               /\ Watched(c) => Watched(d)
               /\ d.terminal = c.terminal /\ d.completed = c.completed
               /\ c.terminal # "active" => d = c
               /\ c.terminal = "active" /\ c.completed = Never
                    => d.badge = status /\ (status \in BlockingBadges => d.blocking = 0)
               /\ d = c \/ (d.badge = status /\ d.turn /\ c.terminal = "active")
<1>1. CASE c.terminal # "active" \/ Within(c.completed, Grace)
  BY <1>1 DEF HandleBlocking, Within
<1>2. CASE ~(c.terminal # "active" \/ Within(c.completed, Grace))
  BY <1>2, AgeFacts DEF HandleBlocking, Entries, Badges, BlockingBadges, Watched
<1>. QED
  BY <1>1, <1>2

\* Output can end a turn, never confirm one; redraws leave a blocking status alone.
LEMMA OutputFields ==
    ASSUME NEW c \in Entries, NEW text \in Printed \cup {"plain"}
    PROVE  LET d == HandleOutput(c, text)
           IN  /\ d \in Entries
               /\ Watched(c) => Watched(d)
               /\ d.terminal = c.terminal
               /\ d.confirmed => c.confirmed
               /\ d.completed = c.completed \/ d.completed = 0
               /\ text = "plain" => /\ d.completed = c.completed /\ (d.confirmed <=> c.confirmed)
                                    /\ c.badge \in BlockingBadges => d = c
<1>. DEFINE w == [c EXCEPT !.badge = "working"]
            r == IF c.badge = "working" /\ ~Within(c.reset, Throttle) THEN RestartIdleTimer(c)
                 ELSE IF Recovers(c) THEN RestartIdleTimer(w)
                 ELSE c
<1>1. w \in Entries /\ w.badge = "working" /\ w.terminal = c.terminal /\ w.completed = c.completed
      /\ w.turn = c.turn /\ w.confirmed = c.confirmed
  BY DEF Entries, Badges
<1>. HIDE DEF w
<1>2. /\ r \in Entries /\ (Watched(c) => Watched(r))
      /\ r.terminal = c.terminal /\ r.confirmed = c.confirmed /\ r.completed = c.completed
      /\ c.badge \in BlockingBadges => r = c
  <2>1. CASE c.badge = "working" /\ ~Within(c.reset, Throttle)
    BY <2>1, RestartFields DEF Watched, BlockingBadges
  <2>2. CASE ~(c.badge = "working" /\ ~Within(c.reset, Throttle)) /\ Recovers(c)
    <3>1. c.badge = "none" /\ c.turn /\ r = RestartIdleTimer(w)
      BY <2>2 DEF Recovers
    <3>. HIDE DEF r
    <3>. QED
      BY <1>1, <3>1, RestartFields DEF Watched, BlockingBadges
  <2>3. CASE ~(c.badge = "working" /\ ~Within(c.reset, Throttle)) /\ ~Recovers(c)
    BY <2>3
  <2>. QED
    BY <2>1, <2>2, <2>3
<1>3. \/ text = "interrupted" /\ HandleOutput(c, text) = [TurnEnded(r) EXCEPT !.badge = "none"]
      \/ text = "apiError"
         /\ HandleOutput(c, text) = [TurnEnded(r) EXCEPT !.badge = "error", !.blocking = c.blocking]
      \/ HandleOutput(c, text) = r
  BY DEF HandleOutput, w
<1>. HIDE DEF r
<1>4. /\ TurnEnded(r) \in Entries /\ TurnEnded(r).terminal = c.terminal
      /\ TurnEnded(r).completed = 0 /\ ~TurnEnded(r).turn /\ ~TurnEnded(r).confirmed
  BY <1>2, EndedFields
<1>5. CASE text = "interrupted" /\ HandleOutput(c, text) = [TurnEnded(r) EXCEPT !.badge = "none"]
  BY <1>4, <1>5 DEF Entries, Badges, Watched
<1>6. CASE text = "apiError"
           /\ HandleOutput(c, text) = [TurnEnded(r) EXCEPT !.badge = "error", !.blocking = c.blocking]
  BY <1>4, <1>6 DEF Entries, Badges, Watched
<1>7. CASE HandleOutput(c, text) = r
  BY <1>2, <1>7
<1>. QED
  BY <1>3, <1>5, <1>6, <1>7

\* The idle timer ends only a turn no hook has confirmed, and no blocking status.
LEMMA IdleFields ==
    ASSUME NEW c \in Entries
    PROVE  LET d == HandleIdle(c)
           IN  /\ d \in Entries
               /\ Watched(c) => Watched(d)
               /\ d.terminal = c.terminal
               /\ d.confirmed => c.confirmed
               /\ c.badge # "working" => d.badge = c.badge /\ d.blocking = c.blocking
               /\ \/ d.completed = c.completed
                  \/ d.completed = 0 /\ ~d.confirmed /\ ~c.confirmed
<1>. DEFINE f == [c EXCEPT !.armed = FALSE, !.reset = Never]
<1>1. f \in Entries /\ f.badge = c.badge /\ f.terminal = c.terminal /\ f.completed = c.completed
      /\ f.blocking = c.blocking /\ f.turn = c.turn /\ f.confirmed = c.confirmed
  BY AgeFacts DEF Entries
<1>2. /\ c.badge # "working" => HandleIdle(c) = f
      /\ c.badge = "working" /\ ~(c.turn /\ c.terminal = "active")
           => HandleIdle(c) = [f EXCEPT !.badge = "none"]
      /\ c.badge = "working" /\ c.turn /\ c.terminal = "active" /\ c.confirmed
           => HandleIdle(c) = RestartIdleTimer(f)
      /\ c.badge = "working" /\ c.turn /\ c.terminal = "active" /\ ~c.confirmed
           => HandleIdle(c) = [TurnEnded(f) EXCEPT !.badge = "none"]
  BY Zenon DEF HandleIdle
<1>. HIDE DEF f
<1>3. CASE c.badge # "working"
  <2>1. HandleIdle(c) = f
    BY <1>2, <1>3
  <2>. QED
    BY <1>1, <1>3, <2>1 DEF Watched
<1>4. CASE c.badge = "working" /\ ~(c.turn /\ c.terminal = "active")
  <2>1. HandleIdle(c) = [f EXCEPT !.badge = "none"]
    BY <1>2, <1>4
  <2>. QED
    BY <1>1, <1>4, <2>1 DEF Watched, Entries, Badges
<1>5. CASE c.badge = "working" /\ c.turn /\ c.terminal = "active" /\ c.confirmed
  <2>1. HandleIdle(c) = RestartIdleTimer(f)
    BY <1>2, <1>5
  <2>2. RestartIdleTimer(f) \in Entries /\ Watched(RestartIdleTimer(f))
        /\ RestartIdleTimer(f).terminal = c.terminal /\ RestartIdleTimer(f).completed = c.completed
    BY <1>1, <1>5, RestartFields DEF Watched
  <2>. QED
    BY <1>5, <2>1, <2>2
<1>6. CASE c.badge = "working" /\ c.turn /\ c.terminal = "active" /\ ~c.confirmed
  <2>1. HandleIdle(c) = [TurnEnded(f) EXCEPT !.badge = "none"]
    BY <1>2, <1>6
  <2>2. TurnEnded(f) \in Entries /\ TurnEnded(f).terminal = c.terminal
        /\ TurnEnded(f).completed = 0 /\ ~TurnEnded(f).turn /\ ~TurnEnded(f).confirmed
    BY <1>1, EndedFields
  <2>. QED
    BY <1>6, <2>1, <2>2 DEF Watched, Entries, Badges
<1>7. \/ c.badge # "working"
      \/ c.badge = "working" /\ ~(c.turn /\ c.terminal = "active")
      \/ c.badge = "working" /\ c.turn /\ c.terminal = "active" /\ c.confirmed
      \/ c.badge = "working" /\ c.turn /\ c.terminal = "active" /\ ~c.confirmed
  OBVIOUS
<1>. QED
  BY <1>3, <1>4, <1>5, <1>6, <1>7, Zenon

\* The terminal comes and goes; a reset forgets all but that; a tick makes ages older.
LEMMA DormantFields ==
    ASSUME NEW c \in Entries
    PROVE  LET d == HandleDormant(c)
           IN  d \in Entries /\ Watched(d) /\ d.terminal = "dormant" /\ ~d.confirmed
  BY EndedFields, AgeFacts DEF HandleDormant, Entries, Badges, Watched

LEMMA StartedFields ==
    ASSUME NEW c \in Entries
    PROVE  LET d == HandleStarted(c)
           IN  d \in Entries /\ (Watched(c) => Watched(d)) /\ d.terminal = "active"
               /\ d.confirmed = c.confirmed
  BY AgeFacts DEF HandleStarted, Entries, Watched

LEMMA ResetFields ==
    ASSUME NEW c \in Entries
    PROVE  LET d == Reset(c)
           IN  d \in Entries /\ Watched(d) /\ d.terminal = c.terminal /\ ~d.confirmed
  BY AgeFacts DEF Reset, Cleared, Entries, Badges, Watched

LEMMA TickFields ==
    ASSUME NEW c \in Entries
    PROVE  LET d == [c EXCEPT !.completed = Older(@), !.started = Older(@),
                              !.blocking = Older(@), !.reset = Older(@)]
           IN  /\ d \in Entries /\ (Watched(c) => Watched(d))
               /\ d.badge = c.badge /\ d.terminal = c.terminal /\ d.confirmed = c.confirmed
               /\ d.completed = Older(c.completed) /\ d.blocking = Older(c.blocking)
  BY AgeFacts DEF Entries, Watched

-----------------------------------------------------------------------------
(* Types.                                                                      *)

Sent == [hook : Hooks \cup Printed, age : 0 .. HookDelay]
BudgetType == [turns : Nat, tools : Nat, late : Nat, visits : Nat, outputs : Nat, exits : Nat]

\* The parts of the type invariant the handlers' lemmas speak of.
LEMMA TypeParts ==
    ASSUME TypeOK
    PROVE  /\ client \in Entries /\ inFlight \in Seq(Sent) /\ left \in BudgetType
           /\ Len(inFlight) \in Nat
           /\ \A i \in InFlight : /\ inFlight[i] \in Sent /\ inFlight[i].hook \in Hooks \cup Printed
                                  /\ inFlight[i].age \in 0 .. HookDelay
<1>1. client \in Entries /\ inFlight \in Seq(Sent) /\ left \in BudgetType
  BY DEF TypeOK, Entries, Sent, BudgetType
<1>2. Len(inFlight) \in Nat /\ \A i \in InFlight : inFlight[i] \in Sent
  BY <1>1 DEF InFlight
<1>. QED
  BY <1>1, <1>2 DEF Sent

\* What the agent fires comes last, and new.
LEMMA FireFacts ==
    ASSUME TypeOK, NEW hook \in Hooks \cup Printed, Fire(hook)
    PROVE  /\ inFlight' \in Seq(Sent) /\ Len(inFlight') = Len(inFlight) + 1
           /\ \A i \in InFlight : i \in InFlight' /\ inFlight'[i] = inFlight[i]
           /\ \A i \in InFlight' : i \in InFlight \/ inFlight'[i] = [hook |-> hook, age |-> 0]
           /\ \E i \in InFlight' : inFlight'[i] = [hook |-> hook, age |-> 0]
<1>. DEFINE e == [hook |-> hook, age |-> 0]
<1>1. e \in Sent /\ inFlight \in Seq(Sent) /\ Len(inFlight) \in Nat /\ inFlight' = Append(inFlight, e)
  BY TypeParts, HookDelayAssumption DEF Sent, Fire
<1>. HIDE DEF e
<1>2. /\ inFlight' \in Seq(Sent) /\ Len(inFlight') = Len(inFlight) + 1
      /\ inFlight'[Len(inFlight) + 1] = e
      /\ \A i \in 1 .. Len(inFlight) : inFlight'[i] = inFlight[i]
  BY <1>1, AppendProperties
<1>3. /\ \A i \in InFlight : i \in InFlight' /\ inFlight'[i] = inFlight[i]
      /\ \A i \in InFlight' : i \in InFlight \/ i = Len(inFlight) + 1
      /\ Len(inFlight) + 1 \in InFlight'
  BY <1>1, <1>2 DEF InFlight
<1>. QED
  BY <1>2, <1>3 DEF e

\* What arrives is no longer in flight; the rest is.
LEMMA ArriveFacts ==
    ASSUME TypeOK, NEW i \in InFlight, inFlight' = RemoveAt(inFlight, i)
    PROVE  /\ inFlight' \in Seq(Sent)
           /\ \A k \in InFlight' : \E m \in InFlight : m # i /\ inFlight'[k] = inFlight[m]
           /\ \A m \in InFlight : m # i => \E k \in InFlight' : inFlight'[k] = inFlight[m]
<1>1. inFlight \in Seq(Sent) /\ i \in 1 .. Len(inFlight)
  BY TypeParts DEF InFlight
<1>. QED
  BY <1>1, RemoveAtFacts DEF InFlight

\* A tick makes everything in flight a tick older.
LEMMA TickFacts ==
    ASSUME TypeOK, Tick
    PROVE  /\ inFlight' \in Seq(Sent) /\ Len(inFlight') = Len(inFlight) /\ InFlight' = InFlight
           /\ \A i \in InFlight : /\ inFlight'[i].hook = inFlight[i].hook
                                  /\ inFlight'[i].age = inFlight[i].age + 1
<1>1. \A i \in InFlight : /\ inFlight[i] \in Sent /\ inFlight[i].age \in 0 .. HookDelay
                          /\ inFlight[i].age < HookDelay
  BY TypeParts DEF Tick, InFlight
<1>2. HookDelay \in Nat
  BY HookDelayAssumption
<1>3. \A i \in InFlight : [inFlight[i] EXCEPT !.age = @ + 1] \in Sent
  BY <1>1, <1>2 DEF Sent
<1>4. Len(inFlight) \in Nat /\ inFlight' = [i \in InFlight |-> [inFlight[i] EXCEPT !.age = @ + 1]]
  BY TypeParts DEF Tick, InFlight
<1>5. inFlight' \in Seq(Sent) /\ Len(inFlight') = Len(inFlight)
  BY <1>3, <1>4 DEF InFlight
<1>. QED
  BY <1>1, <1>4, <1>5 DEF InFlight, Sent

\* Budgets stay budgets, and the parts make the type invariant.
LEMMA UseType ==
    ASSUME TypeOK, NEW what \in {"turns", "tools", "late", "visits", "outputs", "exits"}, Use(what)
    PROVE  left' \in BudgetType
  BY TypeParts DEF Use, BudgetType

LEMMA TypeFrom ==
    ASSUME agent' \in {"gone", "idle", "submitted", "running", "blocked"},
           {subagents', approvals', late'} \subseteq Nat,
           inFlight' \in Seq(Sent), awake' \in BOOLEAN, viewing' \in BOOLEAN, unheard' \in BOOLEAN,
           beside' \in BOOLEAN, client' \in Entries, left' \in BudgetType
    PROVE  TypeOK'
  BY DEF TypeOK, Sent, Entries, BudgetType

\* The types, at first and after every step.
LEMMA InitType == Init => TypeOK
<1>. SUFFICES ASSUME Init PROVE TypeOK
  OBVIOUS
<1>1. Cleared \in Entries
  BY AgeFacts DEF Cleared, Entries, Badges
<1>2. inFlight \in Seq(Sent) /\ left \in BudgetType
  BY BudgetsAssumption, EmptySeq DEF Init, BudgetType
<1>3. client \in Entries
  BY <1>1 DEF Init
<1>4. /\ agent = "gone" /\ subagents = 0 /\ approvals = 0 /\ late = 0
      /\ awake \in BOOLEAN /\ viewing \in BOOLEAN /\ unheard \in BOOLEAN /\ beside \in BOOLEAN
  BY DEF Init
<1>. QED
  BY <1>2, <1>3, <1>4 DEF TypeOK, Entries, Sent, BudgetType

LEMMA NextType == ASSUME TypeOK, [Next]_vars PROVE TypeOK'
<1>. USE TypeParts
<1>0. /\ agent \in {"gone", "idle", "submitted", "running", "blocked"}
      /\ {subagents, approvals, late} \subseteq Nat
      /\ awake \in BOOLEAN /\ viewing \in BOOLEAN /\ unheard \in BOOLEAN /\ beside \in BOOLEAN
  BY DEF TypeOK
<1>1. CASE Start
  <2>1. client' \in Entries /\ left' \in BudgetType
    BY <1>1, StartedFields, UseType DEF Start
  <2>2. agent' = "idle" /\ late' = 0 /\ unheard' \in BOOLEAN
        /\ UNCHANGED <<subagents, inFlight, approvals, awake, viewing, beside>>
    BY <1>1 DEF Start
  <2>. QED
    BY <1>0, <2>1, <2>2, TypeFrom
<1>2. CASE Exit
  <2>1. client' \in Entries
    BY <1>2, DormantFields DEF Exit
  <2>2. agent' = "gone" /\ subagents' = 0 /\ awake' \in BOOLEAN
        /\ beside' \in BOOLEAN /\ UNCHANGED <<inFlight, approvals, viewing, late, unheard, left>>
    BY <1>2 DEF Exit
  <2>. QED
    BY <1>0, <2>1, <2>2, TypeFrom
<1>3. CASE Prompt
  <2>1. inFlight' \in Seq(Sent)
    BY <1>3, FireFacts DEF Prompt, Hooks
  <2>2. left' \in BudgetType
    BY <1>3, UseType DEF Prompt
  <2>3. agent' = "submitted" /\ late' = 0 /\ unheard' \in BOOLEAN
        /\ UNCHANGED <<subagents, approvals, awake, client, viewing, beside>>
    BY <1>3 DEF Prompt
  <2>. QED
    BY <1>0, <2>1, <2>2, <2>3, TypeFrom
<1>4. CASE Begin
  BY <1>0, <1>4, TypeFrom DEF Begin
<1>5. CASE FinishTool
  <2>1. inFlight' \in Seq(Sent)
    BY <1>5, FireFacts DEF FinishTool, Hooks
  <2>2. (agent = "blocked") \in BOOLEAN
    OBVIOUS
  <2>. QED
    BY <1>0, <1>5, <2>1, <2>2, UseType, TypeFrom DEF FinishTool
<1>6. CASE AskUser
  <2>1. inFlight' \in Seq(Sent)
    BY <1>6, FireFacts DEF AskUser, Hooks
  <2>. QED
    BY <1>0, <1>6, <2>1, UseType, TypeFrom DEF AskUser
<1>7. CASE AnswerUser
  <2>1. [hook |-> "postTool", age |-> 0] \in Sent
    BY HookDelayAssumption DEF Sent, Hooks
  <2>2. inFlight' \in Seq(Sent)
    <3>1. <<>> \in Seq(Sent) /\ <<[hook |-> "postTool", age |-> 0]>> \in Seq(Sent)
      BY <2>1
    <3>. QED
      BY <1>7, <3>1, Zenon DEF AnswerUser
  <2>. QED
    BY <1>0, <1>7, <2>2, TypeFrom DEF AnswerUser
<1>8. CASE FinishTurn
  <2>1. inFlight' \in Seq(Sent)
    BY <1>8, FireFacts DEF FinishTurn, Hooks
  <2>2. left.late \in Nat
    BY DEF BudgetType
  <2>3. subagents' \in Nat
    BY <1>8, <2>2 DEF FinishTurn
  <2>. QED
    BY <1>0, <1>8, <2>1, <2>3, TypeFrom DEF FinishTurn
<1>9. CASE FinishSubagentTool
  <2>1. inFlight' \in Seq(Sent)
    BY <1>9, FireFacts DEF FinishSubagentTool, Hooks
  <2>2. subagents' \in Nat /\ late' \in Nat
    BY <1>0, <1>9 DEF FinishSubagentTool
  <2>3. (agent = "blocked") \in BOOLEAN
    OBVIOUS
  <2>. QED
    BY <1>0, <1>9, <2>1, <2>2, <2>3, UseType, TypeFrom DEF FinishSubagentTool
<1>10. CASE Interrupt
  <2>1. inFlight' \in Seq(Sent)
    BY <1>10, FireFacts DEF Interrupt, Printed
  <2>2. unheard' \in BOOLEAN
    BY <1>10, Zenon DEF Interrupt
  <2>. QED
    BY <1>0, <1>10, <2>1, <2>2, TypeFrom DEF Interrupt
<1>11. CASE FailOnApi
  <2>1. inFlight' \in Seq(Sent)
    BY <1>11, FireFacts DEF FailOnApi, Printed
  <2>. QED
    BY <1>0, <1>11, <2>1, TypeFrom DEF FailOnApi
<1>12. ASSUME NEW i \in InFlight, HookArrives(i) PROVE TypeOK'
  <2>1. inFlight' \in Seq(Sent)
    BY <1>12, ArriveFacts DEF HookArrives
  <2>2. approvals' \in Nat
    BY <1>0, <1>12 DEF HookArrives, ApprovalsAfter, Hooks
  <2>3. awake' \in BOOLEAN
    <3>1. (inFlight[i].hook \in {"promptSubmit", "postTool"}) \in BOOLEAN
      OBVIOUS
    <3>2. AwakeAfter(inFlight[i].hook) \in BOOLEAN
      BY <3>1 DEF AwakeAfter
    <3>3. awake' = AwakeAfter(inFlight[i].hook)
      BY <1>12 DEF HookArrives
    <3>. QED
      BY <3>2, <3>3
  <2>4. client' \in Entries
    BY <1>12, TurnStartFields, WorkingFields, BlockingFields, CompletedFields
       DEF HookArrives, ClientAfter, Hooks, BlockingBadges
  <2>. QED
    BY <1>0, <1>12, <2>1, <2>2, <2>3, <2>4, TypeFrom DEF HookArrives
<1>13. ASSUME NEW i \in InFlight, LineArrives(i) PROVE TypeOK'
  <2>1. inFlight' \in Seq(Sent)
    BY <1>13, ArriveFacts DEF LineArrives
  <2>2. client' \in Entries
    BY <1>13, OutputFields DEF LineArrives
  <2>3. unheard' \in BOOLEAN
    BY <1>13, Zenon DEF LineArrives
  <2>. QED
    BY <1>0, <1>13, <2>1, <2>2, <2>3, TypeFrom DEF LineArrives
<1>14. CASE OutputArrives
  BY <1>0, <1>14, OutputFields, UseType, TypeFrom DEF OutputArrives
<1>15. CASE IdleTimerFires
  <2>1. unheard' \in BOOLEAN
    BY <1>15, Zenon DEF IdleTimerFires
  <2>. QED
    BY <1>0, <1>15, <2>1, IdleFields, TypeFrom DEF IdleTimerFires
<1>16. CASE SeeCompletion
  <2>1. client' \in Entries
    BY <1>16 DEF SeeCompletion, Entries, Badges
  <2>. QED
    BY <1>0, <1>16, <2>1, TypeFrom DEF SeeCompletion
<1>17. CASE ChangeRoute
  <2>1. viewing' \in BOOLEAN
    BY <1>17, Zenon DEF ChangeRoute
  <2>. QED
    BY <1>0, <1>17, <2>1, UseType, TypeFrom DEF ChangeRoute
<1>18. CASE ResetStatus
  BY <1>0, <1>18, ResetFields, UseType, TypeFrom DEF ResetStatus
<1>19. CASE Tick
  BY <1>0, <1>19, TickFacts, TickFields, TypeFrom DEF Tick
<1>20. CASE UNCHANGED vars
  BY <1>0, <1>20, TypeFrom DEF vars
<1>. QED
  BY <1>1, <1>2, <1>3, <1>4, <1>5, <1>6, <1>7, <1>8, <1>9, <1>10, <1>11, <1>12, <1>13, <1>14,
     <1>15, <1>16, <1>17, <1>18, <1>19, <1>20
     DEF Next, Agent, User, Arrive, InFlight
-----------------------------------------------------------------------------
(* The badge and the agent.                                                    *)

\* What the client does with each hook.
LEMMA HookCases ==
    ASSUME NEW i \in InFlight, HookArrives(i)
    PROVE  \/ inFlight[i].hook = "promptSubmit" /\ client' = HandleTurnStart(client)
           \/ inFlight[i].hook = "postTool" /\ client' = HandleWorking(client, FALSE)
           \/ /\ inFlight[i].hook \in {"permission", "question"}
              /\ \E status \in BlockingBadges : client' = HandleBlocking(client, status)
           \/ inFlight[i].hook = "stop" /\ client' = HandleCompleted(client)
  BY DEF HookArrives, ClientAfter, Hooks, BlockingBadges

\* The agent's own steps, and a person's, that leave the client alone.
Quiet == Prompt \/ Begin \/ FinishTool \/ AskUser \/ AnswerUser \/ FinishTurn
         \/ FinishSubagentTool \/ Interrupt \/ FailOnApi

\* Those are of an agent that runs before and after.
LEMMA QuietStep ==
    ASSUME Quiet
    PROVE  agent # "gone" /\ agent' # "gone" /\ client' = client
<1>1. CASE Prompt
  BY <1>1 DEF Prompt
<1>2. CASE Begin
  BY <1>2 DEF Begin
<1>3. CASE FinishTool
  BY <1>3 DEF FinishTool
<1>4. CASE AskUser
  BY <1>4 DEF AskUser
<1>5. CASE AnswerUser
  BY <1>5 DEF AnswerUser
<1>6. CASE FinishTurn
  BY <1>6 DEF FinishTurn
<1>7. CASE FinishSubagentTool
  BY <1>7 DEF FinishSubagentTool
<1>8. CASE Interrupt
  BY <1>8 DEF Interrupt
<1>9. CASE FailOnApi
  BY <1>9 DEF FailOnApi
<1>. QED
  BY <1>1, <1>2, <1>3, <1>4, <1>5, <1>6, <1>7, <1>8, <1>9 DEF Quiet

\* The badge follows the agent.
LEMMA NextBadge == ASSUME TypeOK, BadgeFollows, [Next]_vars PROVE BadgeFollows'
<1>. USE TypeParts DEF BadgeFollows
<1>1. CASE Start
  BY <1>1, StartedFields DEF Start
<1>2. CASE Exit
  BY <1>2, DormantFields DEF Exit
<1>3. CASE Quiet
  BY <1>3, QuietStep DEF Watched
<1>4. ASSUME NEW i \in InFlight, HookArrives(i) PROVE BadgeFollows'
  <2>1. agent' = agent
    BY <1>4 DEF HookArrives
  <2>2. CASE client' = HandleTurnStart(client)
    BY <2>1, <2>2, TurnStartFields
  <2>3. CASE client' = HandleWorking(client, FALSE)
    BY <2>1, <2>3, WorkingFields
  <2>4. ASSUME NEW status \in BlockingBadges, client' = HandleBlocking(client, status)
        PROVE  BadgeFollows'
    BY <2>1, <2>4, BlockingFields
  <2>5. CASE client' = HandleCompleted(client)
    BY <2>1, <2>5, CompletedFields
  <2>. QED
    BY <1>4, <2>2, <2>3, <2>4, <2>5, HookCases
<1>5. ASSUME NEW i \in InFlight, LineArrives(i) PROVE BadgeFollows'
  <2>1. /\ agent' = agent /\ inFlight[i].hook \in Printed
        /\ client' = client \/ client' = HandleOutput(client, inFlight[i].hook)
    BY <1>5 DEF LineArrives
  <2>2. CASE client' = client
    BY <2>1, <2>2 DEF Watched
  <2>3. CASE client' = HandleOutput(client, inFlight[i].hook)
    BY <2>1, <2>3, OutputFields
  <2>. QED
    BY <2>1, <2>2, <2>3
<1>6. CASE OutputArrives
  BY <1>6, OutputFields DEF OutputArrives
<1>7. CASE IdleTimerFires
  BY <1>7, IdleFields DEF IdleTimerFires
<1>8. CASE SeeCompletion
  BY <1>8 DEF SeeCompletion, Entries, Watched
<1>9. CASE ChangeRoute
  BY <1>9 DEF ChangeRoute, Watched
<1>10. CASE ResetStatus
  BY <1>10, ResetFields DEF ResetStatus
<1>11. CASE Tick
  BY <1>11, TickFields DEF Tick
<1>12. CASE UNCHANGED vars
  BY <1>12 DEF vars, Watched
<1>. QED
  BY <1>1, <1>2, <1>3, <1>4, <1>5, <1>6, <1>7, <1>8, <1>9, <1>10, <1>11, <1>12
     DEF Next, Agent, User, Arrive, InFlight, Quiet

-----------------------------------------------------------------------------
(* What may be in flight, and what of an earlier turn the client still knows.  *)

\* Only certain hooks are in flight: of what is fired, of what is left, of what ages.
LEMMA OnlyOfStep ==
    ASSUME TypeOK, NEW hooks, NEW more, hooks \subseteq more
    PROVE  /\ OnlyOf(hooks) => OnlyOf(more)
           /\ Settled => OnlyOf(hooks)
           /\ UNCHANGED inFlight /\ OnlyOf(hooks) => OnlyOf(hooks)'
           /\ \A hook \in (Hooks \cup Printed) \cap more : OnlyOf(hooks) /\ Fire(hook) => OnlyOf(more)'
           /\ \A i \in InFlight : OnlyOf(hooks) /\ inFlight' = RemoveAt(inFlight, i) => OnlyOf(hooks)'
           /\ Tick /\ OnlyOf(hooks) => OnlyOf(hooks)'
<1>. USE DEF OnlyOf
<1>1. Settled => OnlyOf(hooks)
  BY DEF Settled, InFlight
<1>2. UNCHANGED inFlight /\ OnlyOf(hooks) => OnlyOf(hooks)'
  BY DEF InFlight
<1>3. ASSUME NEW hook \in (Hooks \cup Printed) \cap more, OnlyOf(hooks), Fire(hook)
      PROVE  OnlyOf(more)'
  <2>1. \A i \in InFlight' : \/ i \in InFlight /\ inFlight'[i] = inFlight[i]
                             \/ inFlight'[i] = [hook |-> hook, age |-> 0]
    BY <1>3, FireFacts
  <2>. QED
    BY <1>3, <2>1
<1>4. ASSUME NEW i \in InFlight, OnlyOf(hooks), inFlight' = RemoveAt(inFlight, i)
      PROVE  OnlyOf(hooks)'
  <2>1. \A k \in InFlight' : \E m \in InFlight : inFlight'[k] = inFlight[m]
    BY <1>4, ArriveFacts
  <2>. QED
    BY <1>4, <2>1
<1>5. Tick /\ OnlyOf(hooks) => OnlyOf(hooks)'
  BY TickFacts
<1>. QED
  BY <1>1, <1>2, <1>3, <1>4, <1>5

\* Only what the agent may have sent is in flight.
LEMMA NextHooks == ASSUME TypeOK, HooksFollow, [Next]_vars PROVE HooksFollow'
<1>. USE DEF HooksFollow
<1>0. \A hooks : Settled => OnlyOf(hooks)
  BY OnlyOfStep
<1>1. CASE Start
  <2>1. OnlyOf({"postTool", "stop"} \cup Printed)'
    BY <1>0, <1>1, OnlyOfStep DEF Start
  <2>. QED
    BY <1>1, <2>1 DEF Start
<1>2. CASE Exit
  BY <1>2 DEF Exit
<1>3. CASE Prompt
  <2>1. OnlyOf({"promptSubmit"})'
    BY <1>0, <1>3, OnlyOfStep DEF Prompt, Hooks
  <2>. QED
    BY <1>3, <2>1 DEF Prompt, OnlyOf
<1>4. CASE Begin
  <2>1. OnlyOf({"postTool"})'
    BY <1>0, <1>4, OnlyOfStep DEF Begin
  <2>. QED
    BY <1>4, <2>1 DEF Begin
<1>5. ASSUME Fire("postTool"), agent' = agent, agent = "submitted" => late' # 0
      PROVE  HooksFollow'
  <2>1. ASSUME NEW hooks, "postTool" \in hooks, OnlyOf(hooks)
        PROVE  OnlyOf(hooks)'
    BY <1>5, <2>1, OnlyOfStep DEF Hooks
  <2>2. /\ OnlyOf({"promptSubmit", "postTool"}) => OnlyOf({"promptSubmit", "postTool"})'
        /\ OnlyOf({"postTool", "stop"} \cup Printed) => OnlyOf({"postTool", "stop"} \cup Printed)'
        /\ OnlyOf({"postTool"}) => OnlyOf({"postTool"})'
        /\ OnlyOf({"postTool", "permission", "question"})
             => OnlyOf({"postTool", "permission", "question"})'
    BY <2>1
  <2>. QED
    BY <1>5, <2>2
<1>6. CASE AskUser
  <2>1. PICK hook \in {"permission", "question"} : Fire(hook)
    BY <1>6 DEF AskUser
  <2>2. OnlyOf({"postTool"}) /\ agent' = "blocked"
    BY <1>6 DEF AskUser
  <2>3. hook \in (Hooks \cup Printed) \cap {"postTool", "permission", "question"}
    BY DEF Hooks
  <2>4. OnlyOf({"postTool", "permission", "question"})'
    BY <2>1, <2>2, <2>3, OnlyOfStep
  <2>. QED
    BY <2>2, <2>4
<1>7. CASE AnswerUser
  <2>1. \A i \in InFlight' : inFlight'[i].hook = "postTool"
    BY <1>7 DEF AnswerUser, InFlight
  <2>. QED
    BY <1>7, <2>1 DEF AnswerUser, OnlyOf
<1>8. CASE FinishTurn
  <2>1. OnlyOf({"postTool"}) /\ agent' = "idle" /\ Fire("stop")
    BY <1>8 DEF FinishTurn
  <2>2. "stop" \in (Hooks \cup Printed) \cap ({"postTool", "stop"} \cup Printed)
    BY DEF Hooks
  <2>3. OnlyOf({"postTool", "stop"} \cup Printed)'
    BY <2>1, <2>2, OnlyOfStep
  <2>. QED
    BY <2>1, <2>3
<1>9. CASE FinishTool \/ FinishSubagentTool
  BY <1>5, <1>9 DEF FinishTool, FinishSubagentTool, TypeOK
<1>10. CASE Interrupt
  <2>1. OnlyOf({"postTool", "stop"} \cup Printed) /\ agent' = "idle"
        /\ (UNCHANGED inFlight \/ Fire("interrupted"))
    BY <1>0, <1>10 DEF Interrupt
  <2>2. "interrupted" \in (Hooks \cup Printed) \cap ({"postTool", "stop"} \cup Printed)
    BY DEF Printed
  <2>3. OnlyOf({"postTool", "stop"} \cup Printed)'
    BY <2>1, <2>2, OnlyOfStep
  <2>. QED
    BY <2>1, <2>3
<1>11. CASE FailOnApi
  <2>1. OnlyOf({"postTool", "stop"} \cup Printed) /\ agent' = "idle" /\ Fire("apiError")
    BY <1>0, <1>11 DEF FailOnApi
  <2>2. "apiError" \in (Hooks \cup Printed) \cap ({"postTool", "stop"} \cup Printed)
    BY DEF Printed
  <2>3. OnlyOf({"postTool", "stop"} \cup Printed)'
    BY <2>1, <2>2, OnlyOfStep
  <2>. QED
    BY <2>1, <2>3
<1>12. ASSUME NEW i \in InFlight, inFlight' = RemoveAt(inFlight, i), UNCHANGED <<agent, late>>
       PROVE  HooksFollow'
  <2>1. \A hooks : OnlyOf(hooks) => OnlyOf(hooks)'
    BY <1>12, OnlyOfStep
  <2>. QED
    BY <1>12, <2>1
<1>13. CASE Tick
  <2>1. \A hooks : OnlyOf(hooks) => OnlyOf(hooks)'
    BY <1>13, OnlyOfStep
  <2>. QED
    BY <1>13, <2>1 DEF Tick
<1>14. CASE UNCHANGED <<agent, inFlight, late>>
  <2>1. \A hooks : OnlyOf(hooks) => OnlyOf(hooks)'
    BY <1>14, OnlyOfStep
  <2>. QED
    BY <1>14, <2>1
<1>15. Arrive =>
         \E i \in InFlight : inFlight' = RemoveAt(inFlight, i) /\ UNCHANGED <<agent, late>>
  BY DEF Arrive, InFlight, HookArrives, LineArrives
<1>16. OutputArrives \/ IdleTimerFires \/ SeeCompletion \/ ChangeRoute \/ ResetStatus
       \/ UNCHANGED vars => UNCHANGED <<agent, inFlight, late>>
  BY DEF OutputArrives, IdleTimerFires, SeeCompletion, ChangeRoute, ResetStatus, vars
<1>. QED
  BY <1>1, <1>2, <1>3, <1>4, <1>6, <1>7, <1>8, <1>9, <1>10, <1>11, <1>12, <1>13, <1>14,
     <1>15, <1>16 DEF Next, Agent, User

\* In a turn the client was told of, no completion is remembered.
LEMMA NextFresh ==
    ASSUME TypeOK, HooksFollow, TurnIsFresh, [Next]_vars
    PROVE  TurnIsFresh'
<1>. USE TypeParts
<1>1. CASE agent' \in {"idle", "gone"}
  BY <1>1 DEF TurnIsFresh
<1>2. CASE Prompt
  <2>1. \E i \in InFlight' : inFlight'[i] = [hook |-> "promptSubmit", age |-> 0]
    BY <1>2, FireFacts DEF Prompt, Hooks
  <2>2. Submitting'
    BY <2>1 DEF Submitting
  <2>. QED
    BY <1>2, <2>2 DEF Prompt, TurnIsFresh
<1>3. CASE Begin \/ FinishTool \/ AskUser \/ AnswerUser
  <2>1. agent' \in {"running", "blocked"} /\ UNCHANGED <<client, unheard>>
        /\ (agent \in {"running", "blocked"} \/ (agent = "submitted" /\ Settled))
    BY <1>3 DEF Begin, FinishTool, AskUser, AnswerUser
  <2>2. Settled => ~Submitting
    BY DEF Settled, Submitting, InFlight
  <2>. QED
    BY <2>1, <2>2 DEF TurnIsFresh
<1>4. CASE FinishSubagentTool
  <2>1. UNCHANGED <<agent, client, unheard>> /\ late' # 0 /\ Fire("postTool")
    BY <1>4 DEF FinishSubagentTool, TypeOK
  <2>2. Submitting => Submitting'
    BY <2>1, FireFacts DEF Hooks, Submitting
  <2>. QED
    BY <2>1, <2>2 DEF TurnIsFresh
<1>5. ASSUME NEW i \in InFlight, HookArrives(i) PROVE TurnIsFresh'
  <2>1. UNCHANGED <<agent, unheard, late>> /\ inFlight' = RemoveAt(inFlight, i)
    BY <1>5 DEF HookArrives
  <2>2. CASE inFlight[i].hook = "promptSubmit" /\ client' = HandleTurnStart(client)
    BY <2>2, TurnStartFields DEF TurnIsFresh
  <2>3. ASSUME inFlight[i].hook # "promptSubmit", Submitting
        PROVE  Submitting'
    <3>1. PICK m \in InFlight : inFlight[m].hook = "promptSubmit"
      BY <2>3 DEF Submitting
    <3>2. \E k \in InFlight' : inFlight'[k] = inFlight[m]
      BY <2>1, <2>3, <3>1, ArriveFacts
    <3>. QED
      BY <3>1, <3>2 DEF Submitting
  <2>4. CASE inFlight[i].hook = "postTool" /\ client' = HandleWorking(client, FALSE)
    <3>1. agent = "submitted" => late # 0
      BY <2>4 DEF HooksFollow, OnlyOf
    <3>2. client'.completed \in {client.completed, Never}
      BY <2>4, WorkingFields
    <3>. QED
      BY <2>1, <2>3, <2>4, <3>1, <3>2 DEF TurnIsFresh
  <2>5. ASSUME inFlight[i].hook \in {"permission", "question"},
               NEW status \in BlockingBadges, client' = HandleBlocking(client, status)
        PROVE  TurnIsFresh'
    <3>1. agent # "submitted"
      BY <2>5 DEF HooksFollow, OnlyOf
    <3>2. client'.completed = client.completed
      BY <2>5, BlockingFields
    <3>. QED
      BY <2>1, <3>1, <3>2 DEF TurnIsFresh
  <2>6. CASE inFlight[i].hook = "stop"
    <3>1. agent \notin {"submitted", "running", "blocked"}
      BY <2>6 DEF HooksFollow, OnlyOf
    <3>. QED
      BY <2>1, <3>1 DEF TurnIsFresh
  <2>. QED
    BY <1>5, <2>2, <2>4, <2>5, <2>6, HookCases
<1>6. ASSUME NEW i \in InFlight, LineArrives(i) PROVE TurnIsFresh'
  <2>1. agent' = agent /\ inFlight[i].hook \in Printed
    BY <1>6 DEF LineArrives
  <2>2. agent \notin {"submitted", "running", "blocked"}
    BY <2>1 DEF HooksFollow, OnlyOf, Printed
  <2>. QED
    BY <2>1, <2>2 DEF TurnIsFresh
<1>7. CASE UNCHANGED <<agent, unheard, late, inFlight>>
           /\ client'.completed = client.completed /\ (client'.confirmed => client.confirmed)
  BY <1>7 DEF TurnIsFresh, Submitting, InFlight
<1>8. CASE OutputArrives
  BY <1>7, <1>8, OutputFields DEF OutputArrives
<1>9. CASE IdleTimerFires
  <2>1. UNCHANGED <<agent, late, inFlight>>
    BY <1>9 DEF IdleTimerFires
  <2>2. CASE unheard' \/ agent \in {"idle", "gone"}
    BY <2>1, <2>2, <1>1 DEF TurnIsFresh
  <2>3. CASE ~unheard' /\ agent \notin {"idle", "gone"}
    <3>1. client.confirmed /\ ~unheard
      BY <1>9, <2>3 DEF IdleTimerFires
    <3>2. client'.completed = client.completed /\ (client'.confirmed => client.confirmed)
      BY <1>9, <3>1, IdleFields DEF IdleTimerFires
    <3>. QED
      BY <2>1, <3>1, <3>2 DEF TurnIsFresh, Submitting, InFlight
  <2>. QED
    BY <2>2, <2>3
<1>10. CASE SeeCompletion
  BY <1>7, <1>10 DEF SeeCompletion, Entries
<1>11. CASE ChangeRoute
  BY <1>7, <1>11 DEF ChangeRoute
<1>12. CASE ResetStatus
  BY <1>12 DEF ResetStatus, TurnIsFresh
<1>13. CASE Tick
  <2>1. Submitting => Submitting'
    BY <1>13, TickFacts DEF Submitting
  <2>2. UNCHANGED <<agent, unheard, late>> /\ (client'.confirmed => client.confirmed)
        /\ (client.completed = Never => client'.completed = Never)
    BY <1>13, TickFields, AgeFacts DEF Tick, Entries
  <2>. QED
    BY <2>1, <2>2 DEF TurnIsFresh
<1>14. CASE UNCHANGED vars
  BY <1>7, <1>14 DEF vars
<1>15. Start \/ Exit \/ FinishTurn \/ Interrupt \/ FailOnApi => agent' \in {"idle", "gone"}
  BY DEF Start, Exit, FinishTurn, Interrupt, FailOnApi
<1>. QED
  BY <1>1, <1>2, <1>3, <1>4, <1>5, <1>6, <1>8, <1>9, <1>10, <1>11, <1>12, <1>13, <1>14, <1>15
     DEF Next, Agent, User, Arrive, InFlight

-----------------------------------------------------------------------------
(* A completion that sticks.                                                   *)

Resting == agent = "idle" /\ late = 0 /\ ~unheard

\* The end of a turn is closer than its tools' hooks, and is heard.
LEMMA NextEnd ==
    ASSUME TypeOK, BadgeFollows, HooksFollow, TurnIsFresh, StopIsCloser, EndIsHeard, [Next]_vars
    PROVE  StopIsCloser' /\ EndIsHeard'
<1>. USE TypeParts
<1>a. BadgeFollows' /\ TypeOK'
  BY NextBadge, NextType
<1>b. \A i \in InFlight' : inFlight'[i].age >= 0
  <2>1. inFlight' \in Seq(Sent)
    BY <1>a DEF TypeOK, Sent
  <2>2. \A i \in InFlight' : inFlight'[i] \in Sent
    BY <2>1 DEF InFlight
  <2>. QED
    BY <2>2 DEF Sent
<1>c. HookDelay \in Nat /\ StaleWindow \in Nat /\ HookDelay < StaleWindow
  BY WindowsAssumption, HookDelayAssumption
<1>1. CASE ~Resting'
  BY <1>1 DEF Resting, StopIsCloser, EndIsHeard
<1>2. CASE Start
  <2>1. ~client'.confirmed /\ InFlight' = {}
    BY <1>2, StartedFields DEF Start, Settled, InFlight, BadgeFollows
  <2>. QED
    BY <2>1 DEF StopIsCloser, EndIsHeard
<1>3. CASE FinishTurn
  <2>1. PICK j \in InFlight' : inFlight'[j] = [hook |-> "stop", age |-> 0]
    BY <1>3, FireFacts DEF FinishTurn, Hooks
  <2>2. inFlight'[j].hook = "stop" /\ inFlight'[j].age = 0
    BY <2>1
  <2>3. StopIsCloser'
    BY <1>b, <2>2 DEF StopIsCloser
  <2>4. EndIsComing'
    BY <2>2 DEF EndIsComing, InFlight
  <2>. QED
    BY <2>3, <2>4 DEF EndIsHeard
<1>4. CASE FinishSubagentTool
  BY <1>1, <1>4 DEF FinishSubagentTool, TypeOK, Resting
<1>5. CASE Interrupt /\ agent = "submitted"
  <2>1. inFlight' = inFlight /\ client' = client /\ Settled
    BY <1>5 DEF Interrupt
  <2>2. unheard' = (unheard \/ (agent = "submitted" /\ (subagents > 0 \/ late > 0))) /\ late' = late
    BY <1>5 DEF Interrupt
  <2>3. unheard => unheard'
    BY <2>2, Zenon
  <2>4. InFlight = {} /\ InFlight' = {}
    BY <2>1 DEF Settled, InFlight
  <2>5. ~unheard /\ late = 0 => ~client.confirmed
    BY <1>5, <2>4 DEF TurnIsFresh, Submitting
  <2>. QED
    BY <2>1, <2>2, <2>3, <2>4, <2>5 DEF StopIsCloser, EndIsHeard
<1>6. ASSUME NEW text \in Printed, Settled, Fire(text)
      PROVE  StopIsCloser' /\ EndIsHeard'
  <2>1. \A i \in InFlight' : inFlight'[i] = [hook |-> text, age |-> 0]
    BY <1>6, FireFacts DEF Settled, InFlight
  <2>2. \E i \in InFlight' : inFlight'[i] = [hook |-> text, age |-> 0]
    BY <1>6, FireFacts
  <2>3. \A i \in InFlight' : inFlight'[i].hook \in Printed
    BY <2>1
  <2>4. StopIsCloser'
    BY <2>3 DEF StopIsCloser, Printed
  <2>5. EndIsComing'
    BY <2>2, <2>3 DEF EndIsComing, InFlight
  <2>. QED
    BY <2>4, <2>5 DEF EndIsHeard
<1>7. CASE Interrupt /\ agent # "submitted"
  BY <1>6, <1>7 DEF Interrupt, Printed
<1>8. CASE FailOnApi
  BY <1>6, <1>8 DEF FailOnApi, Printed
<1>9. ASSUME NEW i \in InFlight, HookArrives(i), Resting PROVE StopIsCloser' /\ EndIsHeard'
  <2>1. /\ agent = "idle" /\ late = 0 /\ ~unheard
        /\ inFlight[i].hook \in {"postTool", "stop"} \cup Printed
    BY <1>9 DEF HooksFollow, OnlyOf, Resting
  <2>2. CASE inFlight[i].hook = "stop" /\ client' = HandleCompleted(client)
    <3>1. client'.completed = 0 /\ ~client'.confirmed
      BY <2>2, CompletedFields
    <3>. QED
      BY <1>b, <3>1, AgeFacts DEF StopIsCloser, EndIsHeard
  <2>3. CASE inFlight[i].hook = "postTool" /\ client' = HandleWorking(client, FALSE)
    <3>1. /\ \A k \in InFlight' : \E m \in InFlight : m # i /\ inFlight'[k] = inFlight[m]
          /\ \A m \in InFlight : m # i => \E k \in InFlight' : inFlight'[k] = inFlight[m]
      BY <1>9, ArriveFacts DEF HookArrives
    <3>2. CASE IsStale(client)
      <4>1. client' = client
        BY <2>3, <3>2, WorkingFields
      <4>2. StopIsCloser'
        <5>. SUFFICES ASSUME NEW k \in InFlight', inFlight'[k].hook = "postTool"
                      PROVE  \/ \E j \in InFlight' : /\ inFlight'[j].hook = "stop"
                                                     /\ inFlight'[j].age <= inFlight'[k].age
                             \/ client'.completed # Never /\ client'.completed <= inFlight'[k].age
          BY DEF StopIsCloser
        <5>1. PICK m \in InFlight : inFlight'[k] = inFlight[m]
          BY <3>1
        <5>2. CASE \E j \in InFlight : inFlight[j].hook = "stop" /\ inFlight[j].age <= inFlight[m].age
          BY <2>3, <3>1, <5>1, <5>2
        <5>3. CASE client.completed # Never /\ client.completed <= inFlight[m].age
          BY <4>1, <5>1, <5>3
        <5>. QED
          BY <2>1, <5>1, <5>2, <5>3 DEF StopIsCloser
      <4>3. EndIsComing => EndIsComing'
        BY <2>3, <3>1 DEF EndIsComing, InFlight, Printed
      <4>. QED
        BY <2>1, <4>1, <4>2, <4>3 DEF EndIsHeard
    <3>3. CASE ~IsStale(client)
      <4>1. ASSUME NEW m \in InFlight, inFlight[m].hook = "postTool"
            PROVE  \E j \in InFlight : inFlight[j].hook = "stop" /\ inFlight[j].age <= inFlight[m].age
        <5>1. inFlight[m].age \in 0 .. HookDelay /\ HookDelay \in Nat /\ StaleWindow \in Nat
              /\ HookDelay < StaleWindow
          BY <1>c
        <5>2. ~(client.completed # Never /\ client.completed <= inFlight[m].age)
          <6>1. client.completed = Never \/ ~(client.completed < StaleWindow)
            BY <3>3 DEF IsStale, Within
          <6>2. client.completed \in Int
            BY AgeFacts DEF Entries
          <6>. QED
            BY <5>1, <6>1, <6>2
        <5>. QED
          BY <2>1, <4>1, <5>2 DEF StopIsCloser
      <4>2. StopIsCloser'
        <5>. SUFFICES ASSUME NEW k \in InFlight', inFlight'[k].hook = "postTool"
                      PROVE  \E j \in InFlight' : /\ inFlight'[j].hook = "stop"
                                                  /\ inFlight'[j].age <= inFlight'[k].age
          BY DEF StopIsCloser
        <5>1. PICK m \in InFlight : inFlight'[k] = inFlight[m]
          BY <3>1
        <5>2. PICK j \in InFlight : inFlight[j].hook = "stop" /\ inFlight[j].age <= inFlight[m].age
          BY <4>1, <5>1
        <5>. QED
          BY <2>3, <3>1, <5>1, <5>2
      <4>3. EndIsComing'
        <5>1. PICK j \in InFlight : inFlight[j].hook = "stop"
          BY <2>3, <4>1
        <5>2. \E k \in InFlight' : inFlight'[k].hook = "stop"
          BY <2>3, <3>1, <5>1
        <5>. QED
          BY <5>2 DEF EndIsComing, InFlight
      <4>. QED
        BY <4>2, <4>3 DEF EndIsHeard
    <3>. QED
      BY <3>2, <3>3
  <2>. QED
    BY <1>9, <2>1, <2>2, <2>3, HookCases DEF Printed
<1>10. ASSUME NEW i \in InFlight, LineArrives(i), Resting PROVE StopIsCloser' /\ EndIsHeard'
  <2>1. /\ inFlight[i].hook \in Printed /\ (client'.turn => unheard')
        /\ client' = client \/ client' = HandleOutput(client, inFlight[i].hook)
    BY <1>10 DEF LineArrives
  <2>2. EndIsHeard'
    BY <1>a, <2>1 DEF EndIsHeard, BadgeFollows, Watched
  <2>3. client'.completed = client.completed \/ client'.completed = 0
    BY <2>1, OutputFields
  <2>4. /\ \A k \in InFlight' : \E m \in InFlight : m # i /\ inFlight'[k] = inFlight[m]
        /\ \A m \in InFlight : m # i => \E k \in InFlight' : inFlight'[k] = inFlight[m]
    BY <1>10, ArriveFacts DEF LineArrives
  <2>5. StopIsCloser'
    <3>. SUFFICES ASSUME NEW k \in InFlight', inFlight'[k].hook = "postTool"
                  PROVE  \/ \E j \in InFlight' : /\ inFlight'[j].hook = "stop"
                                                 /\ inFlight'[j].age <= inFlight'[k].age
                         \/ client'.completed # Never /\ client'.completed <= inFlight'[k].age
      BY DEF StopIsCloser
    <3>1. PICK m \in InFlight : inFlight'[k] = inFlight[m]
      BY <2>4
    <3>2. CASE \E j \in InFlight : inFlight[j].hook = "stop" /\ inFlight[j].age <= inFlight[m].age
      BY <2>1, <2>4, <3>1, <3>2 DEF Printed
    <3>3. CASE client.completed # Never /\ client.completed <= inFlight[m].age
      BY <1>b, <2>3, <3>1, <3>3, AgeFacts
    <3>. QED
      BY <1>10, <3>1, <3>2, <3>3 DEF StopIsCloser, Resting
  <2>. QED
    BY <2>2, <2>5
<1>11. CASE Tick /\ Resting
  <2>1. /\ InFlight' = InFlight
        /\ \A i \in InFlight : /\ inFlight'[i].hook = inFlight[i].hook
                               /\ inFlight'[i].age = inFlight[i].age + 1
    BY <1>11, TickFacts
  <2>2. client'.completed = Older(client.completed) /\ client'.confirmed = client.confirmed
    BY <1>11, TickFields DEF Tick
  <2>3. EndIsComing => EndIsComing'
    BY <2>1 DEF EndIsComing, InFlight
  <2>4. EndIsHeard'
    BY <1>11, <2>2, <2>3 DEF EndIsHeard, Resting
  <2>5. ASSUME NEW k \in InFlight, inFlight[k].hook = "postTool"
        PROVE  \/ \E j \in InFlight : /\ inFlight'[j].hook = "stop"
                                      /\ inFlight'[j].age <= inFlight'[k].age
               \/ client'.completed # Never /\ client'.completed <= inFlight'[k].age
    <3>1. CASE \E j \in InFlight : inFlight[j].hook = "stop" /\ inFlight[j].age <= inFlight[k].age
      <4>1. PICK j \in InFlight : inFlight[j].hook = "stop" /\ inFlight[j].age <= inFlight[k].age
        BY <3>1
      <4>2. inFlight[j].age + 1 <= inFlight[k].age + 1
        BY <4>1
      <4>. QED
        BY <2>1, <4>1, <4>2
    <3>2. CASE client.completed # Never /\ client.completed <= inFlight[k].age
      <4>1. /\ client.completed \in Int /\ Older(client.completed) \in Int
            /\ Older(client.completed) # Never /\ Older(client.completed) <= client.completed + 1
        BY <3>2, AgeFacts DEF Entries
      <4>2. inFlight'[k].age = inFlight[k].age + 1 /\ inFlight[k].age \in Int
        BY <2>1
      <4>. QED
        BY <2>2, <3>2, <4>1, <4>2
    <3>. QED
      BY <1>11, <2>5, <3>1, <3>2 DEF StopIsCloser, Resting
  <2>. QED
    BY <2>1, <2>4, <2>5 DEF StopIsCloser
<1>12. ASSUME UNCHANGED <<inFlight, agent, late>>, unheard => unheard',
              client'.completed = client.completed \/ client'.completed = 0,
              client'.confirmed => client.confirmed
       PROVE  StopIsCloser' /\ EndIsHeard'
  BY <1>b, <1>12, AgeFacts DEF StopIsCloser, EndIsHeard, EndIsComing, InFlight
<1>13. CASE OutputArrives
  BY <1>12, <1>13, OutputFields DEF OutputArrives
<1>14. CASE IdleTimerFires
  <2>1. UNCHANGED <<inFlight, agent, late>> /\ (unheard => unheard') /\ client' = HandleIdle(client)
    BY <1>14 DEF IdleTimerFires
  <2>. QED
    BY <1>12, <2>1, IdleFields
<1>15. CASE SeeCompletion
  BY <1>12, <1>15 DEF SeeCompletion, Entries
<1>16. CASE ChangeRoute
  BY <1>12, <1>16 DEF ChangeRoute
<1>17. CASE ResetStatus
  BY <1>17 DEF ResetStatus, StopIsCloser, EndIsHeard
<1>18. CASE UNCHANGED vars
  BY <1>12, <1>18 DEF vars
<1>19. Exit \/ Prompt \/ Begin \/ FinishTool \/ AskUser \/ AnswerUser => ~Resting'
  BY DEF Exit, Prompt, Begin, FinishTool, AskUser, AnswerUser, Resting
<1>20. ASSUME UNCHANGED <<agent, late>>, unheard => unheard'
       PROVE  Resting \/ ~Resting'
  BY <1>20 DEF Resting
<1>21. CASE Agent
  BY <1>1, <1>2, <1>3, <1>4, <1>8, <1>19, <1>21 DEF Agent
<1>22. CASE User
  BY <1>1, <1>5, <1>7, <1>16, <1>17, <1>19, <1>22 DEF User
<1>23. CASE Arrive
  <2>1. PICK i \in InFlight : HookArrives(i) \/ LineArrives(i)
    BY <1>23 DEF Arrive, InFlight
  <2>2. UNCHANGED <<agent, late>>
    BY <2>1 DEF HookArrives, LineArrives
  <2>3. HookArrives(i) => (unheard => unheard')
    BY DEF HookArrives
  <2>4. LineArrives(i) => unheard' = (unheard \/ client'.turn)
    BY DEF LineArrives
  <2>5. LineArrives(i) => (unheard => unheard')
    BY <2>4, Zenon
  <2>6. Resting \/ ~Resting'
    BY <1>20, <2>1, <2>2, <2>3, <2>5
  <2>. QED
    BY <1>1, <1>9, <1>10, <2>1, <2>6
<1>24. CASE Tick
  <2>1. UNCHANGED <<agent, late, unheard>>
    BY <1>24 DEF Tick
  <2>2. Resting \/ ~Resting'
    BY <1>20, <2>1
  <2>. QED
    BY <1>1, <1>11, <1>24, <2>2
<1>. QED
  BY <1>13, <1>14, <1>15, <1>18, <1>21, <1>22, <1>23, <1>24 DEF Next

-----------------------------------------------------------------------------
(* A question that is shown.                                                   *)

Waiting == agent = "blocked" /\ ~unheard /\ ~beside
Asks == {"permission", "question"}

\* What the agent asks is closer than the hook of the tool before, and is shown.
LEMMA NextAsk ==
    ASSUME TypeOK, BadgeFollows, HooksFollow, TurnIsFresh, AskIsCloser, AskIsShown, [Next]_vars
    PROVE  AskIsCloser' /\ AskIsShown'
<1>. USE TypeParts
<1>a. \A i \in InFlight' : inFlight'[i].age >= 0
  <2>1. inFlight' \in Seq(Sent)
    BY NextType DEF TypeOK, Sent
  <2>2. \A i \in InFlight' : inFlight'[i] \in Sent
    BY <2>1 DEF InFlight
  <2>. QED
    BY <2>2 DEF Sent
<1>b. HookDelay \in Nat /\ BlockingWindow \in Nat /\ HookDelay < BlockingWindow
  BY WindowsAssumption, HookDelayAssumption
<1>1. CASE ~Waiting'
  BY <1>1 DEF Waiting, AskIsCloser, AskIsShown
<1>2. CASE AskUser
  <2>1. PICK hook \in Asks : Fire(hook)
    BY <1>2 DEF AskUser, Asks
  <2>2. PICK j \in InFlight' : inFlight'[j] = [hook |-> hook, age |-> 0]
    BY <2>1, FireFacts DEF Asks, Hooks
  <2>3. inFlight'[j].hook \in {"permission", "question"} /\ inFlight'[j].age = 0
    BY <2>2 DEF Asks
  <2>4. AskIsCloser'
    BY <1>a, <2>3 DEF AskIsCloser
  <2>. QED
    BY <2>3, <2>4 DEF AskIsShown, Asked
<1>3. ASSUME NEW i \in InFlight, HookArrives(i), Waiting PROVE AskIsCloser' /\ AskIsShown'
  <2>1. /\ agent = "blocked" /\ ~unheard /\ ~beside
        /\ inFlight[i].hook \in {"postTool", "permission", "question"}
    BY <1>3 DEF HooksFollow, OnlyOf, Waiting
  <2>2. /\ \A k \in InFlight' : \E m \in InFlight : m # i /\ inFlight'[k] = inFlight[m]
        /\ \A m \in InFlight : m # i => \E k \in InFlight' : inFlight'[k] = inFlight[m]
    BY <1>3, ArriveFacts DEF HookArrives
  <2>3. ASSUME NEW status \in BlockingBadges, client' = HandleBlocking(client, status)
        PROVE  AskIsCloser' /\ AskIsShown'
    <3>1. client.terminal = "active" /\ client.completed = Never
      BY <2>1 DEF BadgeFollows, TurnIsFresh
    <3>2. client'.badge \in BlockingBadges /\ client'.blocking = 0
      BY <2>3, <3>1, BlockingFields
    <3>. QED
      BY <1>a, <3>2, AgeFacts DEF AskIsCloser, AskIsShown
  <2>4. CASE inFlight[i].hook = "postTool" /\ client' = HandleWorking(client, FALSE)
    <3>1. CASE IsStale(client)
      <4>1. client' = client
        BY <2>4, <3>1, WorkingFields
      <4>2. AskIsCloser'
        <5>. SUFFICES ASSUME NEW k \in InFlight', inFlight'[k].hook = "postTool"
                      PROVE  \/ \E j \in InFlight' : /\ inFlight'[j].hook \in {"permission", "question"}
                                                     /\ inFlight'[j].age <= inFlight'[k].age
                             \/ /\ client'.badge \in BlockingBadges /\ client'.blocking # Never
                                /\ client'.blocking <= inFlight'[k].age
          BY DEF AskIsCloser
        <5>1. PICK m \in InFlight : inFlight'[k] = inFlight[m]
          BY <2>2
        <5>2. CASE \E j \in InFlight : /\ inFlight[j].hook \in {"permission", "question"}
                                       /\ inFlight[j].age <= inFlight[m].age
          BY <2>2, <2>4, <5>1, <5>2
        <5>3. CASE /\ client.badge \in BlockingBadges /\ client.blocking # Never
                   /\ client.blocking <= inFlight[m].age
          BY <4>1, <5>1, <5>3
        <5>. QED
          BY <2>1, <5>1, <5>2, <5>3 DEF AskIsCloser
      <4>3. Asked => Asked'
        BY <2>2, <2>4 DEF Asked
      <4>. QED
        BY <2>1, <4>1, <4>2, <4>3 DEF AskIsShown
    <3>2. CASE ~IsStale(client)
      <4>1. ASSUME NEW m \in InFlight, inFlight[m].hook = "postTool"
            PROVE  \E j \in InFlight : /\ inFlight[j].hook \in {"permission", "question"}
                                       /\ inFlight[j].age <= inFlight[m].age
        <5>1. inFlight[m].age \in 0 .. HookDelay
          OBVIOUS
        <5>2. ~(/\ client.badge \in BlockingBadges /\ client.blocking # Never
                /\ client.blocking <= inFlight[m].age)
          <6>1. client.badge \in BlockingBadges =>
                  client.blocking = Never \/ ~(client.blocking < BlockingWindow)
            BY <3>2 DEF IsStale, Within
          <6>2. client.blocking \in Int
            BY AgeFacts DEF Entries
          <6>. QED
            BY <1>b, <5>1, <6>1, <6>2
        <5>. QED
          BY <2>1, <4>1, <5>2 DEF AskIsCloser
      <4>2. AskIsCloser'
        <5>. SUFFICES ASSUME NEW k \in InFlight', inFlight'[k].hook = "postTool"
                      PROVE  \E j \in InFlight' : /\ inFlight'[j].hook \in {"permission", "question"}
                                                  /\ inFlight'[j].age <= inFlight'[k].age
          BY DEF AskIsCloser
        <5>1. PICK m \in InFlight : inFlight'[k] = inFlight[m]
          BY <2>2
        <5>2. PICK j \in InFlight : /\ inFlight[j].hook \in {"permission", "question"}
                                    /\ inFlight[j].age <= inFlight[m].age
          BY <4>1, <5>1
        <5>. QED
          BY <2>2, <2>4, <5>1, <5>2
      <4>3. Asked'
        <5>1. PICK j \in InFlight : inFlight[j].hook \in {"permission", "question"}
          BY <2>4, <4>1
        <5>. QED
          BY <2>2, <2>4, <5>1 DEF Asked
      <4>. QED
        BY <4>2, <4>3 DEF AskIsShown
    <3>. QED
      BY <3>1, <3>2
  <2>. QED
    BY <1>3, <2>1, <2>3, <2>4, HookCases
<1>4. ASSUME NEW i \in InFlight, LineArrives(i) PROVE ~Waiting
  BY <1>4 DEF LineArrives, HooksFollow, OnlyOf, Printed, Waiting
<1>5. CASE Tick /\ Waiting
  <2>1. /\ InFlight' = InFlight
        /\ \A i \in InFlight : /\ inFlight'[i].hook = inFlight[i].hook
                               /\ inFlight'[i].age = inFlight[i].age + 1
    BY <1>5, TickFacts
  <2>2. client'.blocking = Older(client.blocking) /\ client'.badge = client.badge
    BY <1>5, TickFields DEF Tick
  <2>3. Asked => Asked'
    BY <2>1 DEF Asked
  <2>4. AskIsShown'
    BY <1>5, <2>2, <2>3 DEF AskIsShown, Waiting
  <2>5. ASSUME NEW k \in InFlight, inFlight[k].hook = "postTool"
        PROVE  \/ \E j \in InFlight : /\ inFlight'[j].hook \in {"permission", "question"}
                                      /\ inFlight'[j].age <= inFlight'[k].age
               \/ /\ client'.badge \in BlockingBadges /\ client'.blocking # Never
                  /\ client'.blocking <= inFlight'[k].age
    <3>1. CASE \E j \in InFlight : /\ inFlight[j].hook \in {"permission", "question"}
                                   /\ inFlight[j].age <= inFlight[k].age
      <4>1. PICK j \in InFlight : /\ inFlight[j].hook \in {"permission", "question"}
                                  /\ inFlight[j].age <= inFlight[k].age
        BY <3>1
      <4>2. inFlight[j].age + 1 <= inFlight[k].age + 1
        BY <4>1
      <4>. QED
        BY <2>1, <4>1, <4>2
    <3>2. CASE /\ client.badge \in BlockingBadges /\ client.blocking # Never
               /\ client.blocking <= inFlight[k].age
      <4>1. /\ client.blocking \in Int /\ Older(client.blocking) \in Int
            /\ Older(client.blocking) # Never /\ Older(client.blocking) <= client.blocking + 1
        BY <3>2, AgeFacts DEF Entries
      <4>2. inFlight'[k].age = inFlight[k].age + 1 /\ inFlight[k].age \in Int
        BY <2>1
      <4>. QED
        BY <2>2, <3>2, <4>1, <4>2
    <3>. QED
      BY <1>5, <2>5, <3>1, <3>2 DEF AskIsCloser, Waiting
  <2>. QED
    BY <2>1, <2>4, <2>5 DEF AskIsCloser
<1>6. ASSUME UNCHANGED <<inFlight, agent, beside>>, unheard => unheard',
             client.badge \in BlockingBadges =>
               client'.badge = client.badge /\ client'.blocking = client.blocking
      PROVE  AskIsCloser' /\ AskIsShown'
  BY <1>6 DEF AskIsCloser, AskIsShown, Asked, InFlight
<1>7. CASE OutputArrives
  BY <1>6, <1>7, OutputFields DEF OutputArrives
<1>8. CASE IdleTimerFires
  <2>1. UNCHANGED <<inFlight, agent, beside>> /\ (unheard => unheard') /\ client' = HandleIdle(client)
    BY <1>8 DEF IdleTimerFires
  <2>. QED
    BY <1>6, <2>1, IdleFields DEF BlockingBadges
<1>9. CASE SeeCompletion
  BY <1>6, <1>9 DEF SeeCompletion, BlockingBadges
<1>10. CASE ChangeRoute
  BY <1>6, <1>10 DEF ChangeRoute
<1>11. CASE ResetStatus
  BY <1>11 DEF ResetStatus, AskIsCloser, AskIsShown
<1>12. CASE UNCHANGED vars
  BY <1>6, <1>12 DEF vars
<1>13. Start \/ Exit \/ Prompt \/ Begin \/ FinishTool \/ AnswerUser \/ FinishTurn
         \/ FinishSubagentTool \/ Interrupt \/ FailOnApi => ~Waiting'
  BY DEF Start, Exit, Prompt, Begin, FinishTool, AnswerUser, FinishTurn, FinishSubagentTool,
         Interrupt, FailOnApi, Waiting
<1>14. CASE Agent
  BY <1>1, <1>2, <1>13, <1>14 DEF Agent
<1>15. CASE User
  BY <1>1, <1>10, <1>11, <1>13, <1>15 DEF User
<1>16. CASE Arrive
  <2>1. PICK i \in InFlight : HookArrives(i) \/ LineArrives(i)
    BY <1>16 DEF Arrive, InFlight
  <2>2. CASE HookArrives(i)
    <3>1. UNCHANGED <<agent, unheard, beside>>
      BY <2>2 DEF HookArrives
    <3>. QED
      BY <1>1, <1>3, <2>2, <3>1 DEF Waiting
  <2>3. CASE LineArrives(i)
    <3>1. UNCHANGED <<agent, beside>> /\ unheard' = (unheard \/ client'.turn)
      BY <2>3 DEF LineArrives
    <3>2. ~Waiting'
      BY <1>4, <2>3, <3>1, Zenon DEF Waiting
    <3>. QED
      BY <1>1, <3>2
  <2>. QED
    BY <2>1, <2>2, <2>3
<1>17. CASE Tick
  <2>1. UNCHANGED <<agent, unheard, beside>>
    BY <1>17 DEF Tick
  <2>. QED
    BY <1>1, <1>5, <1>17, <2>1 DEF Waiting
<1>. QED
  BY <1>7, <1>8, <1>9, <1>12, <1>14, <1>15, <1>16, <1>17 DEF Next

-----------------------------------------------------------------------------
(* Theorems.                                                                   *)

\* The invariant, at first and after every step.
LEMMA InitHInv == Init => HInv
<1>. SUFFICES ASSUME Init PROVE HInv
  OBVIOUS
<1>1. InFlight = {} /\ agent = "gone" /\ client = Cleared
  BY DEF Init, InFlight
<1>2. BadgeFollows
  BY <1>1 DEF BadgeFollows, Watched, Cleared
<1>. QED
  BY <1>1, <1>2, InitType
     DEF HInv, HooksFollow, TurnIsFresh, StopIsCloser, EndIsHeard, AskIsCloser, AskIsShown

LEMMA NextHInv == HInv /\ [Next]_vars => HInv'
  BY NextType, NextBadge, NextHooks, NextFresh, NextEnd, NextAsk DEF HInv

\* The inductive invariant, whatever the windows in their order and the budgets: what is in
\* flight is of the agent's turn, and the badge follows what has arrived (handleHookStatus,
\* handleOutput, handleTurnStart and the idle timer).
THEOREM SpecHInv == Spec => []HInv
  BY InitHInv, NextHInv, PTL DEF Spec

\* Hooks, agent, badge, timer and route keep their types through every handler of
\* sessionEventState.ts and every hook route.
THEOREM SpecTypeOK == Spec => []TypeOK
<1>1. HInv => TypeOK
  BY DEF HInv
<1>. QED
  BY <1>1, SpecHInv, PTL

\* However hooks overtake each other, an idle agent is shown as working only while the end of
\* its turn is on its way (EndIsHeard) or the timer watches a turn that no hook confirmed:
\* a tool's hook that comes after the Stop is within POST_COMPLETION_STALE_MS of it.
THEOREM SpecCompletionSticks == Spec => []CompletionSticks
<1>1. HInv => CompletionSticks
  BY DEF HInv, BadgeFollows, Watched, EndIsHeard, CompletionSticks
<1>. QED
  BY <1>1, SpecHInv, PTL

\* A question or an approval whose hook has arrived stays shown while the agent waits, since
\* the hook of the tool before it is no younger and so comes within
\* BLOCKING_STATUS_STALE_WORKING_WINDOW_MS of it (AskIsCloser, AskIsShown).
THEOREM SpecBlockedIsShown == Spec => []BlockedIsShown
<1>1. HInv => BlockedIsShown
  BY DEF HInv, AskIsShown, Asked, InFlight, Settled, BlockedIsShown
<1>. QED
  BY <1>1, SpecHInv, PTL

-----------------------------------------------------------------------------
(* Pi: types.                                                                  *)

\* Sequences of a set, taken apart and put together.
LEMMA SeqType ==
    ASSUME NEW T, NEW s \in Seq(T), NEW t \in Seq(T), NEW e \in T
    PROVE  /\ s \o t \in Seq(T) /\ Append(s, e) \in Seq(T) /\ <<e>> \in Seq(T) /\ <<>> \in Seq(T)
           /\ s # <<>> => Head(s) \in T /\ Tail(s) \in Seq(T) /\ s[Len(s)] \in T
  OBVIOUS

Rpc == {"update", "agentEnd", "dialog"}
PiType == [doing : Doing, hook : Statuses, written : BOOLEAN, held : Seq(Statuses), last : Statuses,
           ended : BOOLEAN]
SyncType == [status : Statuses, unread : BOOLEAN, reading : Statuses \cup {"no"}]
ServerType == [hook : Statuses, dialog : BOOLEAN]
PiBudget == [{"turns", "replies", "outputs", "resumes"} -> Nat]

\* What is read, apart from the client.
ReadTypes ==
    /\ pi \in PiType /\ sync \in SyncType /\ jsonl \in Seq(Statuses) /\ emitted \in Statuses
    /\ watcher \in {"waits", "held", "reads"} /\ rpc \in Seq(Rpc) /\ typed \in BOOLEAN

\* What is made of it.
HeardTypes ==
    /\ server \in ServerType /\ view \in Entries /\ restore \in {"no", None} /\ behind \in BOOLEAN

LEMMA PiTypeParts ==
    /\ PiTypeOK <=> /\ ReadTypes /\ HeardTypes
                    /\ mode \in Modes /\ stale \in BOOLEAN /\ piLeft \in PiBudget
    /\ PiTypeOK' <=> /\ ReadTypes' /\ HeardTypes'
                     /\ mode' \in Modes /\ stale' \in BOOLEAN /\ piLeft' \in PiBudget
    /\ Statuses = {None, "working", "needsInput", "error", "completed"}
    /\ None \in Statuses /\ Statuses \subseteq Badges
  BY DEF PiTypeOK, ReadTypes, HeardTypes, PiType, SyncType, ServerType, PiBudget, Rpc, Statuses, None,
         Badges

LEMMA FewType ==
    ASSUME NEW T, NEW a \in T, NEW b \in T, NEW c \in T
    PROVE  <<a, b>> \in Seq(T) /\ <<a, b, c>> \in Seq(T)
  OBVIOUS

\* Nothing was read yet.
LEMMA EmptyType == <<>> \in Seq(Statuses) /\ <<>> \in Seq(Rpc)
  BY SeqType

\* The first state, of a session that has just started.
LEMMA InitPiType == PiInit => PiTypeOK
<1>. SUFFICES ASSUME PiInit PROVE PiTypeOK
  OBVIOUS
<1>1. pi \in PiType /\ sync \in SyncType
  BY DEF PiInit, NewPi, NewSync, PiType, SyncType, None, Statuses, Doing
<1>2. ReadTypes
  <2>1. /\ jsonl \in Seq(Statuses) /\ rpc \in Seq(Rpc) /\ emitted \in Statuses
        /\ watcher \in {"waits", "held", "reads"} /\ typed \in BOOLEAN
    BY PiTypeParts, EmptyType DEF PiInit
  <2>. QED
    BY <1>1, <2>1 DEF ReadTypes
<1>3. Cleared \in Entries
  BY AgeFacts DEF Cleared, Entries, Badges
<1>4. HeardTypes
  BY <1>3, StartedFields, PiTypeParts DEF PiInit, HeardTypes, ServerType
<1>5. piLeft \in PiBudget
  BY PiBudgetsAssumption DEF PiInit, PiBudget
<1>. QED
  BY <1>2, <1>4, <1>5, PiTypeParts DEF PiInit

\* A use leaves budgets.
LEMMA UsePiType ==
    ASSUME PiTypeOK, NEW what \in {"turns", "replies", "outputs", "resumes"}, UsePi(what)
    PROVE  piLeft' \in PiBudget
  BY PiTypeParts DEF UsePi, PiBudget

\* The client's handling of a status keeps its entries' types.
LEMMA HearsType ==
    ASSUME NEW c \in Entries, NEW status \in Statuses
    PROVE  Hears(c, status) \in Entries
<1>1. status \in Badges
  BY PiTypeParts
<1>2. CASE status = "completed"
  BY <1>2, CompletedFields DEF Hears
<1>3. CASE status = "working"
  BY <1>3, WorkingFields DEF Hears
<1>4. CASE status \notin {"completed", "working"}
  <2>1. Hears(c, status) = HandleBlocking(c, status) /\ status \in BlockingBadges \cup {"error", "none"}
    BY <1>4, PiTypeParts DEF Hears, BlockingBadges, None
  <2>. QED
    BY <2>1, BlockingFields
<1>. QED
  BY <1>2, <1>3, <1>4

\* A status that is applied is the server's, and what the client makes of it.
LEMMA ApplyFields ==
    ASSUME PiTypeOK, NEW status \in Statuses, NEW dialog \in BOOLEAN, Apply(status, dialog)
    PROVE  HeardTypes' /\ server'.hook = status /\ server'.dialog = dialog
<1>1. server' \in ServerType /\ server'.hook = status /\ server'.dialog = dialog
  BY DEF Apply, ServerType
<1>2. CASE UNCHANGED <<view, restore, behind>>
  BY <1>1, <1>2, PiTypeParts DEF HeardTypes
<1>3. CASE ClientHears(status)
  <2>1. view' \in Entries /\ restore' \in {"no", None}
    BY <1>3, HearsType, PiTypeParts DEF ClientHears, HeardTypes
  <2>2. Refuses(view, status) \in BOOLEAN /\ (view.terminal # "active") \in BOOLEAN
    BY DEF Refuses
  <2>3. behind' \in BOOLEAN
    BY <1>3, <2>2, PiTypeParts DEF ClientHears, HeardTypes
  <2>. QED
    BY <1>1, <2>1, <2>3 DEF HeardTypes
<1>. QED
  BY <1>2, <1>3 DEF Apply

\* The client's own steps.
LEMMA ClientType ==
    ASSUME PiTypeOK, ClientStep \/ PiTick
    PROVE  /\ HeardTypes' /\ UNCHANGED <<server, mode, pi, sync, jsonl, emitted, watcher, rpc, typed,
                                         stale, piLeft>>
<1>. USE PiTypeParts DEF HeardTypes
<1>1. CASE Restore
  BY <1>1 DEF Restore, Entries, Badges
<1>2. CASE PiIdleTimerFires
  <2>1. (server.hook = "working" /\ view'.badge # view.badge) \in BOOLEAN
    OBVIOUS
  <2>. QED
    BY <1>2, <2>1, IdleFields DEF PiIdleTimerFires
<1>3. CASE SeePiCompletion
  BY <1>3 DEF SeePiCompletion, Entries
<1>4. CASE Hydrate
  BY <1>4 DEF Hydrate, Entries, ServerType
<1>5. CASE PiTick
  BY <1>5, TickFields DEF PiTick
<1>. QED
  BY <1>1, <1>2, <1>3, <1>4, <1>5 DEF ClientStep

\* Redraws: a status the server infers, or what the fallback shows.
LEMMA FallbackType ==
    ASSUME NEW c \in Entries, NEW old \in {"no", None}
    PROVE  LET shown == Fallback(c, old)
           IN  /\ shown.view \in Entries /\ shown.restore \in {"no", None}
               /\ HandleOutput(shown.view, "plain") \in Entries
<1>1. [c EXCEPT !.badge = "working"] \in Entries
  BY DEF Entries, Badges
<1>2. Fallback(c, old).view \in Entries /\ Fallback(c, old).restore \in {"no", None}
  BY <1>1, Zenon DEF Fallback
<1>. QED
  BY <1>2, OutputFields

LEMMA OutputType ==
    ASSUME PiTypeOK, Output
    PROVE  HeardTypes' /\ piLeft' \in PiBudget
<1>1. piLeft' \in PiBudget
  BY UsePiType DEF Output
<1>2. CASE Apply("working", server.dialog)
  BY <1>1, <1>2, ApplyFields, PiTypeParts DEF HeardTypes, ServerType
<1>3. CASE LET shown == Fallback(view, restore)
           IN  /\ view' = HandleOutput(shown.view, "plain")
               /\ restore' = shown.restore
               /\ UNCHANGED <<server, behind>>
  BY <1>1, <1>3, FallbackType, PiTypeParts DEF HeardTypes
<1>. QED
  BY <1>2, <1>3 DEF Output

\* What Pi writes keeps the types.
LEMMA LineType ==
    ASSUME PiTypeOK, NEW status \in Statuses, NEW answers \in BOOLEAN, Line(status, answers)
    PROVE  jsonl' \in Seq(Statuses) /\ watcher' \in {"waits", "held", "reads"}
<1>1. jsonl \in Seq(Statuses) /\ pi.held \in Seq(Statuses) /\ watcher \in {"waits", "held", "reads"}
  BY PiTypeParts DEF ReadTypes, PiType
<1>2. jsonl \o pi.held \in Seq(Statuses) /\ <<status>> \in Seq(Statuses)
  BY <1>1, SeqType
<1>3. jsonl \o pi.held \o <<status>> \in Seq(Statuses)
  BY <1>2, SeqType
<1>. QED
  BY <1>1, <1>3, Zenon DEF Line

LEMMA BecomesType ==
    ASSUME PiTypeOK, NEW doing \in Doing, NEW hook \in Statuses, NEW status \in Statuses,
           NEW answers \in BOOLEAN, Becomes(doing, hook, status, answers)
    PROVE  pi' \in PiType
<1>1. pi \in PiType /\ pi.held \in Seq(Statuses) /\ pi.ended \in BOOLEAN
  BY PiTypeParts DEF ReadTypes, PiType
<1>2. Append(pi.held, status) \in Seq(Statuses) /\ <<>> \in Seq(Statuses)
      /\ (pi.ended \/ status = "completed") \in BOOLEAN
  BY <1>1, SeqType
<1>. QED
  BY <1>1, <1>2 DEF Becomes, PiType

LEMMA GoesType ==
    ASSUME PiTypeOK, NEW doing \in Doing, NEW hook \in Statuses, Goes(doing, hook)
    PROVE  pi' \in PiType /\ UNCHANGED <<jsonl, watcher>>
  BY PiTypeParts DEF Goes, ReadTypes, PiType

\* RPC lines stay RPC lines, and the sync file carries a status or none.
LEMMA SendsType ==
    ASSUME PiTypeOK, NEW line \in Rpc, Sends(line)
    PROVE  rpc' \in Seq(Rpc)
  BY PiTypeParts, SeqType, Zenon DEF Sends, ReadTypes

LEMMA SyncIsTyped ==
    ASSUME PiTypeOK, NEW status \in Statuses, SetHook(status) \/ WritePlain
    PROVE  sync' \in SyncType
<1>1. PICK carried \in Statuses : sync' = [sync EXCEPT !.status = carried, !.unread = TRUE]
  BY PiTypeParts, Zenon DEF SetHook, WritePlain
<1>. QED
  BY <1>1, PiTypeParts DEF ReadTypes, SyncType

\* What the server reads.
LEMMA ServerStepType ==
    ASSUME PiTypeOK, ServerStep \/ Rescan
    PROVE  PiTypeOK'
<1>. USE PiTypeParts DEF ReadTypes
<1>a. server.dialog \in BOOLEAN
  BY DEF HeardTypes, ServerType
<1>1. CASE BeginReadSync
  <2>1. sync' \in SyncType
    BY <1>1 DEF BeginReadSync, SyncType
  <2>. QED
    BY <1>1, <2>1 DEF BeginReadSync, HeardTypes
<1>2. CASE ReadSync
  <2>1. sync' \in SyncType
    BY <1>2 DEF ReadSync, SyncType
  <2>2. sync.reading # None => sync.reading \in Statuses
    BY <1>2 DEF ReadSync, SyncType
  <2>3. HeardTypes'
    BY <1>2, <1>a, <2>2, ApplyFields DEF ReadSync, HeardTypes
  <2>. QED
    BY <1>2, <2>1, <2>3 DEF ReadSync
<1>3. CASE Rescan
  <2>1. Head(jsonl) \in Statuses /\ Tail(jsonl) \in Seq(Statuses)
    BY <1>3, SeqType DEF Rescan
  <2>2. HeardTypes'
    BY <1>3, <1>a, <2>1, ApplyFields DEF Rescan, HeardTypes
  <2>3. emitted' \in Statuses /\ jsonl' \in Seq(Statuses) /\ watcher' \in {"waits", "held", "reads"}
    BY <1>3, <2>1 DEF Rescan
  <2>. QED
    BY <1>3, <2>2, <2>3 DEF Rescan
<1>4. CASE ReadRpc
  <2>1. Head(rpc) \in Rpc /\ Tail(rpc) \in Seq(Rpc)
    BY <1>4, SeqType DEF ReadRpc
  <2>2. \/ UNCHANGED <<server, view, restore, behind>>
        \/ \E status \in Statuses, dialog \in BOOLEAN : Apply(status, dialog)
    BY <1>4, <2>1 DEF ReadRpc, Rpc
  <2>3. HeardTypes'
    BY <2>2, ApplyFields DEF HeardTypes
  <2>. QED
    BY <1>4, <2>1, <2>3 DEF ReadRpc
<1>5. CASE NotifyPrompt
  <2>1. HeardTypes'
    BY <1>5, <1>a, ApplyFields DEF NotifyPrompt, PromptStatus
  <2>. QED
    BY <1>5, <2>1 DEF NotifyPrompt
<1>. QED
  BY <1>1, <1>2, <1>3, <1>4, <1>5 DEF ServerStep

\* A turn's own steps leave the client alone, but for an answer that is reported as work.
Turn == Submit \/ TypeCommand \/ StartAgent \/ RequestProvider
        \/ (\E next \in {"ending", "tool", "question"} : Reply(next))
        \/ StartTool \/ CallTool \/ Answer \/ EndTool \/ Abort \/ EndAgent

LEMMA TurnHeard ==
    ASSUME PiTypeOK, Turn
    PROVE  /\ HeardTypes' /\ UNCHANGED <<mode, emitted>>
           /\ UNCHANGED <<server, view, restore, behind>> \/ (Answer /\ mode = "rpc" /\ Apply("working", FALSE))
<1>1. CASE Answer /\ mode = "rpc"
  BY <1>1, ApplyFields, PiTypeParts DEF Answer
<1>2. CASE UNCHANGED <<server, view, restore, behind, mode, emitted>>
  BY <1>2, PiTypeParts DEF HeardTypes
<1>. QED
  BY <1>1, <1>2
     DEF Turn, Submit, TypeCommand, StartAgent, RequestProvider, Reply, StartTool, CallTool, Answer,
         EndTool, Abort, EndAgent, Silent

\* Every step of a turn leaves Pi, its files and its lines well typed.
LEMMA TurnType ==
    ASSUME PiTypeOK, Turn
    PROVE  PiTypeOK'
<1>. USE PiTypeParts
<1>a. /\ pi.hook \in Statuses /\ pi.doing \in Doing /\ pi \in PiType /\ sync \in SyncType
      /\ jsonl \in Seq(Statuses) /\ emitted \in Statuses /\ watcher \in {"waits", "held", "reads"}
      /\ rpc \in Seq(Rpc) /\ typed \in BOOLEAN /\ stale \in BOOLEAN
  BY DEF ReadTypes, PiType
<1>b. {"submitted", "started", "asked", "thinking", "tool", "running", "gated", "question",
       "calling", "asking", "answered", "ending", "idle"} \subseteq Doing
  BY DEF Doing
<1>c. ASSUME pi' \in PiType, sync' \in SyncType, jsonl' \in Seq(Statuses),
             watcher' \in {"waits", "held", "reads"}, rpc' \in Seq(Rpc), typed' \in BOOLEAN,
             stale' \in BOOLEAN, piLeft' \in PiBudget
      PROVE  PiTypeOK'
  BY <1>a, <1>c, TurnHeard DEF ReadTypes
<1>1. CASE Submit
  <2>1. pi' \in PiType /\ UNCHANGED <<jsonl, watcher>> /\ piLeft' \in PiBudget
    BY <1>1, <1>a, <1>b, GoesType, UsePiType DEF Submit
  <2>2. typed' \in BOOLEAN /\ stale' \in BOOLEAN /\ UNCHANGED <<sync, rpc>>
    BY <1>1 DEF Submit
  <2>. QED
    BY <1>a, <1>c, <2>1, <2>2
<1>2. CASE TypeCommand
  <2>1. piLeft' \in PiBudget /\ typed' \in BOOLEAN /\ stale' \in BOOLEAN
        /\ UNCHANGED <<pi, sync, jsonl, watcher, rpc>>
    BY <1>2, UsePiType DEF TypeCommand
  <2>. QED
    BY <1>a, <1>c, <2>1
<1>3. CASE StartAgent
  <2>1. /\ jsonl' \in Seq(Statuses) /\ watcher' \in {"waits", "held", "reads"} /\ pi' \in PiType
        /\ rpc' \in Seq(Rpc) /\ sync' \in SyncType
    BY <1>3, <1>a, <1>b, LineType, BecomesType, SendsType, SyncIsTyped DEF StartAgent, Rpc
  <2>. QED
    BY <1>3, <1>a, <1>c, <2>1 DEF StartAgent, Silent
<1>4. CASE RequestProvider
  <2>1. pi' \in PiType /\ UNCHANGED <<jsonl, watcher>> /\ sync' \in SyncType
    BY <1>4, <1>a, <1>b, GoesType, SyncIsTyped DEF RequestProvider
  <2>. QED
    BY <1>4, <1>a, <1>c, <2>1 DEF RequestProvider, Silent
<1>5. ASSUME NEW next \in {"ending", "tool", "question"}, Reply(next) PROVE PiTypeOK'
  <2>1. piLeft' \in PiBudget
    BY <1>5 DEF Reply, PiBudget
  <2>2. PICK status \in MessageStatus(next) :
          Line(status, TRUE) /\ Becomes(next, pi.hook, status, TRUE)
    BY <1>5 DEF Reply
  <2>3. status \in Statuses /\ next \in Doing
    BY <2>2, <1>b DEF MessageStatus
  <2>4. jsonl' \in Seq(Statuses) /\ watcher' \in {"waits", "held", "reads"} /\ pi' \in PiType
    BY <2>2, <2>3, <1>a, LineType, BecomesType
  <2>5. rpc' \in Seq(Rpc) /\ UNCHANGED <<sync, typed, stale>>
    BY <1>5, SendsType DEF Reply, Rpc, Silent
  <2>. QED
    BY <1>a, <1>c, <2>1, <2>4, <2>5
<1>6. CASE StartTool
  <2>1. PICK doing \in Doing, hook \in Statuses : SetHook(hook) /\ Goes(doing, hook)
    BY <1>6, <1>b DEF StartTool
  <2>2. pi' \in PiType /\ UNCHANGED <<jsonl, watcher>> /\ sync' \in SyncType
    BY <2>1, GoesType, SyncIsTyped
  <2>3. rpc' \in Seq(Rpc) /\ UNCHANGED <<typed, stale, piLeft>>
    BY <1>6, SendsType DEF StartTool, Rpc, Silent
  <2>. QED
    BY <1>a, <1>c, <2>2, <2>3
<1>7. CASE CallTool
  <2>1. \E doing \in Doing : Goes(doing, pi.hook)
    BY <1>7, <1>b DEF CallTool
  <2>2. pi' \in PiType /\ UNCHANGED <<jsonl, watcher>>
    BY <2>1, <1>a, GoesType
  <2>3. rpc' \in Seq(Rpc)
    BY <1>7, <1>a, SendsType DEF CallTool, Rpc
  <2>4. sync' \in SyncType /\ UNCHANGED <<typed, stale, piLeft>>
    BY <1>7, SyncIsTyped DEF CallTool, Silent
  <2>. QED
    BY <1>a, <1>c, <2>2, <2>3, <2>4
<1>8. CASE Answer
  <2>1. \E doing \in Doing : Goes(doing, pi.hook)
    BY <1>8, <1>b DEF Answer
  <2>2. pi' \in PiType /\ UNCHANGED <<jsonl, watcher>>
    BY <2>1, <1>a, GoesType
  <2>3. typed' \in BOOLEAN /\ UNCHANGED <<sync, rpc, stale, piLeft>>
    BY <1>8, <1>a DEF Answer
  <2>. QED
    BY <1>a, <1>c, <2>2, <2>3
<1>9. CASE EndTool
  <2>1. PICK hook \in Statuses : Line("working", TRUE) /\ Becomes("started", hook, "working", TRUE)
    BY <1>9, <1>a DEF EndTool
  <2>2. jsonl' \in Seq(Statuses) /\ watcher' \in {"waits", "held", "reads"} /\ pi' \in PiType
    BY <2>1, <1>b, LineType, BecomesType
  <2>3. sync' \in SyncType
    BY <1>9, <1>a, SyncIsTyped DEF EndTool
  <2>4. UNCHANGED <<rpc, typed, stale, piLeft>>
    BY <1>9 DEF EndTool, Silent
  <2>. QED
    BY <1>a, <1>c, <2>2, <2>3, <2>4
<1>10. CASE Abort
  <2>1. jsonl' \in Seq(Statuses) /\ watcher' \in {"waits", "held", "reads"} /\ pi' \in PiType
    BY <1>10, <1>a, <1>b, LineType, BecomesType DEF Abort
  <2>. QED
    BY <1>10, <1>a, <1>c, <2>1 DEF Abort, Silent
<1>11. CASE EndAgent
  <2>1. /\ pi' \in PiType /\ UNCHANGED <<jsonl, watcher>> /\ rpc' \in Seq(Rpc) /\ sync' \in SyncType
    BY <1>11, <1>a, <1>b, GoesType, SendsType, SyncIsTyped DEF EndAgent, Rpc
  <2>. QED
    BY <1>11, <1>a, <1>c, <2>1 DEF EndAgent, Silent
<1>. QED
  BY <1>1, <1>2, <1>3, <1>4, <1>5, <1>6, <1>7, <1>8, <1>9, <1>10, <1>11 DEF Turn

\* A session that starts again.
LEMMA ResumeType ==
    ASSUME PiTypeOK, Resume \/ StartProcess
    PROVE  PiTypeOK'
<1>. USE PiTypeParts
<1>1. CASE Resume
  <2>1. pi.last \in Statuses /\ pi.ended \in BOOLEAN
    BY DEF ReadTypes, PiType
  <2>2. pi' \in PiType
    <3>1. pi' = [doing |-> "starting", hook |-> None, written |-> TRUE, held |-> <<>>,
                 last |-> pi.last, ended |-> pi.ended]
      BY <1>1 DEF Resume, NewPi
    <3>2. "completed" \in Statuses /\ "working" \in Statuses
      OBVIOUS
    <3>. QED
      BY <2>1, <3>1, <3>2, FewType DEF PiType, Doing
  <2>3. sync' \in SyncType /\ server' \in ServerType
    BY <1>1 DEF Resume, NewSync, SyncType, ServerType
  <2>4. jsonl' \in Seq(Statuses)
    <3>1. jsonl' = <<"completed", "working", pi.last>> \/ jsonl' = <<"working", pi.last>>
      BY <1>1, Zenon DEF Resume, Retold
    <3>2. "completed" \in Statuses /\ "working" \in Statuses
      OBVIOUS
    <3>. QED
      BY <2>1, <3>1, <3>2, FewType
  <2>5. view' \in Entries /\ restore' \in {"no", None} /\ behind' \in BOOLEAN
    BY <1>1, DormantFields DEF Resume, HeardTypes
  <2>6. piLeft' \in PiBudget /\ stale' \in BOOLEAN /\ mode' \in Modes
    BY <1>1, UsePiType DEF Resume
  <2>7. emitted' \in Statuses /\ watcher' = "reads" /\ rpc' \in Seq(Rpc) /\ typed' \in BOOLEAN
    BY <1>1, EmptyType DEF Resume
  <2>. QED
    BY <2>2, <2>3, <2>4, <2>5, <2>6, <2>7 DEF ReadTypes, HeardTypes
<1>2. CASE StartProcess
  <2>1. pi' \in PiType /\ UNCHANGED <<jsonl, watcher>>
    BY <1>2, GoesType DEF StartProcess, ReadTypes, PiType, Doing
  <2>2. view' \in Entries
    BY <1>2, StartedFields DEF StartProcess, HeardTypes
  <2>. QED
    BY <1>2, <2>1, <2>2 DEF StartProcess, ReadTypes, HeardTypes
<1>. QED
  BY <1>1, <1>2

\* Every step keeps the types.
LEMMA NextPiType == PiTypeOK /\ [PiNext]_piVars => PiTypeOK'
<1>. SUFFICES ASSUME PiTypeOK, [PiNext]_piVars PROVE PiTypeOK'
  OBVIOUS
<1>1. CASE Output
  <2>1. HeardTypes' /\ piLeft' \in PiBudget
        /\ UNCHANGED <<mode, pi, sync, jsonl, emitted, watcher, rpc, typed, stale>>
    BY <1>1, OutputType DEF Output
  <2>. QED
    BY <2>1, PiTypeParts DEF ReadTypes
<1>2. CASE ClientStep \/ PiTick
  BY <1>2, ClientType, PiTypeParts DEF ReadTypes
<1>3. CASE UNCHANGED piVars
  BY <1>3, PiTypeParts DEF piVars, ReadTypes, HeardTypes
<1>4. PiStep => Turn \/ Resume \/ StartProcess
  BY DEF PiStep, Turn
<1>. QED
  BY <1>1, <1>2, <1>3, <1>4, ServerStepType, TurnType, ResumeType DEF PiNext

\* What Pi, its files, the server and the client's entries hold is well typed
\* (PiSessionManager.ts, PiSessionJsonlHook.ts, sessionEventState.ts, every handler).
THEOREM SpecPiTypeOK == PiSpec => []PiTypeOK
  BY InitPiType, NextPiType, PTL DEF PiSpec
-----------------------------------------------------------------------------
(* Once everything was read the status is what Pi does.                        *)

AtWork == {"started", "thinking", "tool", "asked", "running"}
AtQuestion == {"question", "calling", "asking", "answered"}
Between == {"starting", "idle", "submitted"}
Ends == {"completed", "error"}

\* Line i of the session file is news to its watcher, which emitted the one before.
Before(i) == IF i = 1 THEN emitted ELSE jsonl[i - 1]
Emits(i) == jsonl[i] # Before(i)

\* The status is that of the file's last line, or will be once the file is read.
ToldLater == \E i \in 1 .. Len(jsonl) : Emits(i) /\ jsonl[i] = pi.last
Told == server.hook = pi.last \/ ToldLater

\* What the extension last reported, and what of it the sync file still carries.
ReportsFollow ==
    /\ pi.doing \in Between => pi.hook \in {None, "completed"} /\ sync.status = pi.hook
    /\ pi.doing = "starting" => pi.hook = None
    /\ pi.doing \in AtWork \cup {"gated", "question"} => pi.hook = "working"
    /\ pi.doing \in {"calling", "asking", "answered"} => pi.hook = "needsInput"
    /\ pi.doing = "ending" => pi.hook \in {"working", "needsInput"}
    /\ pi.doing = "started" => sync.status \in {None, "working"}
    /\ pi.doing = "calling" => sync.status \in {None, "needsInput"}
    /\ pi.doing \notin Between \cup {"started", "calling"} => sync.status = None

\* What a readFile under way will say: a completion is applied after the next turn has begun
\* only while the session file says that it has, and is kept waiting.
ReadingFollows ==
    /\ sync.reading \in {"no", None, "completed", "working", "needsInput"}
    /\ sync.reading = "working" => pi.doing \in {"started", "thinking"}
    /\ sync.reading = "needsInput" => pi.doing \in {"calling", "asking"}
    /\ sync.reading = "completed" =>
         \/ pi.doing \in {"idle", "submitted"} /\ pi.hook = "completed"
         \/ pi.doing \in {"started", "thinking"} /\ watcher = "held" /\ ToldLater /\ pi.written

\* What the session file ends with, and what of its first turn is held back.
LinesFollow ==
    IF pi.written
    THEN /\ pi.held = <<>> /\ pi.last # None
         /\ IF jsonl = <<>> THEN emitted = pi.last ELSE jsonl[Len(jsonl)] = pi.last
         /\ pi.doing \in AtWork \cup {"gated"} => pi.last = "working"
         /\ pi.doing \in AtQuestion => pi.last = "needsInput"
         /\ pi.doing = "ending" \/ pi.hook = "completed" => pi.last \in Ends
    ELSE /\ pi.doing \in {"idle", "submitted", "started", "thinking"} /\ pi.hook # "completed"
         /\ jsonl = <<>> /\ emitted = None /\ pi.last = None
         /\ pi.held = IF pi.doing \in Between THEN <<>> ELSE <<"working">>

\* News that the file's last line contradicts is followed by news of that line.
NewsEnds ==
    \A i \in 1 .. Len(jsonl) :
        Emits(i) /\ jsonl[i] # pi.last =>
            \E k \in i + 1 .. Len(jsonl) : Emits(k) /\ jsonl[k] = pi.last

\* A dialog is open, or will be once the lines of the RPC mode are read.
Opens ==
    \/ server.dialog /\ \A i \in 1 .. Len(rpc) : rpc[i] # "agentEnd"
    \/ \E i \in 1 .. Len(rpc) : rpc[i] = "dialog" /\ \A j \in i .. Len(rpc) : rpc[j] # "agentEnd"

\* What is on its way to the server besides.
OnTheWay ==
    /\ mode = "terminal" => rpc = <<>> /\ ~server.dialog /\ pi.doing # "gated"
    /\ typed => /\ mode = "terminal"
                /\ pi.doing \in {"idle", "submitted", "started", "thinking", "answered"}
                /\ pi.doing = "idle" => stale
    /\ Opens => pi.doing \in {"asking", "gated"} \/ (pi.doing = "ending" /\ pi.last = "error")
    /\ rpc # <<>> =>
         LET last == rpc[Len(rpc)] IN
         /\ pi.doing \in AtWork => last = "update"
         /\ pi.doing \in {"asking", "gated"} => last = "dialog"
         /\ pi.doing # "answered" /\ pi.doing # "starting"
         /\ pi.doing = "idle" => last = "agentEnd" /\ pi.hook = "completed"

\* What was read and what is still to be read say what Pi does.
StatusFollows ==
    /\ pi.written /\ pi.doing \in AtWork \cup {"asking"} /\ rpc = <<>> => Told
    /\ mode = "terminal" /\ pi.doing \in {"question", "calling"} => Told
    /\ mode = "terminal" /\ pi.doing \in Between /\ pi.last = "working" => Told
    /\ ~pi.written /\ pi.doing \in {"started", "thinking"} /\ rpc = <<>> /\ ~typed => server.hook = "working"
    /\ ~pi.written /\ pi.doing = "submitted" /\ mode = "terminal" /\ ~typed => server.hook = "working"
    /\ pi.doing = "idle" /\ pi.hook = "completed" /\ ~stale /\ rpc = <<>> /\ ~sync.unread
         /\ sync.reading # "completed" => server.hook \in Ends \/ Told

Follows == ReportsFollow /\ ReadingFollows /\ LinesFollow /\ NewsEnds /\ OnTheWay /\ StatusFollows
SInv == PiTypeOK /\ Follows

LEMMA SInvParts ==
    /\ SInv <=> PiTypeOK /\ ReportsFollow /\ ReadingFollows /\ LinesFollow /\ NewsEnds /\ OnTheWay
                /\ StatusFollows
    /\ Follows' <=> ReportsFollow' /\ ReadingFollows' /\ LinesFollow' /\ NewsEnds' /\ OnTheWay'
                    /\ StatusFollows'
  BY DEF SInv, Follows

\* Types of what is read, one by one.
LEMMA ReadParts ==
    ASSUME PiTypeOK
    PROVE  /\ pi = [doing |-> pi.doing, hook |-> pi.hook, written |-> pi.written, held |-> pi.held,
                    last |-> pi.last, ended |-> pi.ended]
           /\ pi.doing \in Doing /\ pi.hook \in Statuses /\ pi.written \in BOOLEAN
           /\ pi.held \in Seq(Statuses) /\ pi.last \in Statuses /\ pi.ended \in BOOLEAN
           /\ sync.status \in Statuses /\ sync.unread \in BOOLEAN
           /\ jsonl \in Seq(Statuses) /\ emitted \in Statuses /\ rpc \in Seq(Rpc)
           /\ typed \in BOOLEAN /\ stale \in BOOLEAN /\ mode \in {"terminal", "rpc"}
           /\ server.hook \in Statuses /\ server.dialog \in BOOLEAN
  BY ModesAssumption DEF PiTypeOK, Rpc

\* What is told stays told: nothing was added to the file, and the status is as it was.
LEMMA ToldKept ==
    ASSUME UNCHANGED <<jsonl, emitted>>, pi'.last = pi.last
    PROVE  /\ ToldLater' = ToldLater /\ NewsEnds' = NewsEnds
           /\ server'.hook = server.hook => Told' = Told
           /\ ToldLater => Told'
<1>1. ToldLater' = ToldLater
  BY DEF ToldLater, Emits, Before
<1>2. NewsEnds' = NewsEnds
  BY DEF NewsEnds, Emits, Before
<1>. QED
  BY <1>1, <1>2 DEF Told

\* A line that says something else is news; one that says the same leaves the news as it was.
LEMMA LineTells ==
    ASSUME PiTypeOK, LinesFollow, NewsEnds, pi.written, NEW status \in Statuses,
           NEW answers \in BOOLEAN,
           Line(status, answers), UNCHANGED <<emitted, server>>, pi'.last = status
    PROVE  /\ jsonl' # <<>> /\ jsonl'[Len(jsonl')] = status
           /\ status # pi.last \/ ToldLater => ToldLater'
           /\ status # pi.last \/ Told => Told'
           /\ NewsEnds'
           /\ sync.reading # "no" => watcher' = "held"
           /\ sync.reading = "no" => watcher' = watcher
<1>1. jsonl \in Seq(Statuses) /\ pi.held = <<>> /\ jsonl' = jsonl \o pi.held \o <<status>>
  BY ReadParts DEF LinesFollow, Line
<1>2. jsonl \o <<>> = jsonl
  BY <1>1
<1>3. jsonl' = jsonl \o <<status>>
  BY <1>1, <1>2
<1>. PICK n \in Nat : n = Len(jsonl)
  BY <1>1
<1>4. /\ Len(jsonl') = n + 1 /\ jsonl'[n + 1] = status
      /\ \A i \in 1 .. n : jsonl'[i] = jsonl[i]
  BY <1>1, <1>3
<1>5. jsonl' # <<>> /\ jsonl'[Len(jsonl')] = status
  BY <1>4
<1>6. ASSUME status # pi.last PROVE Emits(n + 1)'
  <2>1. CASE n = 0
    <3>1. jsonl = <<>>
      BY <1>1, <2>1, EmptySeq
    <3>2. emitted' = pi.last
      BY <3>1 DEF LinesFollow
    <3>. QED
      BY <1>4, <1>6, <2>1, <3>2 DEF Emits, Before
  <2>2. CASE n # 0
    <3>1. jsonl # <<>>
      BY <2>2
    <3>2. jsonl[n] = pi.last
      BY <3>1 DEF LinesFollow
    <3>3. n \in 1 .. n /\ n + 1 # 1 /\ (n + 1) - 1 = n
      BY <2>2
    <3>. QED
      BY <1>4, <1>6, <3>2, <3>3 DEF Emits, Before
  <2>. QED
    BY <2>1, <2>2
<1>7. ASSUME NEW i \in 1 .. n PROVE Emits(i) => Emits(i)'
  <2>1. i # 1 => i - 1 \in 1 .. n
    OBVIOUS
  <2>. QED
    BY <1>4, <2>1 DEF Emits, Before
<1>8. n + 1 \in 1 .. Len(jsonl') /\ \A i \in 1 .. n : i \in 1 .. Len(jsonl')
  BY <1>4
<1>9. status # pi.last => ToldLater'
  BY <1>4, <1>6, <1>8 DEF ToldLater
<1>10. status = pi.last /\ ToldLater => ToldLater'
  BY <1>4, <1>7, <1>8 DEF ToldLater
<1>11. NewsEnds'
  <2>. SUFFICES ASSUME NEW i \in 1 .. n + 1, Emits(i)', jsonl'[i] # status
                PROVE  \E k \in i + 1 .. n + 1 : Emits(k)' /\ jsonl'[k] = status
    BY <1>4 DEF NewsEnds
  <2>1. i \in 1 .. n
    BY <1>4
  <2>2. CASE status # pi.last
    <3>1. n + 1 \in i + 1 .. n + 1
      BY <2>1
    <3>. QED
      BY <1>4, <1>6, <2>2, <3>1
  <2>3. CASE status = pi.last
    <3>1. Emits(i)
      <4>1. i # 1 => i - 1 \in 1 .. n
        BY <2>1
      <4>. QED
        BY <1>4, <2>1, <4>1 DEF Emits, Before
    <3>2. PICK k \in i + 1 .. n : Emits(k) /\ jsonl[k] = pi.last
      BY <1>4, <2>1, <2>3, <3>1 DEF NewsEnds
    <3>3. k \in 1 .. n /\ k \in i + 1 .. n + 1
      OBVIOUS
    <3>. QED
      BY <1>4, <1>7, <2>3, <3>2, <3>3
  <2>. QED
    BY <2>2, <2>3
<1>. QED
  BY <1>5, <1>9, <1>10, <1>11 DEF Told, Line

\* So does the first answer, with the line that was held back for it.
LEMMA FirstAnswerTells ==
    ASSUME PiTypeOK, LinesFollow, ~pi.written, pi.doing = "thinking", NEW status \in Statuses,
           Line(status, TRUE), UNCHANGED <<emitted, server>>, pi'.last = status
    PROVE  jsonl' # <<>> /\ jsonl'[Len(jsonl')] = status /\ Told' /\ NewsEnds'
<1>1. jsonl = <<>> /\ pi.held = <<"working">> /\ emitted = None /\ jsonl' = jsonl \o pi.held \o <<status>>
  BY DEF LinesFollow, Line, Between
<1>2. jsonl' = <<"working">> \o <<status>>
  <2>1. "working" \in Statuses
    BY DEF Statuses
  <2>2. <<>> \o <<"working">> = <<"working">>
    BY <2>1, ConcatEmptySeq
  <2>. QED
    BY <1>1, <2>2
<1>3. Len(jsonl') = 2 /\ jsonl'[1] = "working" /\ jsonl'[2] = status
  <2>1. <<"working">> \in Seq(Statuses) /\ <<status>> \in Seq(Statuses)
    BY DEF Statuses
  <2>. QED
    BY <1>2, <2>1, ConcatProperties
<1>4. Emits(1)'
  BY <1>1, <1>3 DEF Emits, Before, None
<1>5. status # "working" => Emits(2)'
  BY <1>3 DEF Emits, Before
<1>6. NewsEnds'
  BY <1>3, <1>5 DEF NewsEnds
<1>. QED
  BY <1>3, <1>4, <1>5, <1>6 DEF Told, ToldLater

\* A line is read: what will be told still is, and news says so.
LEMMA ReadTells ==
    ASSUME PiTypeOK, LinesFollow, NewsEnds, Rescan
    PROVE  /\ Told => Told'
           /\ server'.hook = server.hook \/ Told'
           /\ LinesFollow' /\ NewsEnds' /\ server'.dialog = server.dialog /\ pi.written
           /\ UNCHANGED <<mode, pi, sync, rpc, typed, stale, piLeft>>
<1>1. /\ jsonl # <<>> /\ jsonl \in Seq(Statuses) /\ jsonl' = Tail(jsonl) /\ emitted' = Head(jsonl)
      /\ UNCHANGED <<mode, pi, sync, rpc, typed, stale, piLeft>>
  BY ReadParts DEF Rescan
<1>. PICK n \in Nat : n = Len(jsonl)
  BY <1>1
<1>2. /\ n >= 1 /\ Len(jsonl') = n - 1 /\ Head(jsonl) = jsonl[1] /\ jsonl' \in Seq(Statuses)
      /\ \A i \in 1 .. n - 1 : jsonl'[i] = jsonl[i + 1]
  BY <1>1
<1>3. \A i \in 1 .. n - 1 : Emits(i)' <=> Emits(i + 1)
  <2>. SUFFICES ASSUME NEW i \in 1 .. n - 1 PROVE Before(i)' = Before(i + 1)
    BY <1>2 DEF Emits
  <2>1. CASE i = 1
    BY <1>1, <1>2, <2>1 DEF Before
  <2>2. CASE i # 1
    <3>1. i - 1 \in 1 .. n - 1 /\ (i - 1) + 1 = i /\ i + 1 # 1 /\ (i + 1) - 1 = i
      BY <2>2
    <3>. QED
      BY <1>2, <2>2, <3>1 DEF Before
  <2>. QED
    BY <2>1, <2>2
<1>4. \A k \in 2 .. n : k - 1 \in 1 .. n - 1 /\ (k - 1) + 1 = k
  OBVIOUS
<1>5. \A k \in 2 .. n : Emits(k) /\ jsonl[k] = pi.last => ToldLater'
  BY <1>1, <1>2, <1>3, <1>4 DEF ToldLater
<1>6. IF jsonl[1] = emitted THEN server' = server
      ELSE server'.hook = jsonl[1] /\ server'.dialog = server.dialog
  BY <1>2 DEF Rescan, Apply
<1>7. Emits(1) => Told'
  <2>. SUFFICES ASSUME Emits(1) PROVE Told'
    OBVIOUS
  <2>1. server'.hook = jsonl[1]
    BY <1>6 DEF Emits, Before
  <2>2. CASE jsonl[1] = pi.last
    BY <1>1, <2>1, <2>2 DEF Told
  <2>3. CASE jsonl[1] # pi.last
    <3>1. PICK k \in 2 .. n : Emits(k) /\ jsonl[k] = pi.last
      BY <1>2, <2>3 DEF NewsEnds
    <3>. QED
      BY <1>5, <3>1 DEF Told
  <2>. QED
    BY <2>2, <2>3
<1>8. ~Emits(1) => server' = server
  BY <1>6 DEF Emits, Before
<1>9. Told => Told'
  <2>. SUFFICES ASSUME Told, ~Emits(1) PROVE Told'
    BY <1>7
  <2>1. CASE server.hook = pi.last
    BY <1>1, <1>8, <2>1 DEF Told
  <2>2. CASE ToldLater
    <3>1. PICK i \in 1 .. n : Emits(i) /\ jsonl[i] = pi.last
      BY <2>2 DEF ToldLater
    <3>2. i \in 2 .. n
      BY <3>1
    <3>. QED
      BY <1>5, <3>1, <3>2 DEF Told
  <2>. QED
    BY <2>1, <2>2 DEF Told
<1>10. pi.written /\ jsonl[n] = pi.last
  BY <1>1 DEF LinesFollow
<1>11. LinesFollow'
  <2>1. CASE n = 1
    <3>1. jsonl' = <<>>
      BY <1>2, <2>1, EmptySeq
    <3>. QED
      BY <1>1, <1>2, <1>10, <2>1, <3>1 DEF LinesFollow
  <2>2. CASE n # 1
    <3>1. jsonl' # <<>> /\ jsonl'[Len(jsonl')] = jsonl[n]
      BY <1>2, <2>2
    <3>. QED
      BY <1>1, <1>10, <3>1 DEF LinesFollow
  <2>. QED
    BY <2>1, <2>2
<1>12. NewsEnds'
  <2>. SUFFICES ASSUME NEW i \in 1 .. n - 1, Emits(i)', jsonl'[i] # pi.last
                PROVE  \E k \in i + 1 .. n - 1 : Emits(k)' /\ jsonl'[k] = pi.last
    BY <1>1, <1>2 DEF NewsEnds
  <2>1. i + 1 \in 1 .. n /\ Emits(i + 1) /\ jsonl[i + 1] # pi.last
    BY <1>2, <1>3
  <2>2. PICK k \in (i + 1) + 1 .. n : Emits(k) /\ jsonl[k] = pi.last
    BY <2>1 DEF NewsEnds
  <2>3. k - 1 \in i + 1 .. n - 1 /\ k - 1 \in 1 .. n - 1 /\ (k - 1) + 1 = k
    OBVIOUS
  <2>. QED
    BY <1>2, <1>3, <2>2, <2>3
<1>13. server'.dialog = server.dialog /\ (server'.hook = server.hook \/ Told')
  BY <1>6, <1>7, <1>8 DEF Emits, Before
<1>. QED
  BY <1>1, <1>9, <1>10, <1>11, <1>12, <1>13

\* What Pi does with its hook.
LEMMA GoesFields ==
    ASSUME PiTypeOK, NEW doing, NEW hook, Goes(doing, hook)
    PROVE  /\ pi'.doing = doing /\ pi'.hook = hook /\ pi'.written = pi.written
           /\ pi'.held = pi.held /\ pi'.last = pi.last /\ jsonl' = jsonl /\ watcher' = watcher
  BY ReadParts DEF Goes

\* A line of the turn, once Pi has answered.
LEMMA BecomesFields ==
    ASSUME PiTypeOK, NEW doing, NEW hook, NEW status, NEW answers \in BOOLEAN,
           Becomes(doing, hook, status, answers), pi.written \/ answers
    PROVE  /\ pi'.doing = doing /\ pi'.hook = hook /\ pi'.written = TRUE
           /\ pi'.held = <<>> /\ pi'.last = status
  BY ReadParts DEF Becomes

\* A report carries a status only if it changes it, and interrupts no readFile.
LEMMA SetHookFields ==
    ASSUME PiTypeOK, NEW status, SetHook(status)
    PROVE  /\ sync'.status = (IF pi.hook = status THEN None ELSE status) /\ sync'.unread = TRUE
           /\ sync'.reading = sync.reading
  BY DEF SetHook, PiTypeOK

LEMMA WritePlainFields ==
    ASSUME PiTypeOK, WritePlain
    PROVE  sync'.status = None /\ sync'.unread = TRUE /\ sync'.reading = sync.reading
  BY DEF WritePlain, PiTypeOK

\* A line of the RPC mode joins those on their way.
LEMMA LineSent ==
    ASSUME PiTypeOK, NEW line \in Rpc, Sends(line), UNCHANGED <<mode, server>>,
           mode = "terminal" => rpc = <<>> /\ ~server.dialog
    PROVE  /\ mode' = "terminal" => rpc' = <<>>
           /\ mode = "rpc" => rpc' # <<>>
           /\ rpc' # <<>> => rpc'[Len(rpc')] = line
           /\ Opens' => (line = "dialog" \/ (Opens /\ line # "agentEnd"))
<1>1. rpc \in Seq(Rpc) /\ rpc' = IF mode = "rpc" THEN Append(rpc, line) ELSE rpc
  BY ReadParts DEF Sends
<1>2. CASE mode = "rpc"
  <2>1. /\ rpc' = Append(rpc, line) /\ Len(rpc) \in Nat
        /\ Len(rpc') = Len(rpc) + 1 /\ rpc'[Len(rpc) + 1] = line
        /\ \A i \in 1 .. Len(rpc) : rpc'[i] = rpc[i]
    BY <1>1, <1>2
  <2>2. Len(rpc') \in 1 .. Len(rpc') /\ \A i \in 1 .. Len(rpc) : i \in 1 .. Len(rpc')
    BY <2>1
  <2>3. ASSUME Opens', line # "dialog"
        PROVE  Opens /\ line # "agentEnd"
    <3>1. CASE server.dialog /\ \A i \in 1 .. Len(rpc') : rpc'[i] # "agentEnd"
      BY <2>1, <2>2, <3>1 DEF Opens
    <3>2. ASSUME NEW i \in 1 .. Len(rpc'), rpc'[i] = "dialog", \A j \in i .. Len(rpc') : rpc'[j] # "agentEnd"
          PROVE  Opens /\ line # "agentEnd"
      <4>1. i \in 1 .. Len(rpc)
        BY <2>1, <2>3, <3>2
      <4>2. Len(rpc') \in i .. Len(rpc') /\ \A j \in i .. Len(rpc) : j \in i .. Len(rpc') /\ j \in 1 .. Len(rpc)
        BY <2>1, <4>1
      <4>3. line # "agentEnd" /\ rpc[i] = "dialog" /\ \A j \in i .. Len(rpc) : rpc[j] # "agentEnd"
        BY <2>1, <3>2, <4>1, <4>2
      <4>. QED
        BY <4>1, <4>3 DEF Opens
    <3>. QED
      BY <2>3, <3>1, <3>2 DEF Opens
  <2>4. rpc' # <<>> /\ rpc'[Len(rpc')] = line
    BY <2>1
  <2>. QED
    BY <1>2, <2>3, <2>4
<1>3. CASE mode # "rpc"
  <2>1. rpc' = rpc /\ rpc = <<>> /\ ~server.dialog
    BY <1>1, <1>3, ReadParts
  <2>2. Len(rpc) = 0 /\ \A i \in 1 .. Len(rpc) : FALSE
    BY <2>1
  <2>3. ~Opens'
    BY <2>1, <2>2 DEF Opens
  <2>. QED
    BY <1>3, <2>1, <2>3
<1>. QED
  BY <1>2, <1>3

\* The first line of the RPC mode is read: a dialog that will be open then already will be.
LEMMA LineRead ==
    ASSUME PiTypeOK, rpc # <<>>, rpc' = Tail(rpc),
           server'.dialog => Head(rpc) = "dialog" \/ (Head(rpc) = "update" /\ server.dialog)
    PROVE  /\ Opens' => Opens
           /\ IF rpc' = <<>> THEN rpc[Len(rpc)] = Head(rpc) ELSE rpc'[Len(rpc')] = rpc[Len(rpc)]
<1>0. rpc \in Seq(Rpc) /\ rpc # <<>> /\ rpc' = Tail(rpc)
  BY ReadParts
<1>1. /\ rpc \in Seq(Rpc) /\ Len(rpc) \in Nat /\ Len(rpc) >= 1 /\ Len(rpc') = Len(rpc) - 1
      /\ Head(rpc) = rpc[1] /\ \A i \in 1 .. Len(rpc') : rpc'[i] = rpc[i + 1]
  BY <1>0
<1>2. rpc' = <<>> <=> Len(rpc) = 1
  <2>1. rpc' \in Seq(Rpc)
    BY <1>0
  <2>2. Len(rpc') = 0 <=> rpc' = <<>>
    BY <2>1, EmptySeq
  <2>. QED
    BY <1>1, <2>2
<1>3. IF rpc' = <<>> THEN rpc[Len(rpc)] = Head(rpc) ELSE rpc'[Len(rpc')] = rpc[Len(rpc)]
  BY <1>1, <1>2
<1>4. \A j \in 2 .. Len(rpc) : j - 1 \in 1 .. Len(rpc') /\ rpc'[j - 1] = rpc[j]
  BY <1>1
<1>5. ASSUME server'.dialog, \A i \in 1 .. Len(rpc') : rpc'[i] # "agentEnd"
      PROVE  Opens
  <2>1. \A j \in 2 .. Len(rpc) : rpc[j] # "agentEnd"
    BY <1>4, <1>5
  <2>2. rpc[1] # "agentEnd" /\ (rpc[1] = "dialog" \/ server.dialog) /\ 1 \in 1 .. Len(rpc)
    BY <1>1, <1>5
  <2>3. \A j \in 1 .. Len(rpc) : j = 1 \/ j \in 2 .. Len(rpc)
    BY <1>1
  <2>4. \A j \in 1 .. Len(rpc) : rpc[j] # "agentEnd"
    BY <2>1, <2>2, <2>3
  <2>. QED
    BY <2>2, <2>4 DEF Opens
<1>6. ASSUME NEW i \in 1 .. Len(rpc'), rpc'[i] = "dialog", \A j \in i .. Len(rpc') : rpc'[j] # "agentEnd"
      PROVE  Opens
  <2>1. i + 1 \in 1 .. Len(rpc) /\ rpc[i + 1] = "dialog"
    BY <1>1, <1>6
  <2>2. \A j \in i + 1 .. Len(rpc) : j \in 2 .. Len(rpc) /\ j - 1 \in i .. Len(rpc')
    BY <1>1, <1>6
  <2>3. \A j \in i + 1 .. Len(rpc) : rpc[j] # "agentEnd"
    BY <1>4, <1>6, <2>2
  <2>. QED
    BY <2>1, <2>3 DEF Opens
<1>. QED
  BY <1>3, <1>5, <1>6 DEF Opens

------------------------------------------------------------

-----------------------------------------------------------------------------
(* What the server reads.                                                      *)

\* A status that is applied is the server's.
LEMMA AppliedHook ==
    ASSUME NEW status, NEW dialog, Apply(status, dialog)
    PROVE  server'.hook = status /\ server'.dialog = dialog
  BY DEF Apply

\* The sync file is opened: what it will say is what it carries now.
LEMMA BeginReadSyncFollows ==
    ASSUME SInv, BeginReadSync
    PROVE  Follows'
<1>1. /\ PiTypeOK /\ sync'.status = sync.status /\ sync'.unread = FALSE /\ sync'.reading = sync.status
      /\ UNCHANGED <<mode, pi, jsonl, emitted, watcher, rpc, typed, server, stale>>
  BY SInvParts DEF BeginReadSync, PiTypeOK
<1>2. Told' = Told /\ NewsEnds' = NewsEnds
  BY <1>1, ToldKept
<1>3. ReportsFollow' /\ LinesFollow' /\ OnTheWay'
  BY <1>1, SInvParts DEF ReportsFollow, LinesFollow, OnTheWay, Opens
<1>4. ReadingFollows'
  <2>1. sync.status \in Statuses /\ None \in Statuses
    BY <1>1, ReadParts DEF Statuses
  <2>2. ReportsFollow
    BY SInvParts
  <2>. QED
    BY <1>1, <2>1, <2>2 DEF ReportsFollow, ReadingFollows, Between, None
<1>5. pi.doing = "idle" /\ pi.hook = "completed" => sync'.reading = "completed"
  BY <1>1, SInvParts DEF ReportsFollow, Between
<1>6. StatusFollows'
  BY <1>1, <1>2, <1>5, SInvParts DEF StatusFollows
<1>. QED
  BY <1>2, <1>3, <1>4, <1>6, SInvParts

\* What was read is applied: it is what the session file says, or will.
LEMMA ReadSyncFollows ==
    ASSUME SInv, ReadSync
    PROVE  Follows'
<1>1. /\ PiTypeOK /\ sync'.status = sync.status /\ sync'.unread = sync.unread
      /\ sync'.reading = "no" /\ sync.reading # "no"
      /\ UNCHANGED <<mode, pi, jsonl, emitted, rpc, typed, stale>>
  BY SInvParts DEF PiTypeOK, ReadSync
<1>2. /\ server'.dialog = server.dialog
      /\ server'.hook = IF sync.reading = None THEN server.hook ELSE sync.reading
  BY AppliedHook DEF ReadSync
<1>3. ReportsFollow' /\ LinesFollow' /\ OnTheWay'
  BY <1>1, <1>2, SInvParts DEF ReportsFollow, LinesFollow, OnTheWay, Opens
<1>4. ReadingFollows'
  BY <1>1 DEF ReadingFollows
<1>5. NewsEnds' /\ (ToldLater => Told') /\ (server'.hook = server.hook => Told' = Told)
  BY <1>1, ToldKept, SInvParts
<1>6. CASE sync.reading = None
  <2>1. Told' = Told
    BY <1>2, <1>5, <1>6
  <2>2. sync.reading # "completed"
    BY <1>6 DEF None
  <2>3. StatusFollows'
    BY <1>1, <1>2, <1>6, <2>1, <2>2, SInvParts DEF StatusFollows
  <2>. QED
    BY <1>3, <1>4, <1>5, <2>3, SInvParts
<1>7. CASE sync.reading = "working"
  <2>1. pi.doing \in {"started", "thinking"} /\ server'.hook = "working"
    BY <1>2, <1>7, SInvParts DEF ReadingFollows, None
  <2>2. pi.written => Told'
    BY <1>1, <2>1, SInvParts DEF LinesFollow, AtWork, Told
  <2>3. StatusFollows'
    BY <1>1, <2>1, <2>2 DEF StatusFollows, Between
  <2>. QED
    BY <1>3, <1>4, <1>5, <2>3, SInvParts
<1>8. CASE sync.reading = "needsInput"
  <2>1. pi.doing \in {"calling", "asking"} /\ server'.hook = "needsInput"
    BY <1>2, <1>8, SInvParts DEF ReadingFollows, None
  <2>2. pi.written /\ Told'
    BY <1>1, <2>1, SInvParts DEF LinesFollow, AtQuestion, Told
  <2>3. StatusFollows'
    BY <1>1, <2>1, <2>2 DEF StatusFollows, Between
  <2>. QED
    BY <1>3, <1>4, <1>5, <2>3, SInvParts
<1>9. CASE sync.reading = "completed"
  <2>1. server'.hook = "completed"
    BY <1>2, <1>9 DEF None
  <2>2. CASE pi.doing \in {"idle", "submitted"} /\ pi.hook = "completed"
    <3>1. pi.written /\ pi.last # "working"
      BY <2>2, SInvParts DEF LinesFollow, Ends
    <3>2. StatusFollows'
      BY <1>1, <2>1, <2>2, <3>1 DEF StatusFollows, Between, AtWork, Ends
    <3>. QED
      BY <1>3, <1>4, <1>5, <3>2, SInvParts
  <2>3. CASE pi.doing \in {"started", "thinking"} /\ ToldLater /\ pi.written
    <3>1. Told'
      BY <1>5, <2>3
    <3>2. StatusFollows'
      BY <1>1, <2>3, <3>1 DEF StatusFollows, Between
    <3>. QED
      BY <1>3, <1>4, <1>5, <3>2, SInvParts
  <2>. QED
    BY <1>9, <2>2, <2>3, SInvParts DEF ReadingFollows
<1>. QED
  BY <1>1, <1>6, <1>7, <1>8, <1>9, SInvParts DEF ReadingFollows

\* A line of the session file is read.
LEMMA RescanFollows ==
    ASSUME SInv, Rescan
    PROVE  Follows'
<1>1. /\ Told => Told'
      /\ server'.hook = server.hook \/ Told'
      /\ LinesFollow' /\ NewsEnds' /\ server'.dialog = server.dialog /\ pi.written
      /\ UNCHANGED <<mode, pi, sync, rpc, typed, stale, piLeft>>
  BY ReadTells, SInvParts
<1>2. ReportsFollow' /\ OnTheWay'
  BY <1>1, SInvParts DEF ReportsFollow, OnTheWay, Opens
<1>3. ReadingFollows'
  BY <1>1, SInvParts DEF ReadingFollows, Rescan
<1>4. StatusFollows'
  BY <1>1, SInvParts DEF StatusFollows
<1>. QED
  BY <1>1, <1>2, <1>3, <1>4, SInvParts

\* A line of the RPC mode: the last one on its way says what Pi does.
LEMMA ReadRpcFollows ==
    ASSUME SInv, ReadRpc
    PROVE  Follows'
<1>1. /\ PiTypeOK /\ rpc # <<>> /\ rpc' = Tail(rpc)
      /\ UNCHANGED <<mode, pi, sync, jsonl, emitted, watcher, typed, stale, piLeft>>
  BY SInvParts DEF ReadRpc
<1>2. rpc \in Seq(Rpc) /\ Head(rpc) \in Rpc
  BY <1>1, ReadParts
<1>3. /\ Head(rpc) = "update" => \/ server.dialog /\ server' = server
                                 \/ ~server.dialog /\ server'.hook = "working" /\ server'.dialog = FALSE
      /\ Head(rpc) = "agentEnd" => server'.hook = "completed" /\ server'.dialog = FALSE
      /\ Head(rpc) = "dialog" => server'.hook = "needsInput" /\ server'.dialog = TRUE
  BY AppliedHook DEF ReadRpc
<1>4. /\ Opens' => Opens
      /\ IF rpc' = <<>> THEN rpc[Len(rpc)] = Head(rpc) ELSE rpc'[Len(rpc')] = rpc[Len(rpc)]
  BY <1>1, <1>2, <1>3, LineRead DEF Rpc
<1>5. mode = "rpc" /\ ~typed
  BY <1>1, ReadParts, SInvParts DEF OnTheWay
<1>6. ReportsFollow' /\ LinesFollow' /\ NewsEnds'
  BY <1>1, ToldKept, SInvParts DEF ReportsFollow, LinesFollow
<1>a. ReadingFollows'
  BY <1>1, ToldKept, SInvParts DEF ReadingFollows
<1>7. OnTheWay'
  BY <1>1, <1>4, <1>5, SInvParts DEF OnTheWay
<1>8. CASE rpc' = <<>>
  <2>1. Head(rpc) = rpc[Len(rpc)]
    BY <1>4, <1>8
  <2>2. ASSUME pi.doing \in AtWork
        PROVE  server'.hook = "working"
    <3>1. Head(rpc) = "update"
      BY <1>1, <2>1, <2>2, SInvParts DEF OnTheWay
    <3>2. ~Opens
      BY <2>2, SInvParts DEF OnTheWay, AtWork
    <3>a. rpc \in Seq(Rpc) /\ rpc # <<>> /\ Tail(rpc) = <<>>
      BY <1>1, <1>2, <1>8
    <3>b. Len(rpc) - 1 = 0 /\ Len(rpc) \in Nat /\ Head(rpc) = rpc[1]
      <4>1. Len(Tail(rpc)) = Len(rpc) - 1
        BY <3>a, HeadTailProperties
      <4>2. Len(Tail(rpc)) = 0
        BY <3>a, EmptySeq
      <4>. QED
        BY <3>a, <4>1, <4>2
    <3>3. Len(rpc) = 1 /\ rpc[1] = "update"
      BY <3>1, <3>b
    <3>4. \A i \in 1 .. Len(rpc) : rpc[i] # "agentEnd"
      BY <3>3
    <3>5. ~server.dialog
      BY <3>2, <3>4 DEF Opens
    <3>. QED
      BY <1>3, <3>1, <3>5
  <2>3. ASSUME pi.doing = "asking"
        PROVE  server'.hook = "needsInput"
    BY <1>1, <1>3, <2>1, <2>3, SInvParts DEF OnTheWay
  <2>4. ASSUME pi.doing = "idle"
        PROVE  server'.hook = "completed"
    BY <1>1, <1>3, <2>1, <2>4, SInvParts DEF OnTheWay
  <2>5. pi.written /\ pi.doing \in AtWork \cup {"asking"} => Told'
    BY <1>1, <2>2, <2>3, SInvParts DEF LinesFollow, AtQuestion, Told
  <2>6. StatusFollows'
    BY <1>1, <1>5, <2>2, <2>4, <2>5 DEF StatusFollows, AtWork, Ends
  <2>. QED
    BY <1>6, <1>a, <1>7, <2>6, SInvParts
<1>9. CASE rpc' # <<>>
  <2>1. StatusFollows'
    BY <1>1, <1>5, <1>9 DEF StatusFollows
  <2>. QED
    BY <1>6, <1>a, <1>7, <2>1, SInvParts
<1>. QED
  BY <1>8, <1>9

\* A typed prompt means work.
LEMMA NotifyFollows ==
    ASSUME SInv, NotifyPrompt
    PROVE  Follows'
<1>1. /\ PiTypeOK /\ server'.hook = "working" /\ server'.dialog = server.dialog /\ typed' = FALSE /\ typed
      /\ UNCHANGED <<mode, pi, sync, jsonl, emitted, watcher, rpc, stale, piLeft>>
  BY AppliedHook, SInvParts DEF NotifyPrompt, PromptStatus
<1>2. /\ pi.doing \in {"idle", "submitted", "started", "thinking", "answered"}
      /\ pi.doing = "idle" => stale
  BY <1>1, SInvParts DEF OnTheWay
<1>3. ReportsFollow' /\ LinesFollow' /\ NewsEnds'
  BY <1>1, ToldKept, SInvParts DEF ReportsFollow, LinesFollow
<1>a. ReadingFollows'
  BY <1>1, ToldKept, SInvParts DEF ReadingFollows
<1>4. OnTheWay'
  BY <1>1, SInvParts DEF OnTheWay, Opens
<1>5. pi.last = "working" => Told'
  BY <1>1 DEF Told
<1>6. pi.written /\ pi.doing \in {"started", "thinking"} => pi.last = "working"
  BY SInvParts DEF LinesFollow, AtWork
<1>7. StatusFollows'
  BY <1>1, <1>2, <1>5, <1>6 DEF StatusFollows, AtWork
<1>. QED
  BY <1>3, <1>a, <1>4, <1>7, SInvParts

\* Who asks has answered before.
LEMMA AskedOfPi ==
    ASSUME LinesFollow
    PROVE  pi.doing \in {"question", "calling", "asking"} => pi.written
  BY DEF LinesFollow

\* What the terminal shows is only believed before anything else is known, and what the
\* client does by itself changes nothing here.
LEMMA OutputFollows ==
    ASSUME SInv, Output \/ ClientStep \/ PiTick
    PROVE  Follows'
<1>1. /\ PiTypeOK /\ server'.dialog = server.dialog
      /\ server'.hook = server.hook \/ (server.hook = None /\ server'.hook = "working")
      /\ UNCHANGED <<mode, pi, sync, jsonl, emitted, watcher, rpc, typed, stale>>
  <2>1. CASE Output
    BY <2>1, AppliedHook, SInvParts DEF Output, Infers
  <2>2. CASE ClientStep \/ PiTick
    BY <2>2, ClientType, SInvParts
  <2>. QED
    BY <2>1, <2>2
<1>2. ReportsFollow' /\ LinesFollow' /\ OnTheWay' /\ NewsEnds'
  BY <1>1, ToldKept, SInvParts DEF ReportsFollow, LinesFollow, OnTheWay, Opens
<1>a. ReadingFollows'
  BY <1>1, ToldKept, SInvParts DEF ReadingFollows
<1>3. pi.written /\ Told => Told'
  <2>1. pi.written => pi.last # None
    BY SInvParts DEF LinesFollow
  <2>. QED
    BY <1>1, <2>1, ToldKept DEF Told
<1>4. pi.last = "working" => pi.written
  BY SInvParts DEF LinesFollow, None
<1>5. StatusFollows'
  <2>1. CASE server'.hook = server.hook
    <3>1. Told' = Told
      BY <1>1, <2>1, ToldKept
    <3>. QED
      BY <1>1, <2>1, <3>1, SInvParts DEF StatusFollows
  <2>2. CASE server.hook = None /\ server'.hook = "working"
    <3>1. pi.hook = "completed" => pi.written
      BY SInvParts DEF LinesFollow
    <3>2. server.hook \notin Ends
      BY <2>2 DEF Ends, None
    <3>3. StatusFollows /\ LinesFollow
      BY SInvParts
    <3>. QED
      BY <1>1, <1>3, <1>4, <2>2, <3>1, <3>2, <3>3, AskedOfPi DEF StatusFollows
  <2>. QED
    BY <1>1, <2>1, <2>2
<1>. QED
  BY <1>2, <1>a, <1>5, SInvParts
-----------------------------------------------------------------------------
(* What Pi does.                                                               *)

\* A readFile that takes as long as nobody answers or writes says nothing of what they do.
LEMMA SlowReads ==
    ASSUME SInv, IsSlow, sync'.reading = sync.reading
    PROVE  ReadingFollows'
  BY DEF IsSlow, ReadingFollows

\* Of a step that writes nothing to the session file.
LEMMA QuietKeeps ==
    ASSUME SInv, UNCHANGED <<jsonl, emitted, server>>, pi'.last = pi.last
    PROVE  NewsEnds' /\ Told' = Told /\ ToldLater' = ToldLater
  BY ToldKept, SInvParts

\* A prompt is typed, or sent.
LEMMA SubmitFollows ==
    ASSUME SInv, Submit
    PROVE  Follows'
<1>1. /\ PiTypeOK /\ pi.doing = "idle" /\ UNCHANGED <<mode, sync, jsonl, emitted, rpc, server>>
      /\ typed' => mode = "terminal"
      /\ mode = "terminal" => typed'
      /\ pi'.doing = "submitted" /\ pi'.hook = pi.hook /\ pi'.written = pi.written
      /\ pi'.held = pi.held /\ pi'.last = pi.last
  <2>1. PiTypeOK /\ pi.doing = "idle" /\ Goes("submitted", pi.hook)
        /\ UNCHANGED <<mode, sync, jsonl, emitted, rpc, server>>
    BY SInvParts DEF Submit, Goes
  <2>2. IsSlow /\ (typed' => mode = "terminal") /\ (mode = "terminal" => typed')
    BY Zenon DEF Submit
  <2>. QED
    BY <2>1, <2>2, GoesFields
<1>2. ReportsFollow' /\ LinesFollow'
  <2>1. ReportsFollow'
    BY <1>1, SInvParts DEF ReportsFollow, Between, AtWork
  <2>2. LinesFollow'
    BY <1>1, SInvParts DEF LinesFollow, Between, AtWork, AtQuestion
  <2>. QED
    BY <2>1, <2>2
<1>3. OnTheWay'
  BY <1>1, SInvParts DEF OnTheWay, Opens, AtWork
<1>4. NewsEnds' /\ Told' = Told /\ ReadingFollows'
  BY <1>1, QuietKeeps, SlowReads DEF Submit
<1>5. StatusFollows'
  BY <1>1, <1>4, SInvParts DEF StatusFollows, Between, AtWork
<1>. QED
  BY <1>2, <1>3, <1>4, <1>5, SInvParts

\* A line is typed that starts no turn.
LEMMA TypeCommandFollows ==
    ASSUME SInv, TypeCommand
    PROVE  Follows'
<1>1. /\ mode = "terminal" /\ pi.doing = "idle" /\ stale' = TRUE
      /\ UNCHANGED <<mode, pi, sync, jsonl, emitted, watcher, rpc, server>>
  BY DEF TypeCommand
<1>2. NewsEnds' /\ Told' = Told /\ ToldLater' = ToldLater
  BY <1>1, QuietKeeps
<1>3. ReportsFollow' /\ LinesFollow' /\ ReadingFollows'
  BY <1>1, <1>2, SInvParts DEF ReportsFollow, LinesFollow, ReadingFollows
<1>4. OnTheWay'
  BY <1>1, SInvParts DEF OnTheWay, Opens
<1>5. StatusFollows'
  BY <1>1, <1>2, SInvParts DEF StatusFollows, AtWork
<1>. QED
  BY <1>2, <1>3, <1>4, <1>5, SInvParts

\* The turn begins; its first line is held back if Pi has not answered before.
LEMMA StartAgentFollows ==
    ASSUME SInv, StartAgent
    PROVE  Follows'
<1>1. /\ PiTypeOK /\ pi.doing = "submitted" /\ UNCHANGED <<mode, emitted, server, typed>>
      /\ Line("working", FALSE) /\ Becomes("started", "working", "working", FALSE)
      /\ Sends("update") /\ SetHook("working")
  BY SInvParts DEF StartAgent, Silent
<1>2. /\ pi.hook \in {None, "completed"} /\ sync'.status = "working" /\ sync'.reading = sync.reading
  BY <1>1, SetHookFields, SInvParts DEF ReportsFollow, Between, None
<1>3. /\ mode' = "terminal" => rpc' = <<>> /\ ~server'.dialog
      /\ mode = "rpc" => rpc' # <<>>
      /\ rpc' # <<>> => rpc'[Len(rpc')] = "update"
      /\ ~Opens'
  <2>1. ~Opens
    BY <1>1, SInvParts DEF OnTheWay
  <2>. QED
    BY <1>1, <2>1, LineSent, SInvParts DEF OnTheWay, Rpc
<1>4. typed => mode = "terminal"
  BY SInvParts DEF OnTheWay
<1>5. CASE pi.written
  <2>1. /\ pi'.doing = "started" /\ pi'.hook = "working" /\ pi'.written = TRUE
        /\ pi'.held = <<>> /\ pi'.last = "working"
    BY <1>1, <1>5, BecomesFields
  <2>2. /\ jsonl' # <<>> /\ jsonl'[Len(jsonl')] = "working"
        /\ "working" # pi.last \/ ToldLater => ToldLater'
        /\ "working" # pi.last \/ Told => Told'
        /\ NewsEnds'
        /\ sync.reading # "no" => watcher' = "held"
    BY <1>1, <1>5, <2>1, LineTells, SInvParts DEF Statuses
  <2>3. ReportsFollow' /\ LinesFollow'
    BY <1>2, <2>1, <2>2 DEF ReportsFollow, LinesFollow, Between, AtWork, AtQuestion, None
  <2>a. ReadingFollows'
    <3>1. pi.hook = "completed" => ToldLater'
      BY <1>5, <2>2, SInvParts DEF LinesFollow, Ends
    <3>2. sync.reading \in {"no", None} \/ (sync.reading = "completed" /\ pi.hook = "completed")
      BY <1>1, SInvParts DEF ReadingFollows
    <3>. QED
      BY <1>2, <2>1, <2>2, <3>1, <3>2 DEF ReadingFollows, None
  <2>4. OnTheWay'
    BY <1>1, <1>3, <1>4, <2>1 DEF OnTheWay
  <2>5. mode = "terminal" => Told'
    BY <1>1, <2>2, SInvParts DEF StatusFollows, Between
  <2>6. rpc' = <<>> => mode = "terminal"
    BY <1>1, <1>3, ReadParts
  <2>7. StatusFollows'
    BY <1>1, <2>1, <2>5, <2>6 DEF StatusFollows, Between
  <2>. QED
    BY <2>2, <2>3, <2>a, <2>4, <2>7, SInvParts
<1>6. CASE ~pi.written
  <2>1. jsonl' = jsonl /\ jsonl = <<>> /\ pi.held = <<>> /\ emitted = None /\ pi.last = None
        /\ pi.hook # "completed"
    BY <1>1, <1>6, SInvParts DEF Line, LinesFollow, Between
  <2>2. /\ pi'.doing = "started" /\ pi'.hook = "working" /\ pi'.written = FALSE
        /\ pi'.held = Append(pi.held, "working") /\ pi'.last = pi.last
    BY <1>1, <1>6, ReadParts DEF Becomes
  <2>3. pi'.held = <<"working">>
    BY <2>1, <2>2
  <2>4. ReportsFollow' /\ LinesFollow' /\ NewsEnds'
    BY <1>1, <1>2, <2>1, <2>2, <2>3, QuietKeeps
       DEF ReportsFollow, LinesFollow, Between, AtWork, AtQuestion, None
  <2>a. ReadingFollows'
    <3>1. sync.reading \in {"no", None}
      BY <1>1, <2>1, SInvParts DEF ReadingFollows
    <3>. QED
      BY <1>2, <3>1 DEF ReadingFollows, None
  <2>5. OnTheWay'
    BY <1>1, <1>3, <1>4, <2>2 DEF OnTheWay
  <2>6. rpc' = <<>> => mode = "terminal"
    BY <1>1, <1>3, ReadParts
  <2>7. StatusFollows'
    BY <1>1, <1>6, <2>2, <2>6, SInvParts DEF StatusFollows, Between
  <2>. QED
    BY <2>4, <2>a, <2>5, <2>7, SInvParts
<1>. QED
  BY <1>5, <1>6

\* The report of the turn is overwritten before it need have been read.
LEMMA RequestProviderFollows ==
    ASSUME SInv, RequestProvider
    PROVE  Follows'
<1>1. /\ PiTypeOK /\ pi.doing = "started" /\ UNCHANGED <<mode, jsonl, emitted, watcher, rpc, typed, server>>
      /\ sync'.status = None /\ sync'.reading = sync.reading
      /\ pi'.doing = "thinking" /\ pi'.hook = pi.hook /\ pi'.written = pi.written
      /\ pi'.held = pi.held /\ pi'.last = pi.last
  BY GoesFields, WritePlainFields, SInvParts DEF RequestProvider, Silent
<1>2. ReportsFollow' /\ LinesFollow'
  BY <1>1, SInvParts DEF ReportsFollow, LinesFollow, Between, AtWork, AtQuestion
<1>3. OnTheWay'
  BY <1>1, SInvParts DEF OnTheWay, Opens, AtWork
<1>4. NewsEnds' /\ Told' = Told /\ ToldLater' = ToldLater
  BY <1>1, QuietKeeps
<1>a. ReadingFollows'
  BY <1>1, <1>4, SInvParts DEF ReadingFollows
<1>5. StatusFollows'
  BY <1>1, <1>4, SInvParts DEF StatusFollows, Between, AtWork
<1>. QED
  BY <1>2, <1>3, <1>4, <1>a, <1>5, SInvParts

\* An answer of the assistant, the first of the session or a later one.
LEMMA ReplyFollows ==
    ASSUME SInv, NEW next \in {"ending", "tool", "question"}, Reply(next)
    PROVE  Follows'
<1>1. PICK status \in MessageStatus(next) : Line(status, TRUE) /\ Becomes(next, pi.hook, status, TRUE)
  BY DEF Reply
<1>2. /\ PiTypeOK /\ pi.doing = "thinking" /\ ~typed /\ UNCHANGED <<mode, sync, emitted, server, typed>>
      /\ Sends("update") /\ IsSlow
  BY SInvParts DEF Reply, Silent
<1>3. /\ status \in Statuses
      /\ next = "tool" => status = "working"
      /\ next = "question" => status = "needsInput"
      /\ next = "ending" => status \in Ends
  BY <1>1 DEF MessageStatus, Statuses, Ends
<1>4. /\ pi'.doing = next /\ pi'.hook = pi.hook /\ pi'.written = TRUE /\ pi'.held = <<>> /\ pi'.last = status
  BY <1>1, <1>2, BecomesFields
<1>5. /\ mode' = "terminal" => rpc' = <<>> /\ ~server'.dialog
      /\ mode = "rpc" => rpc' # <<>>
      /\ rpc' # <<>> => rpc'[Len(rpc')] = "update"
      /\ ~Opens'
  <2>1. ~Opens
    BY <1>2, SInvParts DEF OnTheWay
  <2>. QED
    BY <1>2, <2>1, LineSent, SInvParts DEF OnTheWay, Rpc
<1>6. rpc' = <<>> => mode = "terminal" /\ rpc = <<>>
  BY <1>2, <1>5, ReadParts, SInvParts DEF OnTheWay
<1>7. /\ jsonl' # <<>> /\ jsonl'[Len(jsonl')] = status /\ NewsEnds'
      /\ mode = "terminal" => Told'
  <2>1. CASE pi.written
    <3>1. /\ jsonl' # <<>> /\ jsonl'[Len(jsonl')] = status /\ NewsEnds'
          /\ status # pi.last \/ Told => Told'
      BY <1>1, <1>2, <1>3, <1>4, <2>1, LineTells, SInvParts
    <3>2. mode = "terminal" => Told
      BY <1>2, <2>1, SInvParts DEF OnTheWay, StatusFollows, AtWork
    <3>. QED
      BY <3>1, <3>2
  <2>2. CASE ~pi.written
    BY <1>1, <1>2, <1>3, <1>4, <2>2, FirstAnswerTells, SInvParts
  <2>. QED
    BY <2>1, <2>2
<1>8. pi.hook = "working" /\ sync'.status = None
  BY <1>2, SInvParts DEF ReportsFollow, AtWork, Between
<1>9. ReportsFollow' /\ ReadingFollows'
  BY <1>2, <1>4, <1>8, SlowReads DEF ReportsFollow, Between, AtWork, AtQuestion, None
<1>10. LinesFollow'
  BY <1>3, <1>4, <1>7, <1>8 DEF LinesFollow, AtWork, AtQuestion, Ends, None
<1>11. OnTheWay'
  BY <1>2, <1>4, <1>5 DEF OnTheWay, AtWork
<1>12. StatusFollows'
  BY <1>2, <1>4, <1>6, <1>7 DEF StatusFollows, Between, AtWork
<1>. QED
  BY <1>7, <1>9, <1>10, <1>11, <1>12, SInvParts

\* A tool is started, or a question asked.
LEMMA StartToolFollows ==
    ASSUME SInv, StartTool
    PROVE  Follows'
<1>. DEFINE asks == pi.doing = "question"
            hook == IF asks THEN "needsInput" ELSE "working"
            doing == IF asks THEN "calling" ELSE "asked"
<1>1. /\ PiTypeOK /\ pi.doing \in {"tool", "question"} /\ UNCHANGED <<mode, emitted, typed, server>>
      /\ SetHook(hook) /\ Goes(doing, hook) /\ Sends("update")
  BY SInvParts DEF StartTool, Silent
<1>2. pi.hook = "working" /\ sync.status = None
  BY <1>1, SInvParts DEF ReportsFollow, AtWork, Between
<1>3. /\ pi'.doing = doing /\ pi'.hook = hook /\ pi'.written = pi.written
      /\ pi'.held = pi.held /\ pi'.last = pi.last /\ jsonl' = jsonl
  BY <1>1, GoesFields
<1>4. sync'.status = (IF asks THEN "needsInput" ELSE None) /\ sync'.reading = sync.reading
  <2>1. sync'.status = (IF pi.hook = hook THEN None ELSE hook) /\ sync'.reading = sync.reading
    BY <1>1, SetHookFields
  <2>. QED
    BY <1>2, <2>1
<1>5. /\ mode' = "terminal" => rpc' = <<>> /\ ~server'.dialog
      /\ mode = "rpc" => rpc' # <<>>
      /\ rpc' # <<>> => rpc'[Len(rpc')] = "update"
      /\ ~Opens'
  <2>1. ~Opens
    BY <1>1, SInvParts DEF OnTheWay
  <2>. QED
    BY <1>1, <2>1, LineSent, SInvParts DEF OnTheWay, Rpc
<1>6. rpc' = <<>> => mode = "terminal" /\ rpc = <<>>
  BY <1>1, <1>5, ReadParts, SInvParts DEF OnTheWay
<1>7. ~typed /\ pi.written
  BY <1>1, SInvParts DEF OnTheWay, LinesFollow
<1>8. Told' = Told /\ NewsEnds'
  BY <1>1, <1>3, QuietKeeps
<1>9. ReportsFollow'
  BY <1>1, <1>3, <1>4 DEF ReportsFollow, Between, AtWork, AtQuestion, None
<1>a. ReadingFollows'
  BY <1>1, <1>4, SInvParts DEF ReadingFollows
<1>10. LinesFollow'
  BY <1>1, <1>3, <1>7, SInvParts DEF LinesFollow, AtWork, AtQuestion
<1>11. OnTheWay'
  BY <1>1, <1>3, <1>5, <1>7 DEF OnTheWay, AtWork
<1>12. StatusFollows'
  BY <1>1, <1>3, <1>6, <1>7, <1>8, SInvParts DEF StatusFollows, Between, AtWork
<1>. QED
  BY <1>8, <1>9, <1>a, <1>10, <1>11, <1>12, SInvParts

\* The report of a question is overwritten; a dialog opens in the RPC mode.
LEMMA CallToolFollows ==
    ASSUME SInv, CallTool
    PROVE  Follows'
<1>1. /\ PiTypeOK /\ pi.doing \in {"asked", "calling"} /\ sync'.status = None
      /\ sync'.reading = sync.reading
      /\ UNCHANGED <<mode, emitted, typed, server>>
  BY WritePlainFields, SInvParts DEF CallTool, Silent
<1>2. ~typed /\ pi.written /\ ~Opens
  BY <1>1, SInvParts DEF OnTheWay, LinesFollow
<1>3. CASE pi.doing = "asked" /\ Goes("running", pi.hook) /\ UNCHANGED rpc
  <2>1. /\ pi'.doing = "running" /\ pi'.hook = pi.hook /\ pi'.written = pi.written
        /\ pi'.held = pi.held /\ pi'.last = pi.last /\ jsonl' = jsonl
    BY <1>1, <1>3, GoesFields
  <2>2. Told' = Told /\ NewsEnds'
    BY <1>1, <2>1, QuietKeeps
  <2>3. ReportsFollow' /\ LinesFollow'
    BY <1>1, <1>2, <1>3, <2>1, SInvParts DEF ReportsFollow, LinesFollow, Between, AtWork, AtQuestion
  <2>a. ReadingFollows'
    BY <1>1, <1>3, SInvParts DEF ReadingFollows
  <2>4. OnTheWay'
    BY <1>1, <1>2, <1>3, <2>1, SInvParts DEF OnTheWay, Opens, AtWork
  <2>5. StatusFollows'
    BY <1>1, <1>2, <1>3, <2>1, <2>2, SInvParts DEF StatusFollows, Between, AtWork
  <2>. QED
    BY <2>2, <2>3, <2>a, <2>4, <2>5, SInvParts
<1>4. ASSUME NEW doing \in {"gated", "asking"}, Goes(doing, pi.hook), Sends("dialog"),
             doing = "gated" => mode = "rpc" /\ pi.doing = "asked",
             doing = "asking" => pi.doing = "calling"
      PROVE  Follows'
  <2>1. /\ pi'.doing = doing /\ pi'.hook = pi.hook /\ pi'.written = pi.written
        /\ pi'.held = pi.held /\ pi'.last = pi.last /\ jsonl' = jsonl
    BY <1>1, <1>4, GoesFields
  <2>2. /\ mode' = "terminal" => rpc' = <<>> /\ ~server'.dialog
        /\ mode = "rpc" => rpc' # <<>>
        /\ rpc' # <<>> => rpc'[Len(rpc')] = "dialog"
    BY <1>1, <1>4, LineSent, SInvParts DEF OnTheWay, Rpc
  <2>3. rpc' = <<>> => mode = "terminal" /\ rpc = <<>>
    BY <1>1, <2>2, ReadParts, SInvParts DEF OnTheWay
  <2>4. Told' = Told /\ NewsEnds'
    BY <1>1, <2>1, QuietKeeps
  <2>5. ReportsFollow' /\ LinesFollow'
    BY <1>1, <1>2, <1>4, <2>1, SInvParts DEF ReportsFollow, LinesFollow, Between, AtWork, AtQuestion
  <2>a. ReadingFollows'
    BY <1>1, <1>4, <2>1, SInvParts DEF ReadingFollows
  <2>6. OnTheWay'
    <3>1. mode' = mode /\ mode \in {"terminal", "rpc"} /\ ~typed'
      BY <1>1, <1>2, ReadParts
    <3>. QED
      BY <1>4, <2>1, <2>2, <3>1 DEF OnTheWay, AtWork
  <2>7. StatusFollows'
    BY <1>1, <1>2, <1>4, <2>1, <2>3, <2>4, SInvParts DEF StatusFollows, Between, AtWork
  <2>. QED
    BY <2>4, <2>5, <2>a, <2>6, <2>7, SInvParts
<1>. QED
  BY <1>3, <1>4 DEF CallTool

\* The user answers.
LEMMA AnswerFollows ==
    ASSUME SInv, Answer
    PROVE  Follows'
<1>. DEFINE doing == IF pi.doing = "gated" THEN "running" ELSE "answered"
<1>1. /\ PiTypeOK /\ pi.doing \in {"asking", "gated"} /\ UNCHANGED <<mode, sync, emitted, rpc>>
      /\ pi'.doing = doing /\ pi'.hook = pi.hook /\ pi'.written = pi.written
      /\ pi'.held = pi.held /\ pi'.last = pi.last /\ jsonl' = jsonl /\ IsSlow
  BY GoesFields, SInvParts DEF Answer
<1>2. /\ rpc = <<>>
      /\ IF mode = "rpc" THEN server'.hook = "working" /\ server'.dialog = FALSE
         ELSE mode = "terminal" /\ server' = server /\ ~server.dialog
  BY <1>1, AppliedHook, ReadParts, SInvParts DEF Answer, OnTheWay
<1>3. ~typed /\ pi.written
  BY <1>1, SInvParts DEF OnTheWay, LinesFollow
<1>4. ReportsFollow' /\ LinesFollow'
  BY <1>1, <1>3, SInvParts DEF ReportsFollow, LinesFollow, Between, AtWork, AtQuestion
<1>a. NewsEnds' /\ ReadingFollows'
  BY <1>1, ToldKept, SlowReads, SInvParts
<1>5. ~Opens'
  <2>1. rpc' = <<>> /\ ~server'.dialog
    BY <1>1, <1>2
  <2>2. \A i \in 1 .. Len(rpc') : FALSE
    BY <2>1
  <2>. QED
    BY <2>1, <2>2 DEF Opens
<1>b. typed' => mode = "terminal" /\ pi.doing = "asking"
  BY <1>2, <1>3, SInvParts, <1>1 DEF Answer, OnTheWay
<1>6. OnTheWay'
  BY <1>1, <1>2, <1>b, <1>5 DEF OnTheWay
<1>7. pi.doing = "gated" => Told'
  <2>1. CASE mode = "rpc"
    BY <1>1, <1>2, <1>3, <2>1, SInvParts DEF LinesFollow, Told
  <2>2. CASE mode # "rpc"
    BY <1>1, <1>2, <2>2, SInvParts DEF OnTheWay
  <2>. QED
    BY <2>1, <2>2
<1>8. StatusFollows'
  BY <1>1, <1>3, <1>7 DEF StatusFollows, Between, AtWork
<1>. QED
  BY <1>4, <1>a, <1>6, <1>8, SInvParts

\* The tool's result is a line that says work.
LEMMA EndToolFollows ==
    ASSUME SInv, EndTool
    PROVE  Follows'
<1>. DEFINE hook == IF pi.doing = "answered" THEN "working" ELSE pi.hook
<1>1. /\ PiTypeOK /\ pi.doing \in {"running", "answered"}
      /\ UNCHANGED <<mode, emitted, rpc, typed, server>>
      /\ Line("working", TRUE) /\ Becomes("started", hook, "working", TRUE)
  BY SInvParts DEF EndTool, Silent
<1>2. /\ pi.written /\ ~Opens
      /\ typed => mode = "terminal"
  BY <1>1, SInvParts DEF OnTheWay, LinesFollow
<1>3. hook = "working"
  BY <1>1, SInvParts DEF ReportsFollow, AtWork
<1>4. sync'.status \in {None, "working"} /\ sync'.reading = sync.reading
  <2>1. CASE pi.doing = "answered"
    BY <1>1, <2>1, SetHookFields DEF EndTool
  <2>2. CASE pi.doing = "running"
    BY <2>2, SInvParts DEF ReportsFollow, EndTool, Between
  <2>. QED
    BY <1>1, <2>1, <2>2
<1>5. /\ pi'.doing = "started" /\ pi'.hook = "working" /\ pi'.written = TRUE
      /\ pi'.held = <<>> /\ pi'.last = "working"
  <2>. HIDE DEF hook
  <2>. QED
    BY <1>1, <1>2, <1>3, BecomesFields
<1>6. /\ jsonl' # <<>> /\ jsonl'[Len(jsonl')] = "working" /\ NewsEnds'
      /\ "working" # pi.last \/ Told => Told'
  BY <1>1, <1>2, <1>5, LineTells, SInvParts DEF Statuses
<1>7. rpc = <<>> => Told'
  BY <1>1, <1>2, <1>6, SInvParts DEF LinesFollow, StatusFollows, AtWork, AtQuestion
<1>8. ReportsFollow' /\ LinesFollow'
  BY <1>4, <1>5, <1>6 DEF ReportsFollow, LinesFollow, Between, AtWork, AtQuestion, None
<1>a. ReadingFollows'
  <2>1. sync.reading \in {"no", None}
    BY <1>1, SInvParts DEF ReadingFollows
  <2>. QED
    BY <1>4, <2>1 DEF ReadingFollows, None
<1>9. OnTheWay'
  BY <1>1, <1>2, <1>5, SInvParts DEF OnTheWay, Opens, AtWork
<1>10. StatusFollows'
  BY <1>1, <1>5, <1>7 DEF StatusFollows, Between, AtWork
<1>. QED
  BY <1>6, <1>8, <1>a, <1>9, <1>10, SInvParts

\* The turn is aborted, which is its last line.
LEMMA AbortFollows ==
    ASSUME SInv, Abort
    PROVE  Follows'
<1>1. /\ PiTypeOK /\ ~typed /\ pi.doing \in {"thinking", "running", "asking", "gated"}
      /\ UNCHANGED <<mode, sync, emitted, rpc, typed, server>> /\ IsSlow
      /\ Line("error", TRUE) /\ Becomes("ending", pi.hook, "error", TRUE)
  BY SInvParts DEF Abort, Silent
<1>2. pi.hook \in {"working", "needsInput"} /\ sync'.status = None
  BY <1>1, SInvParts DEF ReportsFollow, AtWork, Between
<1>3. /\ pi'.doing = "ending" /\ pi'.hook = pi.hook /\ pi'.written = TRUE
      /\ pi'.held = <<>> /\ pi'.last = "error"
  BY <1>1, BecomesFields
<1>4. jsonl' # <<>> /\ jsonl'[Len(jsonl')] = "error" /\ NewsEnds'
  <2>1. CASE pi.written
    BY <1>1, <1>3, <2>1, LineTells, SInvParts DEF Statuses
  <2>2. CASE ~pi.written
    <3>1. pi.doing = "thinking"
      BY <1>1, <2>2, SInvParts DEF LinesFollow
    <3>. QED
      BY <1>1, <1>3, <2>2, <3>1, FirstAnswerTells, SInvParts DEF Statuses
  <2>. QED
    BY <2>1, <2>2
<1>5. ReportsFollow' /\ LinesFollow' /\ ReadingFollows'
  BY <1>1, <1>2, <1>3, <1>4, SlowReads
     DEF ReportsFollow, LinesFollow, Between, AtWork, AtQuestion, Ends, None
<1>6. OnTheWay'
  BY <1>1, <1>3, SInvParts DEF OnTheWay, AtWork
<1>7. StatusFollows'
  BY <1>3 DEF StatusFollows, Between, AtWork
<1>. QED
  BY <1>4, <1>5, <1>6, <1>7, SInvParts

\* The turn ends.
LEMMA EndAgentFollows ==
    ASSUME SInv, EndAgent
    PROVE  Follows'
<1>1. /\ PiTypeOK /\ pi.doing = "ending" /\ UNCHANGED <<mode, emitted, typed, server>>
      /\ SetHook("completed") /\ Goes("idle", "completed") /\ Sends("agentEnd")
  BY SInvParts DEF EndAgent, Silent
<1>2. sync'.status = "completed" /\ sync'.unread = TRUE /\ sync'.reading = sync.reading
  BY <1>1, SetHookFields, SInvParts DEF ReportsFollow
<1>3. /\ pi'.doing = "idle" /\ pi'.hook = "completed" /\ pi'.written = pi.written
      /\ pi'.held = pi.held /\ pi'.last = pi.last /\ jsonl' = jsonl
  BY <1>1, GoesFields
<1>4. ~typed /\ pi.written /\ pi.last \in Ends
  BY <1>1, SInvParts DEF OnTheWay, LinesFollow
<1>5. /\ mode' = "terminal" => rpc' = <<>> /\ ~server'.dialog
      /\ rpc' # <<>> => rpc'[Len(rpc')] = "agentEnd"
      /\ ~Opens'
  BY <1>1, LineSent, SInvParts DEF OnTheWay, Rpc
<1>a. NewsEnds'
  BY <1>1, <1>3, QuietKeeps
<1>b. ReadingFollows'
  <2>1. sync.reading \in {"no", None}
    BY <1>1, SInvParts DEF ReadingFollows
  <2>. QED
    BY <1>2, <2>1 DEF ReadingFollows, None
<1>6. ReportsFollow' /\ LinesFollow'
  BY <1>1, <1>2, <1>3, <1>4, SInvParts DEF ReportsFollow, LinesFollow, Between, AtWork, AtQuestion
<1>7. OnTheWay'
  BY <1>1, <1>3, <1>4, <1>5 DEF OnTheWay, AtWork
<1>8. StatusFollows'
  BY <1>2, <1>3, <1>4 DEF StatusFollows, Between, AtWork, Ends
<1>. QED
  BY <1>a, <1>b, <1>6, <1>7, <1>8, SInvParts

\* The session starts again: its file, read from the start, ends with news of its last line.
LEMMA ResumeFollows ==
    ASSUME SInv, Resume
    PROVE  Follows'
<1>1. pi' = [doing |-> "starting", hook |-> None, written |-> TRUE, held |-> <<>>, last |-> pi.last,
             ended |-> pi.ended]
  BY DEF Resume, NewPi
<1>2. /\ pi.written /\ sync' = [status |-> None, unread |-> TRUE, reading |-> "no"]
      /\ emitted' = None /\ rpc' = <<>> /\ typed' = FALSE
      /\ server' = [hook |-> None, dialog |-> FALSE]
  BY DEF Resume, NewSync
<1>3. \A i \in 1 .. Len(rpc') : FALSE
  BY <1>2
<1>a. pi.last \in Statuses \ {None}
  BY <1>2, ReadParts, SInvParts DEF LinesFollow
<1>b. \/ pi.last # "completed" /\ jsonl' = <<"completed", "working", pi.last>>
      \/ jsonl' = <<"working", pi.last>>
  BY Zenon DEF Resume, Retold
<1>c. pi'.last = pi.last
  BY <1>1
<1>d. ASSUME pi.last # "completed", jsonl' = <<"completed", "working", pi.last>>
      PROVE  NewsEnds' /\ ToldLater' /\ jsonl' # <<>> /\ jsonl'[Len(jsonl')] = pi.last
  <2>1. /\ Len(jsonl') = 3 /\ jsonl'[1] = "completed" /\ jsonl'[2] = "working" /\ jsonl'[3] = pi.last
        /\ jsonl' # <<>>
    BY <1>d
  <2>2. 1 .. 3 = {1, 2, 3} /\ 2 .. 3 = {2, 3} /\ 1 + 1 = 2 /\ 2 + 1 = 3 /\ 3 .. 3 = {3}
    OBVIOUS
  <2>3. Emits(2)' /\ (pi.last # "working" => Emits(3)')
    BY <2>1 DEF Emits, Before
  <2>4. NewsEnds' /\ ToldLater' /\ jsonl' # <<>> /\ jsonl'[Len(jsonl')] = pi.last
    BY <1>c, <2>1, <2>2, <2>3 DEF NewsEnds, ToldLater
  <2>. QED
    BY <2>4
<1>e. ASSUME jsonl' = <<"working", pi.last>>
      PROVE  NewsEnds' /\ ToldLater' /\ jsonl' # <<>> /\ jsonl'[Len(jsonl')] = pi.last
  <2>1. /\ Len(jsonl') = 2 /\ jsonl'[1] = "working" /\ jsonl'[2] = pi.last
        /\ jsonl' # <<>>
    BY <1>e
  <2>2. 1 .. 2 = {1, 2} /\ 2 .. 2 = {2} /\ 1 + 1 = 2
    OBVIOUS
  <2>3. Emits(1)' /\ (pi.last # "working" => Emits(2)')
    BY <1>2, <2>1 DEF Emits, Before, None
  <2>4. NewsEnds' /\ ToldLater' /\ jsonl' # <<>> /\ jsonl'[Len(jsonl')] = pi.last
    BY <1>c, <2>1, <2>2, <2>3 DEF NewsEnds, ToldLater
  <2>. QED
    BY <2>4
<1>f. NewsEnds' /\ Told' /\ jsonl' # <<>> /\ jsonl'[Len(jsonl')] = pi.last
  BY <1>b, <1>d, <1>e DEF Told
<1>4. ReportsFollow' /\ ReadingFollows'
  BY <1>1, <1>2 DEF ReportsFollow, ReadingFollows, Between, AtWork
<1>5. LinesFollow'
  BY <1>1, <1>2, <1>a, <1>f DEF LinesFollow, AtWork, AtQuestion, None
<1>6. OnTheWay'
  BY <1>1, <1>2, <1>3 DEF OnTheWay, Opens
<1>7. StatusFollows'
  BY <1>1, <1>2, <1>f DEF StatusFollows, AtWork, None
<1>. QED
  BY <1>f, <1>4, <1>5, <1>6, <1>7, SInvParts

\* The process runs.
LEMMA StartProcessFollows ==
    ASSUME SInv, StartProcess
    PROVE  Follows'
<1>1. /\ PiTypeOK /\ pi.doing = "starting"
      /\ UNCHANGED <<mode, sync, jsonl, emitted, watcher, rpc, typed, server, stale>>
      /\ pi'.doing = "idle" /\ pi'.hook = pi.hook /\ pi'.written = pi.written
      /\ pi'.held = pi.held /\ pi'.last = pi.last
  BY GoesFields, SInvParts DEF StartProcess
<1>2. pi.hook = None /\ rpc = <<>> /\ ~typed /\ pi.written /\ ~Opens
  BY <1>1, SInvParts DEF ReportsFollow, OnTheWay, LinesFollow
<1>3. NewsEnds' /\ Told' = Told
  BY <1>1, QuietKeeps
<1>4. ReportsFollow' /\ LinesFollow'
  BY <1>1, <1>2, SInvParts DEF ReportsFollow, LinesFollow, Between, AtWork, AtQuestion
<1>5. ReadingFollows'
  BY <1>1, SInvParts DEF ReadingFollows
<1>6. OnTheWay'
  BY <1>1, <1>2, SInvParts DEF OnTheWay, Opens
<1>7. StatusFollows'
  BY <1>1, <1>2, <1>3, SInvParts DEF StatusFollows, Between, AtWork, None
<1>. QED
  BY <1>3, <1>4, <1>5, <1>6, <1>7, SInvParts

-----------------------------------------------------------------------------
(* The theorem.                                                                *)

\* A session that has just started has nothing to read.
LEMMA InitSInv == PiInit => SInv
<1>. SUFFICES ASSUME PiInit PROVE SInv
  OBVIOUS
<1>1. /\ pi = [doing |-> "idle", hook |-> None, written |-> FALSE, held |-> <<>>, last |-> None,
              ended |-> FALSE]
      /\ sync.status = None /\ sync.reading = "no" /\ jsonl = <<>> /\ emitted = None /\ rpc = <<>>
      /\ typed = FALSE /\ server.dialog = FALSE
  BY DEF PiInit, NewPi, NewSync
<1>2. (\A i \in 1 .. Len(rpc) : FALSE) /\ (\A i \in 1 .. Len(jsonl) : FALSE)
  BY <1>1
<1>3. ReportsFollow /\ ReadingFollows /\ LinesFollow
  BY <1>1 DEF ReportsFollow, ReadingFollows, LinesFollow, Between, AtWork, None
<1>4. OnTheWay /\ StatusFollows /\ NewsEnds
  BY <1>1, <1>2 DEF OnTheWay, Opens, StatusFollows, NewsEnds, AtWork, None
<1>. QED
  BY InitPiType, <1>3, <1>4, SInvParts

\* Every step keeps it.
LEMMA NextSInv == SInv /\ [PiNext]_piVars => SInv'
<1>. SUFFICES ASSUME SInv, [PiNext]_piVars PROVE SInv'
  OBVIOUS
<1>1. SUFFICES Follows'
  BY NextPiType DEF SInv
<1>2. CASE ServerStep \/ Rescan
  BY <1>2, BeginReadSyncFollows, ReadSyncFollows, RescanFollows, ReadRpcFollows, NotifyFollows
     DEF ServerStep
<1>3. CASE Output \/ ClientStep \/ PiTick
  BY <1>3, OutputFollows
<1>4. CASE PiStep
  BY <1>4, SubmitFollows, TypeCommandFollows, StartAgentFollows, RequestProviderFollows, ReplyFollows,
     StartToolFollows, CallToolFollows, AnswerFollows, EndToolFollows, AbortFollows, EndAgentFollows,
     ResumeFollows, StartProcessFollows DEF PiStep
<1>5. CASE UNCHANGED piVars
  <2>1. UNCHANGED <<mode, pi, sync, jsonl, emitted, watcher, rpc, typed, server, stale>>
    BY <1>5 DEF piVars
  <2>2. NewsEnds' /\ Told' = Told /\ ToldLater' = ToldLater
    BY <2>1, QuietKeeps
  <2>3. ReportsFollow' /\ ReadingFollows' /\ LinesFollow' /\ OnTheWay' /\ StatusFollows'
    BY <2>1, <2>2, SInvParts DEF ReportsFollow, ReadingFollows, LinesFollow, OnTheWay, Opens, StatusFollows
  <2>. QED
    BY <2>2, <2>3, SInvParts
<1>. QED
  BY <1>2, <1>3, <1>4, <1>5 DEF PiNext

\* Once all that Pi, its files, its RPC lines and the typed prompt said was read, the status
\* is what Pi does, although each source is read in its own time, the sync file is applied
\* after it was read, and reports overwrite or repeat one another
\* (hookStatusFromSessionJsonlLine, applyHookStatusIfChanged and the extension's setHookStatus).
THEOREM SpecStatusIsWhatPiDoes == PiSpec => []StatusIsWhatPiDoes
<1>1. SInv => StatusIsWhatPiDoes
  <2>. SUFFICES ASSUME SInv, AtRest
                PROVE  /\ pi.doing = "asking" => server.hook = "needsInput"
                       /\ pi.doing = "idle" /\ pi.hook = "completed" => server.hook \in {"completed", "error"}
                       /\ pi.doing \in {"thinking", "running"} => server.hook = "working"
    BY DEF StatusIsWhatPiDoes
  <2>1. jsonl = <<>> /\ rpc = <<>> /\ ~typed /\ ~sync.unread /\ sync.reading = "no" /\ ~stale
    BY DEF AtRest, AllRead
  <2>2. Told => server.hook = pi.last
    <3>1. \A i \in 1 .. Len(jsonl) : FALSE
      BY <2>1
    <3>. QED
      BY <3>1 DEF Told, ToldLater
  <2>3. LinesFollow /\ StatusFollows
    BY SInvParts
  <2>4. CASE pi.doing = "asking"
    BY <2>1, <2>2, <2>3, <2>4 DEF LinesFollow, StatusFollows, AtQuestion
  <2>5. CASE pi.doing \in {"thinking", "running"}
    BY <2>1, <2>2, <2>3, <2>5 DEF LinesFollow, StatusFollows, AtWork
  <2>6. CASE pi.doing = "idle" /\ pi.hook = "completed"
    BY <2>1, <2>2, <2>3, <2>6 DEF StatusFollows, LinesFollow, Ends
  <2>. QED
    BY <2>4, <2>5, <2>6
<1>. QED
  BY InitSInv, NextSInv, <1>1, PTL DEF PiSpec

================================================================================
