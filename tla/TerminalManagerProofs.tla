------------------------- MODULE TerminalManagerProofs -------------------------
(* No shell is lost, and a close stops what it was asked to, for any threads,      *)
(* terminals, configurations, shells and requests in progress, with failing cwd    *)
(* checks, spawns and writes, as long as no session is evicted (Room): a session   *)
(* evicted while it starts keeps a shell that no close reaches.  Then, as long as  *)
(* that, no history is lost, replaced by an older one or back after its deletion,  *)
(* for any edits and slow writes; writes that fail lose text, which only the first *)
(* of the two theorems on histories excludes.                                      *)
EXTENDS TerminalManager, FiniteSetTheorems, SequenceTheorems, TLAPS

Room == Cardinality(Session) <= MaxRetained

Closing == {"close", "closeAll"}
Starting == {"open", "restart"}
InProgress(c) == call[c].step \notin {"idle", "queued"}

Shape ==
    /\ sessions \in [Key -> Session \cup {NoSession}]
    /\ key \in [Session -> Key]
    /\ process \in [Session -> Shell \cup {NoShell}]
    /\ idle \in [Session -> Nat]
    /\ shell \in [Shell -> {"free", "running", "signalled", "dead"}]
    /\ call \in [Call -> CallState]
    /\ locks \in [Thread -> Seq(Call)]

\* A thread's lock queues its calls once each; who is past the queue holds it.
LocksHeld ==
    /\ \A th \in Thread : \A i, j \in 1..Len(locks[th]) :
          /\ call[locks[th][i]].step # "idle" /\ call[locks[th][i]].key[1] = th
          /\ locks[th][i] = locks[th][j] => i = j
    /\ \A c \in Call :
          /\ call[c].step # "idle" => \E i \in 1..Len(locks[call[c].key[1]]) :
                                          locks[call[c].key[1]][i] = c
          /\ InProgress(c) => Head(locks[call[c].key[1]]) = c

\* A session in the map is there under its own key, and only those have a process.
MapIn(sess, ky, proc) ==
    /\ \A k \in Key : sess[k] # NoSession => ky[sess[k]] = k
    /\ \A o \in Session : proc[o] # NoShell => sess[ky[o]] = o

\* NoLostShell, of given values of the variables.
ShellsIn(sess, proc, sh) ==
    \A p \in Shell : sh[p] = "running" =>
        \E k \in Key : sess[k] # NoSession /\ proc[sess[k]] = p

\* The steps of each operation.
StepFits(r) ==
    /\ r.op \in Closing => r.step \in {"queued", "closing", "flush", "delete"}
    /\ r.step \in {"closing", "delete"} => r.op \in Closing
    /\ r.step = "read" => r.op = "open"
    /\ r.step \in {"stat", "spawn"} => r.op \in Starting
    /\ r.step = "persist" => r.op \in Starting \cup {"clear"}
    /\ r.step = "flush" => r.op \in Closing \cup {"open"}

Targets(r) == IF r.op = "close" THEN {r.key} ELSE KeysOf(r.key[1])

\* What a call relies on while it holds the lock.
HoldsIn(r, sess, ky, proc) ==
    /\ r.step \in {"flush", "read"} /\ r.op = "open" => sess[r.key] = NoSession
    /\ r.step \in {"persist", "spawn"} /\ r.op \in Starting =>
          r.session \in Session /\ sess[r.key] = r.session
    /\ r.step = "spawn" \/ (r.step = "persist" /\ r.op = "restart") =>
          proc[r.session] = NoShell
    /\ r.step = "closing" =>
          /\ \A o \in r.left : sess[ky[o]] = o /\ ky[o] \in Targets(r)
          /\ \A k \in Targets(r) : sess[k] = NoSession \/ sess[k] \in r.left
    /\ r.step \in {"flush", "delete"} /\ r.op \in Closing =>
          \A k \in Targets(r) : sess[k] = NoSession

CallsFit == \A c \in Call : StepFits(call[c]) /\ HoldsIn(call[c], sessions, key, process)

IInv ==
    /\ Shape /\ LocksHeld /\ CallsFit
    /\ MapIn(sessions, key, process) /\ ShellsIn(sessions, process, shell)

\* Nothing is promised of a manager that was disposed.
Inv == disposed \/ IInv

-----------------------------------------------------------------------------
(* Keys, calls and the map.                                                    *)

LEMMA KeyType == ASSUME NEW k \in Key PROVE k[1] \in Thread
  BY DEF Key

LEMMA KeysOfType ==
    ASSUME NEW th \in Thread PROVE KeysOf(th) \subseteq Key /\ \A k \in KeysOf(th) : k[1] = th
  BY DEF KeysOf

LEMMA NoCallType == NoCall \in CallState /\ NoCall.step = "idle" /\ NoCall.op = "none"
<1>1. PICK th \in Thread, t \in TerminalId, cfg \in Config : TRUE
  BY ConstantsAssumption
<1>2. \A x \in Thread : KeysOf(x) # {} /\ SomeKey(x) \in Key
  <2>. TAKE x \in Thread
  <2>1. <<x, t>> \in KeysOf(x)
    BY <1>1 DEF KeysOf, Key
  <2>. QED
    BY <2>1 DEF SomeKey, KeysOf
<1>3. (CHOOSE x \in Thread : TRUE) \in Thread /\ SomeConfig \in Config
  BY ConstantsAssumption DEF SomeConfig
<1>. QED
  BY <1>2, <1>3 DEF NoCall, CallState, Operation

LEMMA RegisteredType ==
    ASSUME NEW sess \in [Key -> Session \cup {NoSession}]
    PROVE  Registered(sess) \subseteq Session /\ Registered(sess) \in SUBSET Session
  BY DEF Registered

LEMMA RankedType ==
    ASSUME NEW rank, NEW S \in SUBSET Session
    PROVE  Ranked(rank, S) \in [Session -> Nat]
<1>1. \A T \in SUBSET S : Cardinality(T) \in Nat
  BY ConstantsAssumption, FS_Subset, FS_CardinalityType
<1>. QED
  BY <1>1 DEF Ranked

LEMMA TouchedType ==
    ASSUME Shape, NEW o \in Session PROVE Touched(o) \in [Session -> Nat]
  BY DEF Touched, Shape

\* With room for every session none is evicted: a session is not older than itself.
LEMMA NobodyEvicted ==
    ASSUME Room, NEW sess \in [Key -> Session \cup {NoSession}], NEW stat,
           NEW rank \in [Session -> Nat]
    PROVE  Evicted(sess, stat, rank) = {}
<1>. SUFFICES ASSUME NEW k \in Evicted(sess, stat, rank) PROVE FALSE
  OBVIOUS
<1>. DEFINE u == sess[k]
            older == {o \in Inactive(sess, stat) : rank[o] < rank[u]}
<1>1. Inactive(sess, stat) \subseteq Session
  BY RegisteredType DEF Inactive
<1>2. u \in Session /\ Cardinality(older) >= MaxRetained
  BY <1>1 DEF Evicted
<1>3. older \subseteq Session \ {u}
  BY <1>1, <1>2
<1>4. /\ IsFiniteSet(Session \ {u}) /\ Cardinality(Session \ {u}) = Cardinality(Session) - 1
      /\ Cardinality(Session) \in Nat
  BY <1>2, ConstantsAssumption, FS_RemoveElement, FS_CardinalityType
<1>5. Cardinality(older) <= Cardinality(Session \ {u}) /\ Cardinality(older) \in Nat
  BY <1>3, <1>4, FS_Subset, FS_CardinalityType
<1>. QED
  BY <1>2, <1>4, <1>5, ConstantsAssumption DEF Room

\* Removing nobody leaves the map as it is.
LEMMA RemoveNobody ==
    ASSUME NEW sess \in [Key -> Session \cup {NoSession}], NEW rank, RemoveFromMap(sess, rank, {})
    PROVE  sessions' = sess /\ idle' \in [Session -> Nat]
<1>. DEFINE rest == [k \in Key |-> IF k \in {} THEN NoSession ELSE sess[k]]
<1>1. rest = sess
  OBVIOUS
<1>. QED
  BY <1>1, RegisteredType, RankedType DEF RemoveFromMap

-----------------------------------------------------------------------------
(* The lock.                                                                   *)

AtHead(c) == call[c].step # "idle" /\ Head(locks[call[c].key[1]]) = c

\* A call whose turn it is has left the queue or is its head.
LEMMA ProgressAtHead == ASSUME IInv, NEW c \in Call, InProgress(c) PROVE AtHead(c)
  BY DEF IInv, LocksHeld, InProgress, AtHead

\* The lock of a call's thread, which the call is in.
LEMMA HeadType ==
    ASSUME IInv, NEW c \in Call, AtHead(c)
    PROVE  LET th == call[c].key[1]
               lock == locks[th]
           IN  /\ call[c] \in CallState /\ th \in Thread
               /\ lock \in Seq(Call) /\ lock # <<>> /\ Len(lock) \in Nat \ {0}
               /\ lock[1] = c
  BY KeyType DEF IInv, Shape, CallState, LocksHeld, AtHead

\* Two calls of one thread do not hold its lock at once.
LEMMA OneHolder ==
    ASSUME IInv, NEW c \in Call, NEW d \in Call, AtHead(c), InProgress(d), c # d
    PROVE  call[d].key[1] # call[c].key[1]
  BY DEF IInv, LocksHeld, AtHead, InProgress

\* The holder goes on.
LEMMA HolderGoesOn ==
    ASSUME IInv, NEW c \in Call, AtHead(c), NEW r \in CallState,
           r.step # "idle", r.key = call[c].key,
           call' = [call EXCEPT ![c] = r], locks' = locks
    PROVE  call' \in [Call -> CallState] /\ locks' \in [Thread -> Seq(Call)] /\ LocksHeld'
<1>1. call' \in [Call -> CallState] /\ locks' \in [Thread -> Seq(Call)]
  BY DEF IInv, Shape
<1>2. \A d \in Call : call'[d] = IF d = c THEN r ELSE call[d]
  BY DEF IInv, Shape
<1>3. \A d \in Call : call'[d].key = call[d].key /\ (call'[d].step = "idle" <=> call[d].step = "idle")
  BY <1>2 DEF AtHead
<1>4. \A th \in Thread : \A i \in 1..Len(locks[th]) : locks[th][i] \in Call
  BY DEF IInv, Shape
<1>5. \A d \in Call : InProgress(d)' => Head(locks[call[d].key[1]]) = d
  BY <1>2 DEF IInv, LocksHeld, AtHead, InProgress
<1>6. LocksHeld
  BY DEF IInv
<1>7. /\ \A th \in Thread : \A i, j \in 1..Len(locks[th]) :
             /\ call'[locks[th][i]].step # "idle" /\ call'[locks[th][i]].key[1] = th
             /\ locks[th][i] = locks[th][j] => i = j
      /\ \A d \in Call : call'[d].step # "idle" =>
             \E i \in 1..Len(locks[call'[d].key[1]]) : locks[call'[d].key[1]][i] = d
  BY <1>3, <1>4, <1>6 DEF LocksHeld
<1>. QED
  BY <1>1, <1>3, <1>5, <1>7 DEF LocksHeld

\* The holder lets go: the next in the queue is its head.
LEMMA HolderFinishes ==
    ASSUME IInv, NEW c \in Call, AtHead(c), Finish(c)
    PROVE  /\ call' \in [Call -> CallState] /\ locks' \in [Thread -> Seq(Call)] /\ LocksHeld'
           /\ call' = [call EXCEPT ![c] = NoCall]
<1>. DEFINE th == call[c].key[1]
            lock == locks[th]
<1>1. /\ th \in Thread /\ lock \in Seq(Call) /\ Len(lock) \in Nat \ {0} /\ lock[1] = c
  BY HeadType
<1>2. /\ Tail(lock) \in Seq(Call) /\ Len(Tail(lock)) = Len(lock) - 1
      /\ \A i \in 1..Len(Tail(lock)) : Tail(lock)[i] = lock[i + 1] /\ i + 1 \in 1..Len(lock)
  BY <1>1
<1>3. call' = [call EXCEPT ![c] = NoCall] /\ locks' = [locks EXCEPT ![th] = Tail(lock)]
  BY DEF Finish
<1>4. call' \in [Call -> CallState] /\ locks' \in [Thread -> Seq(Call)]
  BY <1>1, <1>2, <1>3, NoCallType DEF IInv, Shape
<1>5. /\ \A d \in Call : call'[d] = IF d = c THEN NoCall ELSE call[d]
      /\ locks'[th] = Tail(lock)
      /\ \A x \in Thread \ {th} : locks'[x] = locks[x]
  BY <1>1, <1>3 DEF IInv, Shape
<1>6. \A i \in 1..Len(lock) : lock[i] \in Call /\ (i # 1 => lock[i] # c)
  BY <1>1 DEF IInv, LocksHeld
<1>7. ASSUME NEW x \in Thread, NEW i \in 1..Len(locks'[x])
      PROVE  /\ locks'[x][i] \in Call /\ locks'[x][i] # c
             /\ call[locks'[x][i]].step # "idle" /\ call[locks'[x][i]].key[1] = x
  <2>1. CASE x = th
    <3>1. i \in 1..Len(Tail(lock)) /\ locks'[x][i] = Tail(lock)[i]
      BY <1>5, <2>1
    <3>2. i + 1 \in 1..Len(lock) /\ locks'[x][i] = lock[i + 1] /\ i + 1 # 1
      BY <1>1, <1>2, <3>1
    <3>3. call[lock[i + 1]].step # "idle" /\ call[lock[i + 1]].key[1] = th
      BY <1>1, <3>2 DEF IInv, LocksHeld
    <3>. QED
      BY <1>6, <2>1, <3>2, <3>3
  <2>2. CASE x # th
    <3>1. locks'[x] = locks[x] /\ locks[x] \in Seq(Call)
      BY <1>5, <2>2 DEF IInv, Shape
    <3>. QED
      BY <2>2, <3>1 DEF IInv, LocksHeld
  <2>. QED
    BY <2>1, <2>2
<1>8. ASSUME NEW x \in Thread, NEW i \in 1..Len(locks'[x]), NEW j \in 1..Len(locks'[x]),
             locks'[x][i] = locks'[x][j]
      PROVE  i = j
  <2>1. CASE x = th
    <3>1. /\ i \in 1..Len(Tail(lock)) /\ j \in 1..Len(Tail(lock))
          /\ Tail(lock)[i] = Tail(lock)[j]
      BY <1>5, <1>8, <2>1
    <3>2. i + 1 \in 1..Len(lock) /\ j + 1 \in 1..Len(lock) /\ lock[i + 1] = lock[j + 1]
      BY <1>2, <3>1
    <3>3. i + 1 = j + 1
      BY <1>1, <3>2 DEF IInv, LocksHeld
    <3>. QED
      BY <1>1, <1>2, <3>1, <3>3
  <2>2. CASE x # th
    BY <1>5, <1>8, <2>2 DEF IInv, LocksHeld
  <2>. QED
    BY <2>1, <2>2
<1>9. ASSUME NEW d \in Call, call'[d].step # "idle"
      PROVE  /\ \E i \in 1..Len(locks'[call'[d].key[1]]) : locks'[call'[d].key[1]][i] = d
             /\ ~InProgress(d)' \/ Head(locks'[call'[d].key[1]]) = d
  <2>1. d # c /\ call'[d] = call[d] /\ call[d].key[1] \in Thread
    BY <1>5, <1>9, NoCallType, KeyType DEF IInv, Shape, CallState
  <2>2. CASE call[d].key[1] # th
    BY <1>5, <1>9, <2>1, <2>2 DEF IInv, LocksHeld, InProgress
  <2>3. CASE call[d].key[1] = th
    <3>1. PICK i \in 1..Len(lock) : lock[i] = d
      BY <1>9, <2>1, <2>3 DEF IInv, LocksHeld
    <3>2. i # 1 /\ i - 1 \in 1..Len(Tail(lock)) /\ Tail(lock)[i - 1] = d
      BY <1>1, <1>2, <2>1, <3>1
    <3>3. ~InProgress(d)'
      BY <2>1, <2>3, OneHolder DEF InProgress
    <3>. QED
      BY <1>5, <2>1, <2>3, <3>2, <3>3
  <2>. QED
    BY <2>2, <2>3
<1>. QED
  <2>1. \A d \in Call : d # c => call'[d] = call[d]
    BY <1>5
  <2>2. \A x \in Thread : \A i \in 1..Len(locks'[x]) :
          call'[locks'[x][i]].step # "idle" /\ call'[locks'[x][i]].key[1] = x
    BY <1>7, <2>1
  <2>3. LocksHeld'
    BY <1>8, <1>9, <2>2, NoCallType DEF LocksHeld, InProgress
  <2>. QED
    BY <1>3, <1>4, <2>3

\* A request goes to the end of its thread's queue.
LEMMA RequestQueues ==
    ASSUME IInv, NEW c \in Call, NEW r \in CallState, call[c].step = "idle", r.step = "queued",
           call' = [call EXCEPT ![c] = r],
           locks' = [locks EXCEPT ![r.key[1]] = Append(@, c)]
    PROVE  call' \in [Call -> CallState] /\ locks' \in [Thread -> Seq(Call)] /\ LocksHeld'
<1>. DEFINE th == r.key[1]
            lock == locks[th]
<1>1. th \in Thread /\ lock \in Seq(Call) /\ Len(lock) \in Nat
  BY KeyType DEF IInv, Shape, CallState
<1>2. /\ Append(lock, c) \in Seq(Call) /\ Len(Append(lock, c)) = Len(lock) + 1
      /\ \A i \in 1..Len(lock) : Append(lock, c)[i] = lock[i] /\ lock[i] \in Call
      /\ Append(lock, c)[Len(lock) + 1] = c
      /\ lock # <<>> => Head(Append(lock, c)) = Head(lock)
  BY <1>1
<1>3. /\ \A d \in Call : call'[d] = IF d = c THEN r ELSE call[d]
      /\ locks'[th] = Append(lock, c)
      /\ \A x \in Thread \ {th} : locks'[x] = locks[x]
  BY <1>1 DEF IInv, Shape
<1>4. call' \in [Call -> CallState] /\ locks' \in [Thread -> Seq(Call)]
  BY <1>1, <1>2 DEF IInv, Shape
<1>5. \A x \in Thread : \A i \in 1..Len(locks[x]) :
         locks[x][i] \in Call /\ locks[x][i] # c /\ call'[locks[x][i]] = call[locks[x][i]]
  BY <1>3 DEF IInv, Shape, LocksHeld
<1>6. ASSUME NEW x \in Thread, NEW i \in 1..Len(locks'[x]), NEW j \in 1..Len(locks'[x])
      PROVE  /\ call'[locks'[x][i]].step # "idle" /\ call'[locks'[x][i]].key[1] = x
             /\ locks'[x][i] = locks'[x][j] => i = j
  <2>1. CASE x = th
    <3>1. i \in 1..(Len(lock) + 1) /\ j \in 1..(Len(lock) + 1)
      BY <1>2, <1>3, <2>1
    <3>2. /\ i \in 1..Len(lock) \/ i = Len(lock) + 1
          /\ j \in 1..Len(lock) \/ j = Len(lock) + 1
      BY <1>1, <3>1
    <3>. QED
      BY <1>1, <1>2, <1>3, <1>5, <2>1, <3>2 DEF IInv, LocksHeld
  <2>2. CASE x # th
    BY <1>3, <1>5, <2>2 DEF IInv, LocksHeld
  <2>. QED
    BY <2>1, <2>2
<1>7. ASSUME NEW d \in Call, call'[d].step # "idle"
      PROVE  /\ \E i \in 1..Len(locks'[call'[d].key[1]]) : locks'[call'[d].key[1]][i] = d
             /\ ~InProgress(d)' \/ Head(locks'[call'[d].key[1]]) = d
  <2>1. CASE d = c
    BY <1>1, <1>2, <1>3, <2>1 DEF InProgress
  <2>2. CASE d # c
    <3>1. /\ call'[d] = call[d] /\ call[d].key[1] \in Thread
          /\ \E i \in 1..Len(locks[call[d].key[1]]) : locks[call[d].key[1]][i] = d
          /\ InProgress(d) => Head(locks[call[d].key[1]]) = d
      BY <1>3, <1>7, <2>2, KeyType DEF IInv, LocksHeld, Shape, CallState
    <3>2. CASE call[d].key[1] # th
      BY <1>3, <3>1, <3>2 DEF InProgress
    <3>3. CASE call[d].key[1] = th
      <4>1. PICK i \in 1..Len(lock) : lock[i] = d
        BY <3>1, <3>3
      <4>2. i \in 1..Len(Append(lock, c)) /\ Append(lock, c)[i] = d /\ lock # <<>>
        BY <1>1, <1>2, <4>1
      <4>. QED
        BY <1>2, <1>3, <3>1, <3>3, <4>2 DEF InProgress
    <3>. QED
      BY <3>2, <3>3
  <2>. QED
    BY <2>1, <2>2
<1>. QED
  BY <1>4, <1>6, <1>7 DEF LocksHeld, InProgress

-----------------------------------------------------------------------------
(* What a step does to the sessions of other threads: nothing, but that their  *)
(* shells may be lost to them.                                                 *)

Effects(th) ==
    /\ sessions' \in [Key -> Session \cup {NoSession}] /\ key' \in [Session -> Key]
    /\ process' \in [Session -> Shell \cup {NoShell}] /\ idle' \in [Session -> Nat]
    /\ shell' \in [Shell -> {"free", "running", "signalled", "dead"}]
    /\ MapIn(sessions', key', process') /\ ShellsIn(sessions', process', shell')
    /\ \A k \in Key : k[1] # th => sessions'[k] = sessions[k]
    /\ \A o \in Session : sessions[key[o]] = o => key'[o] = key[o]
    /\ \A o \in Session : \/ process'[o] \in {process[o], NoShell}
                          \/ sessions[key[o]] = o /\ key[o][1] = th

LEMMA NoEffects ==
    ASSUME IInv, NEW th, UNCHANGED <<mapVars, key, process, shell>> PROVE Effects(th)
  BY DEF IInv, Shape, Effects, mapVars

LEMMA TargetsType ==
    ASSUME NEW r \in CallState
    PROVE  Targets(r) \subseteq Key /\ \A k \in Targets(r) : k[1] = r.key[1]
  BY DEF Targets, KeysOf, CallState

\* The calls of other threads may go on relying on what they hold.
LEMMA HoldsElsewhere ==
    ASSUME IInv, NEW th, Effects(th), NEW r \in CallState, r.key[1] # th,
           HoldsIn(r, sessions, key, process), StepFits(r)
    PROVE  HoldsIn(r, sessions', key', process')
<1>. r.key \in Key /\ r.left \subseteq Session
  BY DEF CallState
<1>1. sessions'[r.key] = sessions[r.key]
  BY DEF Effects
<1>2. /\ r.step \in {"flush", "read"} /\ r.op = "open" => sessions'[r.key] = NoSession
      /\ r.step \in {"persist", "spawn"} /\ r.op \in Starting =>
            r.session \in Session /\ sessions'[r.key] = r.session
  BY <1>1 DEF HoldsIn
<1>3. ASSUME r.step = "spawn" \/ (r.step = "persist" /\ r.op = "restart")
      PROVE  process'[r.session] = NoShell
  <2>1. /\ r.session \in Session /\ sessions[r.key] = r.session
        /\ process[r.session] = NoShell
    BY <1>3 DEF HoldsIn, StepFits, Starting
  <2>2. key[r.session] = r.key
    BY <2>1, ConstantsAssumption DEF IInv, MapIn
  <2>. QED
    BY <2>1, <2>2 DEF Effects
<1>4. \A k \in Targets(r) : k \in Key /\ sessions'[k] = sessions[k]
  BY TargetsType DEF Effects
<1>5. ASSUME r.step = "closing"
      PROVE  /\ \A o \in r.left : sessions'[key'[o]] = o /\ key'[o] \in Targets(r)
             /\ \A k \in Targets(r) : sessions'[k] = NoSession \/ sessions'[k] \in r.left
  <2>1. \A o \in r.left : sessions[key[o]] = o /\ key[o] \in Targets(r)
    BY <1>5 DEF HoldsIn
  <2>2. \A o \in r.left : key'[o] = key[o]
    BY <2>1 DEF Effects
  <2>3. \A k \in Targets(r) : sessions[k] = NoSession \/ sessions[k] \in r.left
    BY <1>5 DEF HoldsIn
  <2>. QED
    BY <1>4, <2>1, <2>2, <2>3
<1>6. r.step \in {"flush", "delete"} /\ r.op \in Closing =>
          \A k \in Targets(r) : sessions'[k] = NoSession
  BY <1>4 DEF HoldsIn
<1>. QED
  BY <1>2, <1>3, <1>5, <1>6 DEF HoldsIn

\* Of two calls one of which holds the lock of its thread, the other is of another
\* thread or waits.
LEMMA OthersFit ==
    ASSUME IInv, NEW c \in Call, AtHead(c), Effects(call[c].key[1]), NEW d \in Call, d # c
    PROVE  StepFits(call[d]) /\ HoldsIn(call[d], sessions', key', process')
<1>1. call[d] \in CallState /\ StepFits(call[d]) /\ HoldsIn(call[d], sessions, key, process)
  BY DEF IInv, Shape, CallsFit
<1>2. CASE InProgress(d)
  BY <1>1, <1>2, OneHolder, HoldsElsewhere
<1>3. CASE ~InProgress(d)
  BY <1>1, <1>3 DEF InProgress, HoldsIn
<1>. QED
  BY <1>1, <1>2, <1>3

\* A call goes on to its next step.
LEMMA CallGoesOn ==
    ASSUME IInv, NEW c \in Call, AtHead(c), NEW r \in CallState,
           r.step # "idle", r.key = call[c].key,
           call' = [call EXCEPT ![c] = r], locks' = locks,
           Effects(call[c].key[1]), StepFits(r), HoldsIn(r, sessions', key', process')
    PROVE  IInv'
<1>1. call' \in [Call -> CallState] /\ locks' \in [Thread -> Seq(Call)] /\ LocksHeld'
  BY HolderGoesOn
<1>2. \A d \in Call : call'[d] = IF d = c THEN r ELSE call[d]
  BY DEF IInv, Shape
<1>3. \A d \in Call : StepFits(call'[d]) /\ HoldsIn(call'[d], sessions', key', process')
  BY <1>2, OthersFit
<1>. QED
  BY <1>1, <1>3 DEF IInv, Shape, CallsFit, StepFits, HoldsIn, Effects, MapIn, ShellsIn

\* A call is over.
LEMMA CallEnds ==
    ASSUME IInv, NEW c \in Call, AtHead(c), Finish(c), Effects(call[c].key[1])
    PROVE  IInv'
<1>1. /\ call' \in [Call -> CallState] /\ locks' \in [Thread -> Seq(Call)] /\ LocksHeld'
      /\ call' = [call EXCEPT ![c] = NoCall]
  BY HolderFinishes
<1>2. \A d \in Call : call'[d] = IF d = c THEN NoCall ELSE call[d]
  BY <1>1 DEF IInv, Shape
<1>3. StepFits(NoCall) /\ HoldsIn(NoCall, sessions', key', process')
  BY NoCallType DEF StepFits, HoldsIn, Closing
<1>4. \A d \in Call : StepFits(call'[d]) /\ HoldsIn(call'[d], sessions', key', process')
  BY <1>2, <1>3, OthersFit
<1>. QED
  BY <1>1, <1>4 DEF IInv, Shape, CallsFit, StepFits, HoldsIn, Effects, MapIn, ShellsIn

\* What happens outside the lock takes processes away at most.
LEMMA OutsideLock ==
    ASSUME IInv, UNCHANGED <<callVars, sessions, key>>,
           idle' \in [Session -> Nat], process' \in [Session -> Shell \cup {NoShell}],
           shell' \in [Shell -> {"free", "running", "signalled", "dead"}],
           \A o \in Session : process'[o] \in {process[o], NoShell},
           ShellsIn(sessions, process', shell')
    PROVE  IInv'
<1>1. UNCHANGED <<call, locks>>
  BY DEF callVars
<1>2. ASSUME NEW c \in Call
      PROVE  StepFits(call[c]) /\ HoldsIn(call[c], sessions, key, process')
  <2>1. StepFits(call[c]) /\ HoldsIn(call[c], sessions, key, process)
    BY DEF IInv, CallsFit
  <2>2. call[c].step = "spawn" \/ (call[c].step = "persist" /\ call[c].op = "restart") =>
           call[c].session \in Session /\ process[call[c].session] = NoShell
    BY <2>1 DEF HoldsIn, StepFits, Starting
  <2>. QED
    BY <2>1, <2>2 DEF HoldsIn
<1>3. MapIn(sessions, key, process')
  BY DEF IInv, MapIn
<1>4. CallsFit'
  BY <1>1, <1>2 DEF CallsFit, StepFits, HoldsIn
<1>. QED
  BY <1>1, <1>3, <1>4 DEF IInv, Shape, LocksHeld, InProgress, MapIn, ShellsIn

-----------------------------------------------------------------------------
(* Steps that leave the sessions and the shells alone.                         *)

\* A call whose promise has resolved, or that an event continues, has the lock.
LEMMA ReadyAtHead ==
    ASSUME IInv, NEW c \in Call, Ready(c) \/ InProgress(c) PROVE AtHead(c)
  BY ProgressAtHead DEF Ready, InProgress, AtHead

LEMMA QuietStep ==
    ASSUME IInv, NEW c \in Call, AtHead(c), NEW r \in CallState,
           r.step # "idle", r.key = call[c].key,
           call' = [call EXCEPT ![c] = r], locks' = locks,
           UNCHANGED <<mapVars, key, process, shell>>,
           StepFits(r), HoldsIn(r, sessions, key, process)
    PROVE  IInv'
<1>1. Effects(call[c].key[1])
  BY NoEffects
<1>2. HoldsIn(r, sessions', key', process')
  BY DEF mapVars
<1>. QED
  BY <1>1, <1>2, CallGoesOn

LEMMA QuietEnd ==
    ASSUME IInv, NEW c \in Call, AtHead(c), Finish(c), UNCHANGED <<mapVars, key, process, shell>>
    PROVE  IInv'
  BY NoEffects, CallEnds

\* What is known of a call.
LEMMA CallType ==
    ASSUME IInv, NEW c \in Call
    PROVE  /\ call[c] \in CallState /\ call[c].key \in Key /\ call[c].key[1] \in Thread
           /\ StepFits(call[c]) /\ HoldsIn(call[c], sessions, key, process)
           /\ sessions[call[c].key] \in Session \cup {NoSession}
  BY KeyType DEF IInv, Shape, CallsFit, CallState

LEMMA GotoIInv ==
    ASSUME IInv, NEW c \in Call, AtHead(c),
           NEW step \in {"queued", "stat", "read", "persist", "spawn", "closing", "flush", "delete"},
           Goto(c, step), UNCHANGED <<mapVars, key, process, shell>>,
           StepFits([call[c] EXCEPT !.step = step]),
           HoldsIn([call[c] EXCEPT !.step = step], sessions, key, process)
    PROVE  IInv'
<1>. DEFINE r == [call[c] EXCEPT !.step = step]
<1>1. r \in CallState /\ r.step # "idle" /\ r.key = call[c].key
  BY CallType DEF CallState
<1>2. call' = [call EXCEPT ![c] = r] /\ locks' = locks
  BY DEF Goto
<1>. QED
  BY <1>1, <1>2, QuietStep

LEMMA BeginStartIInv == ASSUME IInv, NEW c \in Call, BeginStart(c) PROVE IInv'
<1>. DEFINE r == [call[c] EXCEPT !.step = "stat"]
<1>1. /\ r.step = "stat" /\ r.op \in {"open", "restart"} /\ AtHead(c) /\ Goto(c, "stat")
      /\ UNCHANGED <<mapVars, key, process, shell>>
  BY CallType, ReadyAtHead DEF BeginStart, Continues, sessionVars, shellVars, CallState
<1>2. StepFits(r) /\ HoldsIn(r, sessions, key, process)
  BY <1>1 DEF StepFits, HoldsIn, Starting, Closing
<1>. QED
  BY <1>1, <1>2, GotoIInv

LEMMA BeginClearIInv == ASSUME IInv, NEW c \in Call, BeginClear(c) PROVE IInv'
<1>. DEFINE k == call[c].key
            r == [call[c] EXCEPT !.step = "persist", !.session = sessions[k]]
<1>1. AtHead(c) /\ UNCHANGED <<mapVars, key, process, shell>>
  BY ReadyAtHead DEF BeginClear, Continues, sessionVars, shellVars
<1>2. CASE Finish(c)
  BY <1>1, <1>2, QuietEnd
<1>3. CASE /\ sessions[k] # NoSession
           /\ call' = [call EXCEPT ![c].step = "persist", ![c].session = sessions[k]]
           /\ UNCHANGED locks
  <2>1. /\ r \in CallState /\ r.step = "persist" /\ r.key = k /\ r.op = "clear"
        /\ call' = [call EXCEPT ![c] = r]
    BY <1>3, CallType DEF BeginClear, CallState
  <2>2. StepFits(r) /\ HoldsIn(r, sessions, key, process)
    BY <2>1 DEF StepFits, HoldsIn, Starting, Closing
  <2>. QED
    BY <1>1, <1>3, <2>1, <2>2, QuietStep
<1>. QED
  BY <1>2, <1>3 DEF BeginClear

LEMMA BeginCloseIInv == ASSUME IInv, NEW c \in Call, BeginClose(c) PROVE IInv'
<1>. DEFINE k == call[c].key
            present == {x \in KeysOf(k[1]) : sessions[x] # NoSession}
            targets == IF call[c].op = "close" THEN {k} ELSE present
            stopped == {sessions[x] : x \in targets} \ {NoSession}
            r == [call[c] EXCEPT !.step = "closing", !.left = stopped, !.flushing = targets]
<1>1. /\ AtHead(c) /\ UNCHANGED <<mapVars, key, process, shell>> /\ locks' = locks
      /\ call[c].op \in {"close", "closeAll"}
      /\ call' = [call EXCEPT ![c].step = "closing", ![c].left = stopped, ![c].flushing = targets]
  BY ReadyAtHead DEF BeginClose, Continues, sessionVars, shellVars
<1>2. k \in Key /\ k \in KeysOf(k[1]) /\ KeysOf(k[1]) \subseteq Key /\ targets \subseteq Key
  BY CallType, KeysOfType DEF KeysOf
<1>3. stopped \subseteq Session
  BY <1>2 DEF IInv, Shape
<1>4. /\ r \in CallState /\ r.step = "closing" /\ r.key = k /\ r.op = call[c].op
      /\ r.left = stopped /\ call' = [call EXCEPT ![c] = r]
  BY <1>1, <1>2, <1>3, CallType DEF CallState
<1>5. StepFits(r)
  BY <1>1, <1>4 DEF StepFits, Starting, Closing
<1>6. targets \subseteq Targets(r) /\ \A x \in Targets(r) : sessions[x] # NoSession => x \in targets
  BY <1>2, <1>4 DEF Targets
<1>7. \A x \in targets : sessions[x] # NoSession => key[sessions[x]] = x
  BY <1>2 DEF IInv, MapIn
<1>8. /\ \A o \in stopped : sessions[key[o]] = o /\ key[o] \in Targets(r)
      /\ \A x \in Targets(r) : sessions[x] = NoSession \/ sessions[x] \in stopped
  BY <1>6, <1>7
<1>9. HoldsIn(r, sessions, key, process)
  BY <1>4, <1>8 DEF HoldsIn
<1>. QED
  BY <1>1, <1>4, <1>5, <1>9, QuietStep

LEMMA StatFailsIInv == ASSUME IInv, NEW c \in Call, StatFails(c) PROVE IInv'
  BY ReadyAtHead, QuietEnd DEF StatFails, InProgress, sessionVars, shellVars

LEMMA OpenAbsentIInv == ASSUME IInv, NEW c \in Call, OpenAbsent(c) PROVE IInv'
<1>. DEFINE k == call[c].key
            r == [call[c] EXCEPT !.step = "flush", !.flushing = {k}]
<1>1. /\ AtHead(c) /\ UNCHANGED <<mapVars, key, process, shell>> /\ locks' = locks
      /\ call[c].op = "open" /\ sessions[k] = NoSession
      /\ call' = [call EXCEPT ![c].step = "flush", ![c].flushing = {k}]
  BY ReadyAtHead DEF OpenAbsent, InProgress, sessionVars, shellVars
<1>2. /\ r \in CallState /\ r.step = "flush" /\ r.key = k /\ r.op = "open"
      /\ call' = [call EXCEPT ![c] = r]
  BY <1>1, CallType DEF CallState
<1>3. StepFits(r) /\ HoldsIn(r, sessions, key, process)
  BY <1>1, <1>2 DEF StepFits, HoldsIn, Starting, Closing
<1>. QED
  BY <1>1, <1>2, <1>3, QuietStep

\* A start whose session is in the map without a process.
LEMMA StartSessionIInv ==
    ASSUME IInv, NEW c \in Call, AtHead(c), NEW o \in Session, StartSession(c, o),
           UNCHANGED <<mapVars, key, shell>>, call[c].op \in Starting,
           sessions[call[c].key] = o, process[o] = NoShell
    PROVE  IInv'
<1>. DEFINE r == [call[c] EXCEPT !.step = "spawn", !.session = o]
<1>1. UNCHANGED <<mapVars, key, process, shell>> /\ locks' = locks
  BY DEF StartSession
<1>2. /\ r \in CallState /\ r.step = "spawn" /\ r.key = call[c].key /\ r.op = call[c].op
      /\ r.session = o /\ call' = [call EXCEPT ![c] = r]
  BY CallType DEF CallState, StartSession
<1>3. StepFits(r) /\ HoldsIn(r, sessions, key, process)
  BY <1>2 DEF StepFits, HoldsIn, Starting, Closing
<1>. QED
  BY <1>1, <1>2, <1>3, QuietStep

LEMMA OpenAttachIInv == ASSUME IInv, NEW c \in Call, OpenAttach(c) PROVE IInv'
<1>. DEFINE o == sessions[call[c].key]
<1>1. /\ AtHead(c) /\ UNCHANGED <<mapVars, key, shell>>
      /\ call[c].op \in Starting /\ o \in Session
  BY ReadyAtHead, CallType DEF OpenAttach, InProgress, sessionVars, shellVars, Starting
<1>2. CASE Finish(c) /\ UNCHANGED sessionVars
  BY <1>1, <1>2, QuietEnd DEF sessionVars
<1>3. CASE process[o] = NoShell /\ StartSession(c, o)
  BY <1>1, <1>3, StartSessionIInv
<1>. QED
  BY <1>2, <1>3 DEF OpenAttach

LEMMA PersistedIInv == ASSUME IInv, NEW c \in Call, Persisted(c) PROVE IInv'
<1>. DEFINE o == call[c].session
<1>1. /\ AtHead(c) /\ UNCHANGED <<mapVars, shell>> /\ call[c].step = "persist"
  BY ReadyAtHead DEF Persisted, Continues, shellVars
<1>2. CASE Finish(c) /\ UNCHANGED sessionVars
  BY <1>1, <1>2, QuietEnd DEF sessionVars
<1>3. CASE /\ call[c].op = "restart" \/ (call[c].op = "open" /\ process[o] = NoShell)
           /\ StartSession(c, o) /\ UNCHANGED <<key, config>>
  <2>1. call[c].op \in Starting
    BY <1>3 DEF Starting
  <2>2. o \in Session /\ sessions[call[c].key] = o /\ process[o] = NoShell
    BY <1>1, <1>3, <2>1, CallType DEF HoldsIn
  <2>. QED
    BY <1>1, <1>3, <2>1, <2>2, StartSessionIInv
<1>. QED
  BY <1>2, <1>3 DEF Persisted

LEMMA CloseFlushIInv == ASSUME IInv, NEW c \in Call, CloseFlush(c) PROVE IInv'
<1>. DEFINE r == [call[c] EXCEPT !.step = "flush"]
<1>1. /\ AtHead(c) /\ UNCHANGED <<mapVars, key, process, shell>> /\ Goto(c, "flush")
      /\ call[c].step = "closing" /\ call[c].left = {}
  BY ReadyAtHead DEF CloseFlush, Continues, sessionVars, shellVars
<1>2. /\ r.step = "flush" /\ r.op = call[c].op /\ r.key = call[c].key
      /\ call[c].op \in Closing /\ Targets(r) = Targets(call[c])
  BY <1>1, CallType DEF StepFits, CallState, Targets
<1>3. \A k \in Targets(call[c]) : sessions[k] = NoSession
  BY <1>1, CallType DEF HoldsIn
<1>4. StepFits(r) /\ HoldsIn(r, sessions, key, process)
  BY <1>2, <1>3 DEF StepFits, HoldsIn, Closing
<1>. QED
  BY <1>1, <1>4, GotoIInv

\* A close that has stopped its sessions, or an open that found none.
LEMMA FlushFits ==
    ASSUME IInv, NEW c \in Call, call[c].step = "flush",
           NEW r \in CallState, r.op = call[c].op, r.key = call[c].key,
           r.step = "flush" \/ (r.step = "delete" /\ r.op \in Closing)
    PROVE  StepFits(r) /\ HoldsIn(r, sessions, key, process)
<1>1. StepFits(call[c]) /\ HoldsIn(call[c], sessions, key, process)
  BY CallType
<1>2. Targets(r) = Targets(call[c])
  BY DEF Targets
<1>3. r.op = "open" => sessions[r.key] = NoSession
  BY <1>1 DEF HoldsIn
<1>4. r.op \in Closing => \A k \in Targets(r) : sessions[k] = NoSession
  BY <1>1, <1>2 DEF HoldsIn
<1>5. StepFits(r)
  BY <1>1 DEF StepFits, Closing, Starting
<1>. QED
  BY <1>3, <1>4, <1>5 DEF HoldsIn, Closing

LEMMA FlushStepIInv == ASSUME IInv, NEW c \in Call, NEW k \in Key, FlushStep(c, k) PROVE IInv'
<1>1. /\ AtHead(c) /\ UNCHANGED <<mapVars, key, process, shell>> /\ locks' = locks
      /\ call[c].step = "flush"
  BY ReadyAtHead DEF FlushStep, Continues, sessionVars, shellVars
<1>2. PICK r : /\ \/ r = [call[c] EXCEPT !.wrote = @ \cup {k}]
                  \/ r = [call[c] EXCEPT !.wrote = @ \ {k}]
                  \/ r = [call[c] EXCEPT !.flushing = @ \ {k}, !.wrote = @ \ {k}]
               /\ call' = [call EXCEPT ![c] = r]
  <2>. DEFINE done == [call[c] EXCEPT !.flushing = @ \ {k}, !.wrote = @ \ {k}]
  <2>1. call = [d \in Call |-> call[d]]
    BY DEF IInv, Shape
  <2>2. \/ call' = [call EXCEPT ![c].wrote = @ \cup {k}]
        \/ call' = [call EXCEPT ![c].wrote = @ \ {k}]
        \/ call' = [call EXCEPT ![c].flushing = @ \ {k}, ![c].wrote = @ \ {k}]
    BY DEF FlushStep
  <2>3. call' = [call EXCEPT ![c].flushing = @ \ {k}, ![c].wrote = @ \ {k}] =>
           call' = [call EXCEPT ![c] = done]
    BY <2>1
  <2>. QED
    BY <2>2, <2>3
<1>3. r \in CallState /\ r.step = "flush" /\ r.op = call[c].op /\ r.key = call[c].key
  <2>1. call[c] \in CallState
    BY CallType
  <2>2. CASE r = [call[c] EXCEPT !.wrote = @ \cup {k}]
    BY <1>1, <2>1, <2>2 DEF CallState
  <2>3. CASE r = [call[c] EXCEPT !.wrote = @ \ {k}]
    BY <1>1, <2>1, <2>3 DEF CallState
  <2>4. CASE r = [call[c] EXCEPT !.flushing = @ \ {k}, !.wrote = @ \ {k}]
    BY <1>1, <2>1, <2>4 DEF CallState
  <2>. QED
    BY <1>2, <2>2, <2>3, <2>4
<1>4. StepFits(r) /\ HoldsIn(r, sessions, key, process)
  BY <1>1, <1>3, FlushFits
<1>. QED
  BY <1>1, <1>2, <1>3, <1>4, QuietStep

LEMMA FlushedIInv == ASSUME IInv, NEW c \in Call, Flushed(c) PROVE IInv'
<1>1. /\ AtHead(c) /\ UNCHANGED <<mapVars, key, process, shell>> /\ call[c].step = "flush"
  BY ReadyAtHead DEF Flushed, Continues, sessionVars, shellVars
<1>2. CASE Finish(c)
  BY <1>1, <1>2, QuietEnd
<1>3. CASE call[c].op = "open" /\ Goto(c, "read")
  <2>. DEFINE r == [call[c] EXCEPT !.step = "read"]
  <2>1. r.step = "read" /\ r.op = "open" /\ r.key = call[c].key
    BY <1>3, CallType DEF CallState
  <2>2. StepFits(r) /\ HoldsIn(r, sessions, key, process)
    BY <1>1, <1>3, <2>1, CallType DEF StepFits, HoldsIn, Closing
  <2>. QED
    BY <1>1, <1>3, <2>2, GotoIInv
<1>4. CASE call[c].op # "open" /\ Goto(c, "delete")
  <2>. DEFINE r == [call[c] EXCEPT !.step = "delete"]
  <2>1. /\ r \in CallState /\ r.step = "delete" /\ r.op = call[c].op
        /\ r.key = call[c].key /\ call[c].op \in Closing
    BY <1>1, <1>4, CallType DEF CallState, StepFits
  <2>2. StepFits(r) /\ HoldsIn(r, sessions, key, process)
    BY <1>1, <2>1, FlushFits
  <2>. QED
    BY <1>1, <1>4, <2>2, GotoIInv
<1>. QED
  BY <1>2, <1>3, <1>4 DEF Flushed

LEMMA DeleteHistoryIInv == ASSUME IInv, NEW c \in Call, DeleteHistory(c) PROVE IInv'
  BY ReadyAtHead, QuietEnd DEF DeleteHistory, InProgress, sessionVars, shellVars

-----------------------------------------------------------------------------
(* Steps that stop, insert or start a session.                                 *)

LEMMA NobodyLeaves ==
    ASSUME Room, IInv, NEW K, K \in {{}, Evicted(sessions, status', idle)},
           RemoveFromMap(sessions, idle, K)
    PROVE  K = {} /\ sessions' = sessions /\ idle' \in [Session -> Nat]
<1>1. Evicted(sessions, status', idle) = {}
  BY NobodyEvicted DEF IInv, Shape
<1>2. K = {}
  BY <1>1
<1>. QED
  BY <1>2, RemoveNobody DEF IInv, Shape

LEMMA StopProcessStops ==
    ASSUME IInv, NEW o \in Session, StopProcess(o)
    PROVE  /\ process' \in [Session -> Shell \cup {NoShell}] /\ process'[o] = NoShell
           /\ \A u \in Session \ {o} : process'[u] = process[u]
           /\ shell' \in [Shell -> {"free", "running", "signalled", "dead"}]
           /\ \A p \in Shell : shell'[p] = "running" => shell[p] = "running" /\ process[o] # p
<1>1. CASE process[o] = NoShell
  BY <1>1, ConstantsAssumption DEF StopProcess, IInv, Shape
<1>2. CASE process[o] # NoShell
  <2>1. /\ process' = [process EXCEPT ![o] = NoShell]
        /\ shell' = [shell EXCEPT ![process[o]] = "signalled"] /\ process[o] \in Shell
    BY <1>2 DEF StopProcess, IInv, Shape
  <2>. QED
    BY <2>1 DEF IInv, Shape
<1>. QED
  BY <1>1, <1>2

\* A session of the thread is stopped and stays in the map.
LEMMA StoppedEffects ==
    ASSUME IInv, NEW th \in Thread, NEW o \in Session, sessions[key[o]] = o, key[o][1] = th,
           sessions' = sessions, key' = key, idle' \in [Session -> Nat],
           process' \in [Session -> Shell \cup {NoShell}], process'[o] \in {process[o], NoShell},
           \A u \in Session \ {o} : process'[u] = process[u],
           shell' \in [Shell -> {"free", "running", "signalled", "dead"}],
           \A p \in Shell : shell'[p] = "running" =>
                 shell[p] = "running" /\ (process[o] # p \/ process'[o] = p)
    PROVE  Effects(th)
<1>1. MapIn(sessions', key', process')
  BY DEF IInv, MapIn
<1>2. ASSUME NEW p \in Shell, shell'[p] = "running"
      PROVE  \E k \in Key : sessions'[k] # NoSession /\ process'[sessions'[k]] = p
  <2>1. PICK k \in Key : sessions[k] # NoSession /\ process[sessions[k]] = p
    BY <1>2 DEF IInv, ShellsIn
  <2>2. sessions[k] \in Session
    BY <2>1 DEF IInv, Shape
  <2>. QED
    BY <1>2, <2>1, <2>2
<1>. QED
  BY <1>1, <1>2 DEF Effects, ShellsIn, IInv, Shape

\* The session the map holds for the key of a call.
LEMMA SessionOfCall ==
    ASSUME IInv, NEW c \in Call, sessions[call[c].key] # NoSession
    PROVE  LET o == sessions[call[c].key]
           IN  o \in Session /\ key[o] = call[c].key /\ sessions[key[o]] = o
  BY CallType DEF IInv, MapIn

\* A call that has stopped the session of its key writes its history.
LEMMA ResetIInv ==
    ASSUME IInv, NEW c \in Call, call[c].step = "stat", call[c].op \in Starting,
           sessions[call[c].key] # NoSession,
           call' = [call EXCEPT ![c].step = "persist", ![c].session = sessions[call[c].key]],
           locks' = locks, sessions' = sessions, key' = key, idle' \in [Session -> Nat],
           StopProcess(sessions[call[c].key]) \/ (call[c].op = "open" /\ UNCHANGED <<process, shell>>)
    PROVE  IInv'
<1>. DEFINE o == sessions[call[c].key]
            r == [call[c] EXCEPT !.step = "persist", !.session = o]
<1>1. /\ o \in Session /\ key[o] = call[c].key /\ sessions[key[o]] = o
      /\ key[o][1] = call[c].key[1] /\ call[c].key[1] \in Thread /\ AtHead(c)
  BY SessionOfCall, CallType, ReadyAtHead DEF InProgress
<1>2. /\ process' \in [Session -> Shell \cup {NoShell}] /\ process'[o] \in {process[o], NoShell}
      /\ call[c].op # "open" => process'[o] = NoShell
      /\ \A u \in Session \ {o} : process'[u] = process[u]
      /\ shell' \in [Shell -> {"free", "running", "signalled", "dead"}]
      /\ \A p \in Shell : shell'[p] = "running" =>
             shell[p] = "running" /\ (process[o] # p \/ process'[o] = p)
  <2>1. CASE StopProcess(o)
    BY <1>1, <2>1, StopProcessStops
  <2>2. CASE call[c].op = "open" /\ UNCHANGED <<process, shell>>
    BY <2>2 DEF IInv, Shape
  <2>. QED
    BY <2>1, <2>2
<1>3. Effects(call[c].key[1])
  BY <1>1, <1>2, StoppedEffects
<1>4. /\ r \in CallState /\ r.step = "persist" /\ r.key = call[c].key /\ r.op = call[c].op
      /\ r.session = o /\ call' = [call EXCEPT ![c] = r]
  BY <1>1, CallType DEF CallState
<1>5. StepFits(r) /\ HoldsIn(r, sessions', key', process')
  BY <1>1, <1>2, <1>4 DEF StepFits, HoldsIn, Starting, Closing
<1>. QED
  BY <1>1, <1>3, <1>4, <1>5, CallGoesOn

LEMMA OpenResetIInv == ASSUME Room, IInv, NEW c \in Call, OpenReset(c) PROVE IInv'
<1>. DEFINE o == sessions[call[c].key]
            changed == config[o] # call[c].config
            K == IF changed THEN EvictedByStop(o) ELSE {}
<1>1. K \in {{}, Evicted(sessions, status', idle)} /\ RemoveFromMap(sessions, idle, K)
  BY DEF OpenReset, EvictedByStop
<1>2. sessions' = sessions /\ idle' \in [Session -> Nat]
  BY <1>1, NobodyLeaves
<1>3. StopProcess(o) \/ UNCHANGED <<process, shell>>
  BY DEF OpenReset
<1>. QED
  BY <1>2, <1>3, ResetIInv DEF OpenReset, Starting

LEMMA RestartPresentIInv == ASSUME Room, IInv, NEW c \in Call, RestartPresent(c) PROVE IInv'
<1>. DEFINE K == EvictedByStop(sessions[call[c].key])
<1>1. K \in {{}, Evicted(sessions, status', idle)} /\ RemoveFromMap(sessions, idle, K)
  BY DEF RestartPresent, EvictedByStop
<1>2. sessions' = sessions /\ idle' \in [Session -> Nat]
  BY <1>1, NobodyLeaves
<1>. QED
  BY <1>2, ResetIInv DEF RestartPresent, Starting

\* A new session enters the map, where its key had none.
LEMMA InsertEffects ==
    ASSUME Room, IInv, NEW c \in Call, NEW o \in Session, NEW cfg,
           CreateSession(o, call[c].key, cfg), sessions[call[c].key] = NoSession,
           RemoveFromMap(Inserted(o, call[c].key), Touched(o), EvictedByInsert(o, call[c].key)),
           UNCHANGED <<process, shell>>
    PROVE  /\ Effects(call[c].key[1])
           /\ sessions'[call[c].key] = o /\ process'[o] = NoShell
<1>. DEFINE k == call[c].key
            sess == Inserted(o, k)
<1>1. /\ k \in Key /\ sess \in [Key -> Session \cup {NoSession}] /\ sess[k] = o
      /\ \A x \in Key \ {k} : sess[x] = sessions[x]
  BY CallType DEF Inserted, IInv, Shape
<1>2. Touched(o) \in [Session -> Nat]
  BY TouchedType DEF IInv
<1>3. EvictedByInsert(o, k) = {}
  BY <1>1, <1>2, NobodyEvicted DEF EvictedByInsert
<1>4. sessions' = sess /\ idle' \in [Session -> Nat]
  BY <1>1, <1>3, RemoveNobody
<1>5. \A x \in Key : sessions[x] # o
  BY ConstantsAssumption DEF CreateSession, Unused, Registered
<1>6. process[o] = NoShell /\ key' = [key EXCEPT ![o] = k]
  BY DEF CreateSession, Unused
<1>7. /\ key' \in [Session -> Key] /\ key'[o] = k
      /\ \A u \in Session \ {o} : key'[u] = key[u]
  BY <1>1, <1>6 DEF IInv, Shape
<1>8. MapIn(sessions', key', process')
  <2>1. ASSUME NEW x \in Key, sessions'[x] # NoSession PROVE key'[sessions'[x]] = x
    <3>1. CASE x = k
      BY <1>1, <1>4, <1>7, <3>1
    <3>2. CASE x # k
      <4>1. sessions'[x] = sessions[x] /\ sessions[x] \in Session \ {o}
        BY <1>1, <1>4, <1>5, <2>1, <3>2 DEF IInv, Shape
      <4>. QED
        BY <1>7, <2>1, <4>1 DEF IInv, MapIn
    <3>. QED
      BY <3>1, <3>2
  <2>2. ASSUME NEW u \in Session, process'[u] # NoShell PROVE sessions'[key'[u]] = u
    <3>1. u # o /\ sessions[key[u]] = u /\ key'[u] = key[u] /\ key[u] \in Key
      BY <1>6, <1>7, <2>2 DEF IInv, Shape, MapIn
    <3>2. key[u] # k
      BY <3>1, ConstantsAssumption
    <3>. QED
      BY <1>1, <1>4, <3>1, <3>2
  <2>. QED
    BY <2>1, <2>2 DEF MapIn
<1>9. ShellsIn(sessions', process', shell')
  <2>1. \A x \in Key : sessions[x] # NoSession => sessions'[x] = sessions[x]
    BY <1>1, <1>4
  <2>. QED
    BY <2>1 DEF IInv, ShellsIn
<1>10. \A u \in Session : sessions[key[u]] = u => key'[u] = key[u]
  BY <1>5, <1>7 DEF IInv, Shape
<1>11. \A x \in Key : x[1] # k[1] => sessions'[x] = sessions[x]
  BY <1>1, <1>4
<1>. QED
  BY <1>1, <1>4, <1>6, <1>7, <1>8, <1>9, <1>10, <1>11 DEF Effects, IInv, Shape

\* The call that inserted it goes on to start or to write it.
LEMMA InsertedIInv ==
    ASSUME IInv, NEW c \in Call, NEW o \in Session, NEW step \in {"spawn", "persist"},
           InProgress(c), call[c].op \in Starting, Effects(call[c].key[1]),
           sessions'[call[c].key] = o, process'[o] = NoShell, locks' = locks,
           call' = [call EXCEPT ![c].step = step, ![c].session = o]
    PROVE  IInv'
<1>. DEFINE r == [call[c] EXCEPT !.step = step, !.session = o]
<1>1. /\ r \in CallState /\ r.step = step /\ r.key = call[c].key /\ r.op = call[c].op
      /\ r.session = o /\ call' = [call EXCEPT ![c] = r]
  BY CallType DEF CallState
<1>2. StepFits(r) /\ HoldsIn(r, sessions', key', process')
  BY <1>1 DEF StepFits, HoldsIn, Starting, Closing
<1>. QED
  BY <1>1, <1>2, ReadyAtHead, CallGoesOn

LEMMA ReadHistoryIInv ==
    ASSUME Room, IInv, NEW c \in Call, NEW o \in Session, ReadHistory(c, o) PROVE IInv'
<1>1. /\ call[c].op = "open" /\ sessions[call[c].key] = NoSession
      /\ call[c].op \in Starting /\ InProgress(c)
  BY CallType DEF ReadHistory, StepFits, HoldsIn, Starting, InProgress
<1>2. /\ Effects(call[c].key[1]) /\ sessions'[call[c].key] = o /\ process'[o] = NoShell
  BY <1>1, InsertEffects DEF ReadHistory, shellVars
<1>. QED
  BY <1>1, <1>2, InsertedIInv DEF ReadHistory

LEMMA RestartAbsentIInv ==
    ASSUME Room, IInv, NEW c \in Call, NEW o \in Session, RestartAbsent(c, o) PROVE IInv'
<1>1. call[c].op \in Starting /\ InProgress(c)
  BY DEF RestartAbsent, Starting, InProgress
<1>2. /\ Effects(call[c].key[1]) /\ sessions'[call[c].key] = o /\ process'[o] = NoShell
  BY InsertEffects DEF RestartAbsent, shellVars
<1>. QED
  BY <1>1, <1>2, InsertedIInv DEF RestartAbsent

\* The session a spawn is for is in the map, under the call's key, without a process.
LEMMA SpawnHolds ==
    ASSUME IInv, NEW c \in Call, call[c].step = "spawn"
    PROVE  LET o == call[c].session
           IN  /\ o \in Session /\ sessions[call[c].key] = o /\ key[o] = call[c].key
               /\ sessions[key[o]] = o /\ process[o] = NoShell /\ AtHead(c)
<1>1. call[c].op \in Starting /\ AtHead(c)
  BY CallType, ReadyAtHead DEF StepFits, InProgress
<1>2. /\ call[c].session \in Session /\ sessions[call[c].key] = call[c].session
      /\ process[call[c].session] = NoShell
  BY <1>1, CallType DEF HoldsIn
<1>. QED
  BY <1>1, <1>2, CallType, ConstantsAssumption DEF IInv, MapIn

LEMMA SpawnedIInv ==
    ASSUME IInv, NEW c \in Call, NEW p \in Shell, Spawned(c, p) PROVE IInv'
<1>. DEFINE o == call[c].session
<1>1. /\ o \in Session /\ sessions[call[c].key] = o /\ key[o] = call[c].key
      /\ sessions[key[o]] = o /\ process[o] = NoShell /\ AtHead(c)
      /\ call[c].key \in Key
  BY SpawnHolds, CallType DEF Spawned
<1>2. /\ UNCHANGED <<sessions, idle, key>> /\ Finish(c)
      /\ shell' = [shell EXCEPT ![p] = "running"] /\ process' = [process EXCEPT ![o] = p]
  BY DEF Spawned, mapVars
<1>3. /\ process' \in [Session -> Shell \cup {NoShell}] /\ process'[o] = p
      /\ \A u \in Session \ {o} : process'[u] = process[u]
      /\ shell' \in [Shell -> {"free", "running", "signalled", "dead"}]
      /\ \A q \in Shell \ {p} : shell'[q] = shell[q]
  BY <1>1, <1>2 DEF IInv, Shape
<1>4. MapIn(sessions', key', process')
  BY <1>1, <1>2, <1>3 DEF IInv, MapIn
<1>5. ASSUME NEW q \in Shell, shell'[q] = "running"
      PROVE  \E k \in Key : sessions'[k] # NoSession /\ process'[sessions'[k]] = q
  <2>1. CASE q = p
    BY <1>1, <1>2, <1>3, <2>1, ConstantsAssumption
  <2>2. CASE q # p
    <3>1. PICK k \in Key : sessions[k] # NoSession /\ process[sessions[k]] = q
      BY <1>3, <1>5, <2>2 DEF IInv, ShellsIn
    <3>2. sessions[k] \in Session \ {o}
      BY <1>1, <3>1, ConstantsAssumption DEF IInv, Shape
    <3>. QED
      BY <1>2, <1>3, <3>1, <3>2
  <2>. QED
    BY <2>1, <2>2
<1>6. Effects(call[c].key[1])
  BY <1>1, <1>2, <1>3, <1>4, <1>5 DEF Effects, ShellsIn, IInv, Shape
<1>. QED
  BY <1>1, <1>2, <1>6, CallEnds

LEMMA SpawnFailsIInv == ASSUME Room, IInv, NEW c \in Call, SpawnFails(c) PROVE IInv'
<1>. DEFINE o == call[c].session
            K == Evicted(sessions, status', idle)
<1>1. o \in Session /\ process[o] = NoShell /\ AtHead(c)
  BY SpawnHolds DEF SpawnFails
<1>2. sessions' = sessions /\ idle' \in [Session -> Nat]
  <2>1. RemoveFromMap(sessions, idle, K)
    BY DEF SpawnFails
  <2>. QED
    BY <2>1, NobodyLeaves
<1>3. process' = process
  BY <1>1 DEF SpawnFails, IInv, Shape
<1>4. UNCHANGED <<key, shell>> /\ Finish(c)
  BY DEF SpawnFails, shellVars
<1>5. Effects(call[c].key[1])
  BY <1>2, <1>3, <1>4 DEF Effects, IInv, Shape
<1>. QED
  BY <1>1, <1>4, <1>5, CallEnds

LEMMA CloseNextIInv ==
    ASSUME Room, IInv, NEW c \in Call, NEW o \in Session, CloseNext(c, o) PROVE IInv'
<1>. DEFINE th == call[c].key[1]
            r == [call[c] EXCEPT !.left = @ \ {o}]
            K == EvictedByStop(o)
<1>1. /\ AtHead(c) /\ call[c].step = "closing" /\ o \in call[c].left
      /\ StopProcess(o) /\ UNCHANGED <<locks, key>>
      /\ call' = [call EXCEPT ![c].left = @ \ {o}]
      /\ RemoveFromMap(sessions, idle, K \cup {key[o]})
  BY ReadyAtHead DEF CloseNext, Continues
<1>2. /\ \A u \in call[c].left : u \in Session /\ sessions[key[u]] = u /\ key[u] \in Targets(call[c])
      /\ \A k \in Targets(call[c]) : sessions[k] = NoSession \/ sessions[k] \in call[c].left
  BY <1>1, CallType DEF HoldsIn, CallState
<1>3. /\ sessions[key[o]] = o /\ key[o] \in Key /\ key[o][1] = th
      /\ Targets(call[c]) \subseteq Key
  BY <1>1, <1>2, CallType, TargetsType
<1>4. /\ process' \in [Session -> Shell \cup {NoShell}] /\ process'[o] = NoShell
      /\ \A u \in Session \ {o} : process'[u] = process[u]
      /\ shell' \in [Shell -> {"free", "running", "signalled", "dead"}]
      /\ \A p \in Shell : shell'[p] = "running" => shell[p] = "running" /\ process[o] # p
  BY <1>1, StopProcessStops
<1>5. /\ sessions' \in [Key -> Session \cup {NoSession}] /\ idle' \in [Session -> Nat]
      /\ sessions'[key[o]] = NoSession
      /\ \A k \in Key \ {key[o]} : sessions'[k] = sessions[k]
  <2>. DEFINE rest == [k \in Key |-> IF k \in {key[o]} THEN NoSession ELSE sessions[k]]
  <2>1. Evicted(sessions, status', idle) = {}
    BY NobodyEvicted DEF IInv, Shape
  <2>2. K \cup {key[o]} = {key[o]}
    BY <2>1 DEF EvictedByStop
  <2>3. sessions' = rest /\ idle' = Ranked(idle, Registered(rest))
    BY <1>1, <2>2 DEF RemoveFromMap
  <2>4. rest \in [Key -> Session \cup {NoSession}]
    BY DEF IInv, Shape
  <2>. QED
    BY <1>3, <2>3, <2>4, RegisteredType, RankedType
<1>6. MapIn(sessions', key', process')
  <2>1. \A k \in Key : sessions'[k] # NoSession => key[sessions'[k]] = k
    BY <1>5 DEF IInv, MapIn
  <2>2. ASSUME NEW u \in Session, process'[u] # NoShell PROVE sessions'[key[u]] = u
    <3>1. u # o /\ sessions[key[u]] = u /\ key[u] \in Key
      BY <1>4, <2>2 DEF IInv, MapIn, Shape
    <3>. QED
      BY <1>3, <1>5, <3>1
  <2>. QED
    BY <1>1, <2>1, <2>2 DEF MapIn
<1>7. ASSUME NEW p \in Shell, shell'[p] = "running"
      PROVE  \E k \in Key : sessions'[k] # NoSession /\ process'[sessions'[k]] = p
  <2>1. PICK k \in Key : sessions[k] # NoSession /\ process[sessions[k]] = p
    BY <1>4, <1>7 DEF IInv, ShellsIn
  <2>2. sessions[k] \in Session \ {o} /\ k # key[o]
    BY <1>3, <1>4, <1>7, <2>1 DEF IInv, Shape
  <2>. QED
    BY <1>4, <1>5, <2>1, <2>2
<1>8. Effects(th)
  BY <1>1, <1>3, <1>4, <1>5, <1>6, <1>7 DEF Effects, ShellsIn, IInv, Shape
<1>9. /\ r \in CallState /\ r.step = "closing" /\ r.key = call[c].key /\ r.op = call[c].op
      /\ r.left = call[c].left \ {o} /\ call' = [call EXCEPT ![c] = r]
  BY <1>1, CallType DEF CallState
<1>10. Targets(r) = Targets(call[c])
  BY <1>9 DEF Targets
<1>11. \A u \in r.left : sessions'[key'[u]] = u /\ key'[u] \in Targets(r)
  BY <1>1, <1>2, <1>3, <1>5, <1>9, <1>10
<1>12. \A k \in Targets(r) : sessions'[k] = NoSession \/ sessions'[k] \in r.left
  <2>. SUFFICES ASSUME NEW k \in Targets(call[c]), k # key[o], sessions[k] # NoSession
                PROVE  sessions[k] \in call[c].left \ {o}
    BY <1>3, <1>5, <1>9, <1>10
  <2>1. key[sessions[k]] = k
    BY <1>3 DEF IInv, MapIn
  <2>. QED
    BY <1>2, <2>1
<1>13. StepFits(r) /\ HoldsIn(r, sessions', key', process')
  <2>1. call[c].op \in Closing
    BY <1>1, CallType DEF StepFits
  <2>. QED
    BY <1>9, <1>11, <1>12, <2>1 DEF StepFits, HoldsIn, Closing
<1>. QED
  BY <1>1, <1>8, <1>9, <1>13, CallGoesOn

-----------------------------------------------------------------------------
(* What happens outside the lock.                                              *)

LEMMA RequestCallIInv ==
    ASSUME IInv, NEW c \in Call, NEW op \in Operation, NEW k \in Key, NEW cfg \in Config,
           NEW del \in BOOLEAN, RequestCall(c, op, k, cfg, del)
    PROVE  IInv'
<1>. DEFINE r == [NoCall EXCEPT !.op = op, !.key = k, !.config = cfg, !.delete = del,
                                !.step = "queued"]
<1>1. /\ UNCHANGED <<mapVars, key, process, shell>> /\ call[c].step = "idle"
      /\ call' = [call EXCEPT ![c] = r] /\ locks' = [locks EXCEPT ![k[1]] = Append(@, c)]
  BY DEF RequestCall, sessionVars, shellVars
<1>2. r \in CallState /\ r.step = "queued" /\ r.key = k
  BY NoCallType DEF CallState
<1>3. call' \in [Call -> CallState] /\ locks' \in [Thread -> Seq(Call)] /\ LocksHeld'
  BY <1>1, <1>2, RequestQueues
<1>4. \A d \in Call : call'[d] = IF d = c THEN r ELSE call[d]
  BY <1>1 DEF IInv, Shape
<1>5. StepFits(r) /\ HoldsIn(r, sessions, key, process)
  BY <1>2 DEF StepFits, HoldsIn
<1>6. \A d \in Call : StepFits(call'[d]) /\ HoldsIn(call'[d], sessions', key', process')
  BY <1>1, <1>4, <1>5 DEF IInv, CallsFit, mapVars
<1>7. MapIn(sessions, key, process)' /\ ShellsIn(sessions, process, shell)'
  BY <1>1 DEF IInv, MapIn, ShellsIn, mapVars
<1>. QED
  BY <1>1, <1>3, <1>6, <1>7 DEF IInv, Shape, CallsFit, StepFits, HoldsIn, mapVars

LEMMA TouchIInv == ASSUME IInv, NEW k \in Key, Touch(k) PROVE IInv'
<1>1. sessions[k] \in Session
  BY DEF Touch, IInv, Shape
<1>2. idle' \in [Session -> Nat]
  BY <1>1, TouchedType DEF Touch, IInv
<1>. QED
  BY <1>2, OutsideLock DEF Touch, sessionVars, shellVars, IInv, Shape

LEMMA ProcessExitIInv == ASSUME Room, IInv, NEW o \in Session, ProcessExit(o) PROVE IInv'
<1>. DEFINE K == Evicted(sessions, status', idle)
<1>1. sessions' = sessions /\ idle' \in [Session -> Nat]
  <2>1. RemoveFromMap(sessions, idle, K)
    BY DEF ProcessExit
  <2>. QED
    BY <2>1, NobodyLeaves
<1>2. /\ process' = [process EXCEPT ![o] = NoShell] /\ process[o] \in Shell
      /\ shell' = [shell EXCEPT ![process[o]] = "free"]
      /\ UNCHANGED <<callVars, key>>
  BY DEF ProcessExit, IInv, Shape
<1>3. /\ process' \in [Session -> Shell \cup {NoShell}] /\ process'[o] = NoShell
      /\ \A u \in Session \ {o} : process'[u] = process[u]
      /\ shell' \in [Shell -> {"free", "running", "signalled", "dead"}]
      /\ \A p \in Shell : shell'[p] = "running" => shell[p] = "running" /\ process[o] # p
  BY <1>2 DEF IInv, Shape
<1>4. ASSUME NEW p \in Shell, shell'[p] = "running"
      PROVE  \E k \in Key : sessions[k] # NoSession /\ process'[sessions[k]] = p
  <2>1. PICK k \in Key : sessions[k] # NoSession /\ process[sessions[k]] = p
    BY <1>3, <1>4 DEF IInv, ShellsIn
  <2>2. sessions[k] \in Session \ {o}
    BY <1>3, <1>4, <2>1 DEF IInv, Shape
  <2>. QED
    BY <1>3, <2>1, <2>2
<1>5. \A u \in Session : process'[u] \in {process[u], NoShell}
  BY <1>3
<1>6. ShellsIn(sessions, process', shell')
  BY <1>4 DEF ShellsIn
<1>. QED
  BY <1>1, <1>2, <1>3, <1>5, <1>6, OutsideLock

\* A shell that was told to stop is gone.
LEMMA ShellEndsIInv ==
    ASSUME IInv, NEW p \in Shell, SignalledExits(p) \/ KillTimerFires(p) PROVE IInv'
<1>1. /\ UNCHANGED <<callVars, sessions, idle, key, process>>
      /\ shell' \in [Shell -> {"free", "running", "signalled", "dead"}]
      /\ \A q \in Shell : shell'[q] = "running" => shell[q] = "running"
  BY DEF SignalledExits, KillTimerFires, mapVars, sessionVars, IInv, Shape
<1>2. ShellsIn(sessions, process', shell')
  BY <1>1 DEF IInv, ShellsIn
<1>. QED
  BY <1>1, <1>2, OutsideLock DEF IInv, Shape

LEMMA UnseenIInv ==
    ASSUME IInv, UNCHANGED <<callVars, mapVars, key, process, shell>> PROVE IInv'
  BY OutsideLock DEF mapVars, IInv, Shape

-----------------------------------------------------------------------------
(* The invariant.                                                              *)

LEMMA InitIInv == Init => IInv
<1>. SUFFICES ASSUME Init PROVE IInv
  OBVIOUS
<1>1. Shape
  BY NoCallType DEF Init, Shape, CallState
<1>2. \A c \in Call : call[c] = NoCall
  BY DEF Init
<1>3. LocksHeld
  BY <1>2, NoCallType DEF Init, LocksHeld, InProgress
<1>4. CallsFit
  BY <1>2, NoCallType DEF CallsFit, StepFits, HoldsIn, Closing
<1>5. MapIn(sessions, key, process) /\ ShellsIn(sessions, process, shell)
  BY DEF Init, MapIn, ShellsIn
<1>. QED
  BY <1>1, <1>3, <1>4, <1>5 DEF IInv

LEMMA CallStepIInv == ASSUME Room, IInv, NEW c \in Call, CallStep(c) PROVE IInv'
<1>1. CASE BeginStart(c)
  BY <1>1, BeginStartIInv
<1>2. CASE BeginClear(c)
  BY <1>2, BeginClearIInv
<1>3. CASE BeginClose(c)
  BY <1>3, BeginCloseIInv
<1>4. CASE StatFails(c)
  BY <1>4, StatFailsIInv
<1>5. CASE OpenAbsent(c)
  BY <1>5, OpenAbsentIInv
<1>6. CASE OpenReset(c)
  BY <1>6, OpenResetIInv
<1>7. CASE OpenAttach(c)
  BY <1>7, OpenAttachIInv
<1>8. CASE RestartPresent(c)
  BY <1>8, RestartPresentIInv
<1>9. CASE \E o \in Session : ReadHistory(c, o)
  BY <1>9, ReadHistoryIInv
<1>10. CASE \E o \in Session : RestartAbsent(c, o)
  BY <1>10, RestartAbsentIInv
<1>11. CASE \E o \in Session : CloseNext(c, o)
  BY <1>11, CloseNextIInv
<1>12. CASE Persisted(c)
  BY <1>12, PersistedIInv
<1>13. CASE SpawnFails(c)
  BY <1>13, SpawnFailsIInv
<1>14. CASE \E p \in Shell : Spawned(c, p)
  BY <1>14, SpawnedIInv
<1>15. CASE CloseFlush(c)
  BY <1>15, CloseFlushIInv
<1>16. CASE Flushed(c)
  BY <1>16, FlushedIInv
<1>17. CASE DeleteHistory(c)
  BY <1>17, DeleteHistoryIInv
<1>18. CASE \E k \in Key : FlushStep(c, k)
  BY <1>18, FlushStepIInv
<1>. QED
  BY <1>1, <1>2, <1>3, <1>4, <1>5, <1>6, <1>7, <1>8, <1>9, <1>10, <1>11, <1>12, <1>13, <1>14,
     <1>15, <1>16, <1>17, <1>18 DEF CallStep

LEMMA EnvironmentInv == ASSUME Room, IInv, Environment PROVE Inv'
<1>1. CASE \E c \in Call, op \in Operation \cap Requests, k \in Key, cfg \in Config,
             del \in BOOLEAN : RequestCall(c, op, k, cfg, del)
  BY <1>1, RequestCallIInv DEF Inv
<1>2. CASE \E k \in Key : Touch(k)
  BY <1>2, TouchIInv DEF Inv
<1>3. CASE \E o \in Session : ProcessData(o)
  BY <1>3, UnseenIInv DEF Inv, ProcessData, sessionVars, shellVars
<1>4. CASE \E o \in Session : ProcessExit(o)
  BY <1>4, ProcessExitIInv DEF Inv
<1>5. CASE \E p \in Shell : SignalledExits(p)
  BY <1>5, ShellEndsIInv DEF Inv
<1>6. CASE Dispose
  BY <1>6 DEF Dispose, Inv
<1>. QED
  BY <1>1, <1>2, <1>3, <1>4, <1>5, <1>6 DEF Environment

\* Nothing brings a disposed manager back.
LEMMA CallStepDisposed ==
    ASSUME NEW c \in Call, CallStep(c) PROVE disposed' = disposed
<1>1. CASE BeginStart(c) \/ BeginClear(c) \/ BeginClose(c) \/ StatFails(c) \/ OpenAbsent(c)
  BY <1>1 DEF BeginStart, BeginClear, BeginClose, StatFails, OpenAbsent
<1>2. CASE OpenReset(c) \/ OpenAttach(c) \/ RestartPresent(c) \/ Persisted(c) \/ SpawnFails(c)
  BY <1>2 DEF OpenReset, OpenAttach, RestartPresent, Persisted, SpawnFails
<1>3. CASE \E o \in Session : ReadHistory(c, o) \/ RestartAbsent(c, o) \/ CloseNext(c, o)
  BY <1>3 DEF ReadHistory, RestartAbsent, CloseNext
<1>4. CASE (\E p \in Shell : Spawned(c, p)) \/ (\E k \in Key : FlushStep(c, k))
  BY <1>4 DEF Spawned, FlushStep
<1>5. CASE CloseFlush(c) \/ Flushed(c) \/ DeleteHistory(c)
  BY <1>5 DEF CloseFlush, Flushed, DeleteHistory
<1>. QED
  BY <1>1, <1>2, <1>3, <1>4, <1>5 DEF CallStep

LEMMA DisposedStays == ASSUME disposed, [Next]_vars PROVE disposed'
<1>1. CASE \E c \in Call : CallStep(c)
  BY <1>1, CallStepDisposed
<1>2. CASE \E k \in Key : PersistTimerFires(k) \/ WriteStep(k)
  BY <1>2 DEF PersistTimerFires, WriteStep, WriteEnds
<1>3. CASE (\E p \in Shell : KillTimerFires(p)) \/ PollBegins
           \/ (\E active \in SUBSET Shell : PollEnds(active))
  BY <1>3 DEF KillTimerFires, PollBegins, PollEnds
<1>4. CASE Environment
  BY <1>4 DEF Environment, RequestCall, Touch, ProcessData, ProcessExit, SignalledExits, Dispose
<1>5. CASE UNCHANGED vars
  BY <1>5 DEF vars
<1>. QED
  BY <1>1, <1>2, <1>3, <1>4, <1>5 DEF Next

LEMMA NextInv == ASSUME Room, Inv, [Next]_vars PROVE Inv'
<1>1. CASE disposed
  BY <1>1, DisposedStays DEF Inv
<1>2. CASE IInv /\ \E c \in Call : CallStep(c)
  BY <1>2, CallStepIInv DEF Inv
<1>3. CASE IInv /\ \E k \in Key : PersistTimerFires(k)
  BY <1>3, UnseenIInv DEF Inv, PersistTimerFires, sessionVars, shellVars
<1>4. CASE IInv /\ \E k \in Key : WriteStep(k)
  BY <1>4, UnseenIInv DEF Inv, WriteStep, WriteEnds, sessionVars, shellVars
<1>5. CASE IInv /\ \E p \in Shell : KillTimerFires(p)
  BY <1>5, ShellEndsIInv DEF Inv
<1>6. CASE IInv /\ PollBegins
  BY <1>6, UnseenIInv DEF Inv, PollBegins, sessionVars, shellVars
<1>7. CASE IInv /\ \E active \in SUBSET Shell : PollEnds(active)
  BY <1>7, UnseenIInv DEF Inv, PollEnds, shellVars
<1>8. CASE IInv /\ Environment
  BY <1>8, EnvironmentInv
<1>9. CASE IInv /\ UNCHANGED vars
  BY <1>9, UnseenIInv DEF Inv, vars, mapVars, callVars
<1>. QED
  BY <1>1, <1>2, <1>3, <1>4, <1>5, <1>6, <1>7, <1>8, <1>9 DEF Inv, Next

\* The invariant of every behaviour: locks are held by one call, the map is exact, and
\* what a call relies on while it awaits stays true (runWithThreadLock).
THEOREM SpecInv == ASSUME Room PROVE Spec => []Inv
<1>1. Init => Inv
  BY InitIInv DEF Inv
<1>2. Inv /\ [Next]_vars => Inv'
  BY NextInv
<1>. QED
  BY <1>1, <1>2, PTL DEF Spec

\* A shell that runs and was not told to stop is the process of a session in the map, so
\* that close, restart and dispose reach it (Manager.ts:723-735, 1045-1061).
THEOREM SpecNoLostShell == ASSUME Room PROVE Spec => []NoLostShell
<1>1. Inv => NoLostShell
  BY DEF Inv, IInv, ShellsIn, NoLostShell
<1>. QED
  BY <1>1, SpecInv, PTL

-----------------------------------------------------------------------------
(* What a close has done when it ends.                                         *)

\* A close ends after its flush or its deletion, which leave the sessions alone.
LEMMA CloseEnds ==
    ASSUME IInv, NEW c \in Call, NEW d \in Call, CallStep(d),
           call[c].op \in Closing, call'[c].op = "none"
    PROVE  call[c].step \in {"flush", "delete"} /\ process' = process
<1>1. /\ call \in [Call -> CallState] /\ call[c].step \in {"queued", "closing", "flush", "delete"}
      /\ call[c].op # "none" /\ call[c].op \notin {"open", "restart", "clear"}
  BY CallType DEF IInv, Shape, StepFits, Closing
<1>2. CASE BeginStart(d) \/ BeginClear(d) \/ BeginClose(d) \/ StatFails(d) \/ OpenAbsent(d)
  <2>1. CASE BeginStart(d)
    BY <1>1, <2>1 DEF BeginStart, Goto, CallState
  <2>2. CASE BeginClear(d)
    BY <1>1, <2>2 DEF BeginClear, Finish, CallState
  <2>3. CASE BeginClose(d)
    BY <1>1, <2>3 DEF BeginClose, CallState
  <2>4. CASE StatFails(d) \/ OpenAbsent(d)
    BY <1>1, <2>4 DEF StatFails, OpenAbsent, Finish, CallState
  <2>. QED
    BY <1>2, <2>1, <2>2, <2>3, <2>4
<1>3. CASE OpenReset(d) \/ OpenAttach(d) \/ RestartPresent(d)
  BY <1>1, <1>3 DEF OpenReset, OpenAttach, RestartPresent, StartSession, Finish, CallState
<1>4. CASE Persisted(d) \/ SpawnFails(d) \/ \E p \in Shell : Spawned(d, p)
  BY <1>1, <1>4 DEF Persisted, SpawnFails, Spawned, StartSession, Finish, CallState
<1>5. CASE \E o \in Session : ReadHistory(d, o) \/ RestartAbsent(d, o) \/ CloseNext(d, o)
  BY <1>1, <1>5 DEF ReadHistory, RestartAbsent, CloseNext, CallState
<1>6. CASE CloseFlush(d) \/ \E k \in Key : FlushStep(d, k)
  <2>1. CASE CloseFlush(d)
    BY <1>1, <2>1 DEF CloseFlush, Goto, CallState
  <2>2. CASE \E k \in Key : FlushStep(d, k)
    BY <1>1, <2>2 DEF FlushStep, CallState
  <2>. QED
    BY <1>6, <2>1, <2>2
<1>7. CASE Flushed(d) \/ DeleteHistory(d)
  BY <1>1, <1>7 DEF Flushed, DeleteHistory, Goto, Finish, sessionVars, CallState
<1>. QED
  BY <1>2, <1>3, <1>4, <1>5, <1>6, <1>7 DEF CallStep

\* Only its own steps end a call.
LEMMA OthersEndNone ==
    ASSUME IInv, NEW c \in Call, call[c].op # "none", [Next]_vars,
           ~\E d \in Call : CallStep(d)
    PROVE  call'[c].op # "none"
<1>1. CASE Environment
  <2>1. CASE \E d \in Call, op \in Operation \cap Requests, k \in Key, cfg \in Config,
               del \in BOOLEAN : RequestCall(d, op, k, cfg, del)
    <3>1. PICK d \in Call, op \in Operation, k \in Key, cfg \in Config, del \in BOOLEAN :
              RequestCall(d, op, k, cfg, del)
      BY <2>1
    <3>2. call'[c].op = IF c = d THEN op ELSE call[c].op
      BY <3>1, NoCallType DEF RequestCall, IInv, Shape, CallState
    <3>. QED
      BY <3>2 DEF Operation
  <2>2. CASE UNCHANGED callVars
    BY <2>2 DEF callVars
  <2>. QED
    BY <1>1, <2>1, <2>2 DEF Environment, Touch, ProcessData, ProcessExit, SignalledExits, Dispose
<1>2. CASE ~Environment
  <2>1. UNCHANGED callVars
    BY <1>2 DEF Next, PersistTimerFires, WriteStep, WriteEnds, KillTimerFires, PollBegins,
                PollEnds, vars, callVars
  <2>. QED
    BY <2>1 DEF callVars
<1>. QED
  BY <1>1, <1>2

\* When a close ends, no session of the keys it was asked to close has a process
\* (Manager.ts:521-545, 1045-1061).
THEOREM SpecCloseStopsShells == ASSUME Room PROVE Spec => CloseStopsShells
<1>. DEFINE Stopped ==
        \A c \in Call :
          call[c].op \in {"close", "closeAll"} /\ call'[c].op = "none" /\ ~disposed =>
              \A o \in Session :
                  \/ key[o] # call[c].key /\ call[c].op = "close"
                  \/ key[o][1] # call[c].key[1]
                  \/ process'[o] = NoShell
<1>1. Inv /\ [Next]_vars => [Stopped]_vars
  <2>. SUFFICES ASSUME Inv, [Next]_vars, NEW c \in Call, ~disposed,
                       call[c].op \in Closing, call'[c].op = "none",
                       NEW o \in Session, key[o] = call[c].key \/ call[c].op # "close",
                       key[o][1] = call[c].key[1]
                PROVE  process'[o] = NoShell
    BY DEF Closing
  <2>1. IInv
    BY DEF Inv
  <2>2. PICK d \in Call : CallStep(d)
    BY <2>1, OthersEndNone DEF Closing
  <2>3. call[c].step \in {"flush", "delete"} /\ process' = process
    BY <2>1, <2>2, CloseEnds
  <2>4. key[o] \in Targets(call[c])
    BY <2>1 DEF IInv, Shape, Targets, KeysOf
  <2>5. sessions[key[o]] = NoSession
    BY <2>1, <2>3, <2>4, CallType DEF HoldsIn
  <2>6. process[o] = NoShell
    BY <2>1, <2>5, ConstantsAssumption DEF IInv, MapIn
  <2>. QED
    BY <2>3, <2>6
<1>. QED
  BY <1>1, SpecInv, PTL DEF Spec, CloseStopsShells

-----------------------------------------------------------------------------
(* Histories: what memory holds, the queue of writes and the files.            *)


HistoryShape ==
    /\ pending \in [Key -> Session \cup {NoSession}]
    /\ queued \subseteq Key
    /\ writes \in [Key -> Seq(Write)]
    /\ file \in [Key -> Nat] /\ version \in [Key -> Nat]
    /\ buffer \in [Session -> Nat]

\* What memory still has to bring to the disk, and what the disk will hold then.
Unsaved(k) == pending[k] # NoSession \/ writes[k] # <<>>
Latest(k) == IF pending[k] # NoSession THEN buffer[pending[k]]
             ELSE IF writes[k] # <<>> THEN writes[k][Len(writes[k])].version
             ELSE file[k]

\* Pending text is of the key's session; the writes of a key run one after the other,
\* and the queue's entry is the last of them (enqueuePersistWrite).
Ordered(k) ==
    /\ pending[k] # NoSession => key[pending[k]] = k /\ sessions[k] \in {pending[k], NoSession}
    /\ k \in queued <=> writes[k] # <<>>
    /\ \A i \in 2..Len(writes[k]) : writes[k][i].chained

\* Nothing is lost on the way from the buffer to the disk.
Saved(k) ==
    /\ Latest(k) = version[k]
    /\ sessions[k] # NoSession => buffer[sessions[k]] = version[k]

\* A close that stops sessions or flushes what they left.
IsFlushing(r) == r.op \in Closing /\ r.step \in {"closing", "flush"}

Flushes(r, ky) ==
    /\ \A k \in r.flushing : k[1] = r.key[1]
    /\ r.step = "closing" => \A o \in r.left : ky[o] \in r.flushing

\* What a removed session left unsaved is in the hands of the close that removed it.
Entrusted ==
    \A k \in Key : sessions[k] = NoSession /\ Unsaved(k) =>
        \E c \in Call : IsFlushing(call[c]) /\ k \in call[c].flushing

FlushesFit == \A c \in Call : Flushes(call[c], key)

QueueIInv ==
    /\ HistoryShape /\ Entrusted /\ FlushesFit
    /\ \A k \in Key : Ordered(k)

HistoryIInv == QueueIInv /\ \A k \in Key : Saved(k)

-----------------------------------------------------------------------------
(* Calls.                                                                      *)

\* A step of call c that leaves nothing unsaved behind.
LEMMA CallEntrusts ==
    ASSUME IInv, QueueIInv, NEW c \in Call, NEW r \in CallState,
           call' = [call EXCEPT ![c] = r], Flushes(r, key'),
           \A o \in Session : sessions[key[o]] = o => key'[o] = key[o],
           \A k \in Key : IsFlushing(call[c]) /\ k \in call[c].flushing =>
               (IsFlushing(r) /\ k \in r.flushing) \/ ~Unsaved(k)',
           \A k \in Key : sessions'[k] = NoSession /\ Unsaved(k)' =>
               (sessions[k] = NoSession /\ Unsaved(k)) \/ (IsFlushing(r) /\ k \in r.flushing)
    PROVE  Entrusted' /\ FlushesFit'
<1>1. \A d \in Call : call'[d] = IF d = c THEN r ELSE call[d]
  BY DEF IInv, Shape
<1>2. ASSUME NEW k \in Key, sessions'[k] = NoSession, Unsaved(k)'
      PROVE  \E d \in Call : IsFlushing(call'[d]) /\ k \in call'[d].flushing
  <2>1. CASE IsFlushing(r) /\ k \in r.flushing
    BY <1>1, <2>1
  <2>2. CASE ~(IsFlushing(r) /\ k \in r.flushing)
    <3>1. PICK d \in Call : IsFlushing(call[d]) /\ k \in call[d].flushing
      BY <1>2, <2>2 DEF QueueIInv, Entrusted
    <3>2. d # c
      BY <1>2, <2>2, <3>1
    <3>. QED
      BY <1>1, <3>1, <3>2
  <2>. QED
    BY <2>1, <2>2
<1>3. ASSUME NEW d \in Call PROVE Flushes(call'[d], key')
  <2>1. CASE d = c
    BY <1>1, <2>1
  <2>2. CASE d # c
    <3>1. call'[d] = call[d] /\ Flushes(call[d], key) /\ call[d].left \subseteq Session
      BY <1>1, <2>2, CallType DEF QueueIInv, FlushesFit, CallState
    <3>2. call[d].step = "closing" => \A o \in call[d].left : sessions[key[o]] = o
      BY CallType DEF HoldsIn
    <3>. QED
      BY <3>1, <3>2 DEF Flushes
  <2>. QED
    BY <2>1, <2>2
<1>. QED
  BY <1>2, <1>3 DEF Entrusted, FlushesFit, IsFlushing, Flushes

\* A step outside the lock.
LEMMA CallsSame ==
    ASSUME QueueIInv, call' = call, key' = key,
           \A k \in Key : sessions'[k] = NoSession /\ Unsaved(k)' =>
               sessions[k] = NoSession /\ Unsaved(k)
    PROVE  Entrusted' /\ FlushesFit'
  BY DEF QueueIInv, Entrusted, FlushesFit, IsFlushing, Flushes

\* What is absent and in nobody's hands is saved; of a thread whose lock is held by a
\* call that does not flush, that is all.
LEMMA AbsentSaved ==
    ASSUME IInv, QueueIInv, NEW c \in Call, InProgress(c), ~IsFlushing(call[c]),
           NEW k \in Key, k[1] = call[c].key[1], sessions[k] = NoSession
    PROVE  ~Unsaved(k)
<1>. SUFFICES ASSUME Unsaved(k) PROVE FALSE
  OBVIOUS
<1>1. PICK d \in Call : IsFlushing(call[d]) /\ k \in call[d].flushing
  BY DEF QueueIInv, Entrusted
<1>2. d # c /\ InProgress(d) /\ call[d].key[1] = k[1]
  BY <1>1 DEF IsFlushing, InProgress, QueueIInv, FlushesFit, Flushes
<1>. QED
  BY <1>2, OneHolder, ReadyAtHead

-----------------------------------------------------------------------------
(* Histories.                                                                  *)

\* A key whose queue, history and sessions a step leaves alone; its session may leave.
Untouched(k) ==
    /\ pending'[k] = pending[k] /\ (k \in queued' <=> k \in queued) /\ writes'[k] = writes[k]
    /\ file'[k] = file[k] /\ version'[k] = version[k]
    /\ sessions'[k] \in {sessions[k], NoSession}
    /\ \A o \in Session : o \in {pending[k], sessions[k]} =>
          buffer'[o] = buffer[o] /\ key'[o] = key[o]

LEMMA UntouchedOrdered ==
    ASSUME IInv, QueueIInv, NEW k \in Key, Untouched(k) PROVE Ordered(k)'
<1>1. Ordered(k) /\ pending[k] \in Session \cup {NoSession} /\ writes[k] \in Seq(Write)
  BY DEF QueueIInv, HistoryShape
<1>. QED
  BY <1>1 DEF Ordered, Untouched

LEMMA UntouchedSaved ==
    ASSUME IInv, HistoryIInv, NEW k \in Key, Untouched(k) PROVE Saved(k)'
<1>1. /\ Saved(k) /\ pending[k] \in Session \cup {NoSession}
      /\ sessions[k] \in Session \cup {NoSession}
  BY DEF HistoryIInv, QueueIInv, HistoryShape, IInv, Shape
<1>. QED
  BY <1>1 DEF Saved, Latest, Untouched

LEMMA UntouchedUnsaved ==
    ASSUME NEW k \in Key, Untouched(k) PROVE Unsaved(k)' = Unsaved(k)
  BY DEF Untouched, Unsaved

\* The variables of the histories.
dataVars == <<pending, queued, writes, file, version, buffer>>

LEMMA DataUntouched ==
    ASSUME UNCHANGED <<dataVars, key>>, NEW k \in Key, sessions'[k] \in {sessions[k], NoSession}
    PROVE  Untouched(k)
  BY DEF Untouched, dataVars

\* A session in the map is of its own key only, whether or not its text is pending.
LEMMA OwnSession ==
    ASSUME IInv, QueueIInv, NEW k \in Key, sessions[k] # NoSession,
           NEW x \in Key, x # k
    PROVE  pending[x] # sessions[k] /\ sessions[x] # sessions[k]
<1>1. key[sessions[k]] = k
  BY DEF IInv, MapIn
<1>2. sessions[x] # sessions[k]
  BY <1>1 DEF IInv, MapIn
<1>3. pending[x] # sessions[k]
  BY <1>1 DEF QueueIInv, Ordered
<1>. QED
  BY <1>2, <1>3

-----------------------------------------------------------------------------
(* Writes.                                                                     *)

LEMMA WriteJoins ==
    ASSUME HistoryShape, NEW k \in Key, NEW v \in Nat, NEW waiters \in SUBSET Call,
           writes' = Enqueued(k, k \in queued, v, waiters)
    PROVE  /\ writes' \in [Key -> Seq(Write)] /\ \A x \in Key \ {k} : writes'[x] = writes[x]
           /\ Len(writes'[k]) = Len(writes[k]) + 1 /\ Len(writes[k]) \in Nat
           /\ \A i \in 1..Len(writes[k]) : writes'[k][i] = writes[k][i]
           /\ writes'[k][Len(writes'[k])].version = v
           /\ k \in queued => writes'[k][Len(writes'[k])].chained
           /\ writes'[k] # <<>>
<1>. DEFINE new == [version |-> v, chained |-> k \in queued, waiters |-> waiters]
<1>1. writes' = [writes EXCEPT ![k] = Append(@, new)]
  BY Zenon DEF Enqueued
<1>2. new \in Write
  BY DEF Write
<1>3. new.version = v /\ (k \in queued => new.chained)
  OBVIOUS
<1>. HIDE DEF new
<1>4. /\ writes \in [Key -> Seq(Write)] /\ writes[k] \in Seq(Write)
      /\ Append(writes[k], new) \in Seq(Write)
  BY <1>2 DEF HistoryShape
<1>5. /\ writes' \in [Key -> Seq(Write)] /\ \A x \in Key \ {k} : writes'[x] = writes[x]
      /\ writes'[k] = Append(writes[k], new)
  BY <1>1, <1>4
<1>6. /\ Len(writes'[k]) = Len(writes[k]) + 1 /\ Len(writes[k]) \in Nat /\ writes'[k] # <<>>
      /\ \A i \in 1..Len(writes[k]) : writes'[k][i] = writes[k][i]
      /\ writes'[k][Len(writes'[k])] = new
  BY <1>2, <1>4, <1>5
<1>7. /\ writes'[k][Len(writes'[k])].version = v
      /\ k \in queued => writes'[k][Len(writes'[k])].chained
  BY <1>3, <1>6, Zenon
<1>. QED
  BY <1>5, <1>6, <1>7

\* The writes of a key stay in order when one joins them.
LEMMA EnqueuedOrdered ==
    ASSUME HistoryShape, NEW k \in Key, Ordered(k), NEW v \in Nat, NEW waiters \in SUBSET Call,
           writes' = Enqueued(k, k \in queued, v, waiters), queued' = queued \cup {k},
           pending'[k] = NoSession
    PROVE  Ordered(k)'
<1>1. /\ Len(writes'[k]) = Len(writes[k]) + 1 /\ Len(writes[k]) \in Nat
      /\ \A i \in 1..Len(writes[k]) : writes'[k][i] = writes[k][i]
      /\ k \in queued => writes'[k][Len(writes'[k])].chained
      /\ writes'[k] # <<>>
  BY WriteJoins
<1>2. writes[k] \in Seq(Write) /\ (Len(writes[k]) > 0 => writes[k] # <<>>)
  BY DEF HistoryShape
<1>3. ASSUME NEW i \in 2..Len(writes'[k]) PROVE writes'[k][i].chained
  <2>1. CASE i \in 2..Len(writes[k])
    BY <1>1, <2>1 DEF Ordered
  <2>2. CASE i = Len(writes'[k])
    <3>1. Len(writes[k]) > 0
      BY <1>1, <2>2
    <3>. QED
      BY <1>1, <1>2, <2>2, <3>1 DEF Ordered
  <2>. QED
    BY <1>1, <1>3, <2>1, <2>2
<1>. QED
  BY <1>1, <1>3 DEF Ordered

\* The other keys, when key k's history is written.
LEMMA OthersUntouched ==
    ASSUME HistoryShape, NEW k \in Key, NEW x \in Key \ {k}, NEW v \in Nat,
           NEW waiters \in SUBSET Call,
           writes' = Enqueued(k, k \in queued, v, waiters), queued' = queued \cup {k},
           pending'[x] = pending[x], file' = file, version'[x] = version[x],
           sessions'[x] = sessions[x],
           \A o \in Session : o \in {pending[x], sessions[x]} =>
              buffer'[o] = buffer[o] /\ key'[o] = key[o]
    PROVE  Untouched(x)
  BY WriteJoins DEF Untouched

\* Pending text of key k goes to the queue.
LEMMA PendingWritten ==
    ASSUME IInv, QueueIInv, NEW k \in Key, pending[k] # NoSession, NEW waiters \in SUBSET Call,
           writes' = Enqueued(k, k \in queued, buffer[pending[k]], waiters),
           pending' = [pending EXCEPT ![k] = NoSession], queued' = queued \cup {k},
           UNCHANGED <<file, version, buffer, key, sessions>>
    PROVE  /\ HistoryShape' /\ \A x \in Key : Ordered(x)' /\ (Unsaved(x)' => Unsaved(x))
           /\ HistoryIInv => \A x \in Key : Saved(x)'
<1>. DEFINE v == buffer[pending[k]]
<1>1. HistoryShape /\ pending[k] \in Session /\ v \in Nat /\ Ordered(k)
  BY DEF QueueIInv, HistoryShape
<1>2. /\ writes' \in [Key -> Seq(Write)] /\ writes'[k] # <<>>
      /\ writes'[k][Len(writes'[k])].version = v
  BY <1>1, WriteJoins
<1>3. /\ pending' \in [Key -> Session \cup {NoSession}] /\ pending'[k] = NoSession
      /\ \A x \in Key \ {k} : pending'[x] = pending[x]
  BY <1>1 DEF HistoryShape
<1>4. HistoryShape'
  BY <1>1, <1>2, <1>3 DEF HistoryShape
<1>5. \A x \in Key \ {k} : Untouched(x)
  BY <1>1, <1>3, OthersUntouched
<1>6. Ordered(k)' /\ Unsaved(k)
  BY <1>1, <1>3, EnqueuedOrdered DEF Unsaved
<1>7. ASSUME HistoryIInv PROVE Saved(k)'
  <2>1. Saved(k) /\ Latest(k) = v
    BY <1>1, <1>7 DEF HistoryIInv, Latest
  <2>. QED
    BY <1>2, <1>3, <2>1 DEF Saved, Latest
<1>8. ASSUME NEW x \in Key
      PROVE  Ordered(x)' /\ (Unsaved(x)' => Unsaved(x)) /\ (HistoryIInv => Saved(x)')
  <2>1. CASE x = k
    BY <1>6, <1>7, <2>1
  <2>2. CASE x # k
    BY <1>5, <2>2, UntouchedOrdered, UntouchedSaved, UntouchedUnsaved
  <2>. QED
    BY <2>1, <2>2
<1>. QED
  BY <1>4, <1>8

\* A session's history is reset, in memory and by a write of its own.
LEMMA ResetWritten ==
    ASSUME IInv, QueueIInv, NEW k \in Key, NEW o \in Session, NEW c \in Call,
           ClearBuffer(o, k), PersistHistory({}, k, version'[k], c),
           sessions' \in [Key -> Session \cup {NoSession}], sessions'[k] = o, key'[o] = k,
           \A u \in Session \ {o} : key'[u] = key[u],
           \A x \in Key \ {k} : sessions'[x] = sessions[x] /\ o \notin {pending[x], sessions[x]}
    PROVE  /\ HistoryShape' /\ \A x \in Key : Ordered(x)'
           /\ \A x \in Key \ {k} : Unsaved(x)' => Unsaved(x)
           /\ HistoryIInv => \A x \in Key : Saved(x)'
<1>. DEFINE v == version[k] + 1
<1>1. HistoryShape /\ v \in Nat /\ Ordered(k)
  BY DEF QueueIInv, HistoryShape
<1>2. /\ version' = [version EXCEPT ![k] = v] /\ buffer' = [buffer EXCEPT ![o] = v]
      /\ file' = file /\ version'[k] = v /\ buffer'[o] = v
  BY <1>1 DEF ClearBuffer, HistoryShape
<1>3. /\ pending' \in [Key -> Session \cup {NoSession}] /\ pending'[k] = NoSession
      /\ \A x \in Key \ {k} : pending'[x] = pending[x]
      /\ writes' = Enqueued(k, k \in queued, v, {c}) /\ queued' = queued \cup {k}
  <2>1. queued \ {} = queued /\ {} \cup {k} = {k}
    OBVIOUS
  <2>2. writes' = Enqueued(k, k \in queued, v, {c}) /\ queued' = queued \cup {k}
    BY <1>2, <2>1, Zenon DEF PersistHistory
  <2>3. pending' = [x \in Key |-> IF x \in {k} THEN NoSession ELSE pending[x]]
    BY <2>1, Zenon DEF PersistHistory
  <2>4. /\ pending' \in [Key -> Session \cup {NoSession}] /\ pending'[k] = NoSession
        /\ \A x \in Key \ {k} : pending'[x] = pending[x]
    <3>1. pending \in [Key -> Session \cup {NoSession}]
      BY <1>1 DEF HistoryShape
    <3>. QED
      BY <2>3, <3>1
  <2>. QED
    BY <2>2, <2>4
<1>4. /\ writes' \in [Key -> Seq(Write)] /\ writes'[k] # <<>>
      /\ writes'[k][Len(writes'[k])].version = v
  <2>1. {c} \in SUBSET Call
    OBVIOUS
  <2>. QED
    BY <1>1, <1>3, <2>1, WriteJoins, Zenon
<1>5. HistoryShape'
  BY <1>1, <1>2, <1>3, <1>4 DEF HistoryShape
<1>6. \A x \in Key \ {k} : Untouched(x)
  <2>. TAKE x \in Key \ {k}
  <2>1. version'[x] = version[x]
    BY <1>1, <1>2 DEF HistoryShape
  <2>2. \A u \in Session : u \in {pending[x], sessions[x]} =>
              buffer'[u] = buffer[u] /\ key'[u] = key[u]
    BY <1>1, <1>2 DEF HistoryShape
  <2>. QED
    BY <1>1, <1>2, <1>3, <2>1, <2>2, OthersUntouched
<1>7. Ordered(k)'
  BY <1>1, <1>3, EnqueuedOrdered
<1>8. Saved(k)'
  BY <1>2, <1>3, <1>4 DEF Saved, Latest
<1>9. ASSUME NEW x \in Key PROVE Ordered(x)' /\ (HistoryIInv => Saved(x)')
  <2>1. CASE x = k
    BY <1>7, <1>8, <2>1
  <2>2. CASE x # k
    BY <1>6, <2>2, UntouchedOrdered, UntouchedSaved
  <2>. QED
    BY <2>1, <2>2
<1>. QED
  BY <1>5, <1>6, <1>9, UntouchedUnsaved

-----------------------------------------------------------------------------
(* Steps of a call that leave the histories alone.                             *)

Keeps == QueueIInv' /\ (HistoryIInv /\ "write" \notin Faults => HistoryIInv')

LEMMA DataKept ==
    ASSUME IInv, QueueIInv, UNCHANGED <<dataVars, key>>, Entrusted', FlushesFit',
           \A k \in Key : sessions'[k] \in {sessions[k], NoSession}
    PROVE  Keeps
<1>1. HistoryShape'
  BY DEF QueueIInv, HistoryShape, dataVars
<1>2. ASSUME NEW k \in Key PROVE Ordered(k)' /\ (HistoryIInv => Saved(k)')
  BY DataUntouched, UntouchedOrdered, UntouchedSaved
<1>. QED
  BY <1>1, <1>2 DEF Keeps, HistoryIInv, QueueIInv

\* Nobody's map or history changes; what c flushed it flushes still, or it is saved.
LEMMA CallMoves ==
    ASSUME IInv, QueueIInv, NEW c \in Call, NEW r \in CallState,
           call' = [call EXCEPT ![c] = r], UNCHANGED <<dataVars, key, sessions>>,
           Flushes(r, key),
           \A k \in Key : IsFlushing(call[c]) /\ k \in call[c].flushing =>
               (IsFlushing(r) /\ k \in r.flushing) \/ ~Unsaved(k)
    PROVE  Keeps
<1>1. \A k \in Key : Unsaved(k)' = Unsaved(k)
  BY DEF Unsaved, dataVars
<1>2. Entrusted' /\ FlushesFit'
  BY <1>1, CallEntrusts
<1>. QED
  BY <1>2, DataKept

LEMMA CallGoesTo ==
    ASSUME IInv, QueueIInv, NEW c \in Call, NEW step, ~IsFlushing(call[c]),
           call' = [call EXCEPT ![c].step = step], UNCHANGED <<dataVars, key, sessions>>,
           step \in {"stat", "read", "persist", "spawn", "flush", "delete"}
    PROVE  Keeps
<1>. DEFINE r == [call[c] EXCEPT !.step = step]
<1>1. r \in CallState /\ Flushes(r, key)
  BY CallType DEF CallState, QueueIInv, FlushesFit, Flushes
<1>2. call' = [call EXCEPT ![c] = r]
  BY DEF IInv, Shape
<1>. QED
  BY <1>1, <1>2, CallMoves

LEMMA CallFinishes ==
    ASSUME IInv, QueueIInv, NEW c \in Call, Finish(c), UNCHANGED <<dataVars, key, sessions>>,
           ~IsFlushing(call[c]) \/ call[c].flushing = {}
    PROVE  Keeps
<1>1. NoCall \in CallState /\ NoCall.flushing = {} /\ Flushes(NoCall, key)
  BY NoCallType DEF NoCall, Flushes
<1>. QED
  BY <1>1, CallMoves DEF Finish

LEMMA NothingDropped ==
    ASSUME QueueIInv, DropPersistence({}) PROVE UNCHANGED <<pending, queued, writes>>
<1>1. pending \in [Key -> Session \cup {NoSession}]
  BY DEF QueueIInv, HistoryShape
<1>. QED
  BY <1>1 DEF DropPersistence

LEMMA StartsKeep ==
    ASSUME IInv, QueueIInv, NEW c \in Call,
           BeginStart(c) \/ StatFails(c) \/ OpenAttach(c) \/ Persisted(c)
    PROVE  Keeps
<1>1. ~IsFlushing(call[c])
  BY DEF IsFlushing, BeginStart, StatFails, OpenAttach, Persisted
<1>2. UNCHANGED <<dataVars, key, sessions>>
  BY DEF BeginStart, StatFails, OpenAttach, Persisted, dataVars, mapVars, sessionVars,
         queueVars, historyVars
<1>3. CASE BeginStart(c)
  BY <1>1, <1>2, <1>3, CallGoesTo DEF BeginStart, Goto
<1>4. CASE Finish(c)
  BY <1>1, <1>2, <1>4, CallFinishes
<1>5. ASSUME NEW o, StartSession(c, o), o \in Session PROVE Keeps
  <2>. DEFINE r == [call[c] EXCEPT !.step = "spawn", !.session = o]
  <2>1. r \in CallState /\ Flushes(r, key)
    BY <1>5, CallType DEF CallState, QueueIInv, FlushesFit, Flushes
  <2>2. call' = [call EXCEPT ![c] = r]
    BY <1>5 DEF IInv, Shape, StartSession
  <2>. QED
    BY <1>1, <1>2, <2>1, <2>2, CallMoves
<1>6. CASE OpenAttach(c)
  <2>1. sessions[call[c].key] \in Session
    BY <1>6, CallType DEF OpenAttach
  <2>. QED
    BY <1>4, <1>5, <1>6, <2>1 DEF OpenAttach
<1>7. CASE Persisted(c)
  <2>1. call[c].op \in Starting => call[c].session \in Session
    BY <1>7, CallType DEF Persisted, HoldsIn
  <2>. QED
    BY <1>4, <1>5, <1>7, <2>1 DEF Persisted, Starting
<1>. QED
  BY <1>3, <1>4, <1>6, <1>7 DEF StatFails

LEMMA OpenAbsentKeeps ==
    ASSUME IInv, QueueIInv, NEW c \in Call, OpenAbsent(c) PROVE Keeps
<1>. DEFINE r == [call[c] EXCEPT !.step = "flush", !.flushing = {call[c].key}]
<1>1. r \in CallState /\ Flushes(r, key) /\ ~IsFlushing(call[c])
  BY CallType DEF CallState, Flushes, IsFlushing, OpenAbsent
<1>2. call' = [call EXCEPT ![c] = r]
  BY DEF IInv, Shape, OpenAbsent
<1>3. UNCHANGED <<dataVars, key, sessions>>
  BY DEF OpenAbsent, dataVars, mapVars, sessionVars, historyVars
<1>. QED
  BY <1>1, <1>2, <1>3, CallMoves

\* A close finds its sessions by their keys.
LEMMA BeginCloseKeeps ==
    ASSUME IInv, QueueIInv, NEW c \in Call, BeginClose(c) PROVE Keeps
<1>. DEFINE k == call[c].key
            present == {x \in KeysOf(k[1]) : sessions[x] # NoSession}
            targets == IF call[c].op = "close" THEN {k} ELSE present
            left == {sessions[x] : x \in targets} \ {NoSession}
            r == [call[c] EXCEPT !.step = "closing", !.left = left, !.flushing = targets]
<1>1. call[c] \in CallState /\ k \in Key /\ k[1] \in Thread
  BY CallType
<1>2. targets \subseteq Key /\ \A x \in targets : x[1] = k[1]
  BY <1>1, KeysOfType
<1>3. \A o \in left : o \in Session /\ key[o] \in targets
  BY <1>2 DEF IInv, Shape, MapIn
<1>4. r \in CallState
  BY <1>1, <1>2, <1>3 DEF CallState
<1>5. Flushes(r, key) /\ ~IsFlushing(call[c])
  BY <1>1, <1>2, <1>3 DEF CallState, Flushes, IsFlushing, BeginClose
<1>6. call' = [call EXCEPT ![c] = r]
  BY DEF IInv, Shape, BeginClose
<1>7. UNCHANGED <<dataVars, key, sessions>>
  BY DEF BeginClose, dataVars, mapVars, sessionVars, queueVars, historyVars
<1>. HIDE DEF r
<1>. QED
  BY <1>4, <1>5, <1>6, <1>7, CallMoves

LEMMA SpawnsKeep ==
    ASSUME Room, IInv, QueueIInv, NEW c \in Call,
           SpawnFails(c) \/ \E p \in Shell : Spawned(c, p)
    PROVE  Keeps
<1>1. ~IsFlushing(call[c]) /\ Finish(c) /\ key' = key
  BY DEF IsFlushing, SpawnFails, Spawned
<1>2. UNCHANGED <<dataVars, sessions>>
  <2>1. CASE SpawnFails(c)
    <3>. DEFINE K == Evicted(sessions, status', idle)
    <3>1. K = {} /\ sessions' = sessions
      BY <2>1, NobodyLeaves DEF SpawnFails
    <3>2. DropPersistence({})
      BY <2>1, <3>1 DEF SpawnFails
    <3>. QED
      BY <2>1, <3>1, <3>2, NothingDropped DEF SpawnFails, dataVars, historyVars
  <2>2. CASE \E p \in Shell : Spawned(c, p)
    BY <2>2 DEF Spawned, dataVars, mapVars, queueVars, historyVars
  <2>. QED
    BY <2>1, <2>2
<1>. QED
  BY <1>1, <1>2, CallFinishes

LEMMA CloseFlushKeeps ==
    ASSUME IInv, QueueIInv, NEW c \in Call, CloseFlush(c) PROVE Keeps
<1>. DEFINE r == [call[c] EXCEPT !.step = "flush"]
<1>1. r \in CallState /\ Flushes(r, key) /\ (IsFlushing(call[c]) => IsFlushing(r))
  BY CallType DEF CallState, QueueIInv, FlushesFit, Flushes, IsFlushing
<1>2. call' = [call EXCEPT ![c] = r]
  BY DEF IInv, Shape, CloseFlush, Goto
<1>3. UNCHANGED <<dataVars, key, sessions>>
  BY DEF CloseFlush, dataVars, mapVars, sessionVars, historyVars
<1>4. r.flushing = call[c].flushing
  BY CallType DEF CallState
<1>. QED
  BY <1>1, <1>2, <1>3, <1>4, CallMoves

LEMMA FlushedKeeps ==
    ASSUME IInv, QueueIInv, NEW c \in Call, Flushed(c) PROVE Keeps
<1>1. UNCHANGED <<dataVars, key, sessions>>
  BY DEF Flushed, dataVars, mapVars, sessionVars, queueVars, historyVars
<1>2. CASE Finish(c)
  BY <1>1, <1>2, CallFinishes DEF Flushed
<1>3. ASSUME NEW step \in {"read", "delete"}, Goto(c, step) PROVE Keeps
  <2>. DEFINE r == [call[c] EXCEPT !.step = step]
  <2>1. r \in CallState /\ Flushes(r, key)
    BY <1>3, CallType DEF CallState, Flushes, QueueIInv, FlushesFit
  <2>2. call' = [call EXCEPT ![c] = r] /\ call[c].flushing = {}
    BY <1>3 DEF IInv, Shape, Goto, Flushed
  <2>. QED
    BY <1>1, <2>1, <2>2, CallMoves
<1>. QED
  BY <1>2, <1>3 DEF Flushed

-----------------------------------------------------------------------------
(* Resets.                                                                     *)

LEMMA ResetKeeps ==
    ASSUME IInv, QueueIInv, NEW c \in Call, NEW k \in Key, NEW o \in Session, ~IsFlushing(call[c]),
           call' = [call EXCEPT ![c].step = "persist", ![c].session = o],
           ClearBuffer(o, k), PersistHistory({}, k, version'[k], c),
           sessions' \in [Key -> Session \cup {NoSession}], sessions'[k] = o, key'[o] = k,
           \A u \in Session \ {o} : key'[u] = key[u],
           sessions[key[o]] = o => key[o] = k,
           \A x \in Key \ {k} : sessions'[x] = sessions[x] /\ o \notin {pending[x], sessions[x]}
    PROVE  Keeps
<1>. DEFINE r == [call[c] EXCEPT !.step = "persist", !.session = o]
<1>1. /\ HistoryShape' /\ \A x \in Key : Ordered(x)'
      /\ \A x \in Key \ {k} : Unsaved(x)' => Unsaved(x)
      /\ HistoryIInv => \A x \in Key : Saved(x)'
  BY ResetWritten
<1>2. r \in CallState /\ Flushes(r, key')
  <2>1. /\ call[c] \in CallState /\ r \in CallState
        /\ r.flushing = call[c].flushing /\ r.key = call[c].key /\ r.step = "persist"
    BY CallType DEF CallState
  <2>2. \A x \in call[c].flushing : x[1] = call[c].key[1]
    BY DEF QueueIInv, FlushesFit, Flushes
  <2>. HIDE DEF r
  <2>. QED
    BY <2>1, <2>2 DEF Flushes
<1>3. call' = [call EXCEPT ![c] = r]
  BY DEF IInv, Shape
<1>4. \A u \in Session : sessions[key[u]] = u => key'[u] = key[u]
  OBVIOUS
<1>5. \A x \in Key : sessions'[x] = NoSession /\ Unsaved(x)' => sessions[x] = NoSession /\ Unsaved(x)
  BY <1>1, ConstantsAssumption
<1>6. Entrusted' /\ FlushesFit'
  BY <1>2, <1>3, <1>4, <1>5, CallEntrusts
<1>. QED
  BY <1>1, <1>6 DEF Keeps, HistoryIInv, QueueIInv

\* A reset of the session in the map.
LEMMA PresentResetKeeps ==
    ASSUME IInv, QueueIInv, NEW c \in Call, ~IsFlushing(call[c]),
           sessions[call[c].key] # NoSession,
           call' = [call EXCEPT ![c].step = "persist", ![c].session = sessions[call[c].key]],
           ClearBuffer(sessions[call[c].key], call[c].key),
           PersistHistory({}, call[c].key, version'[call[c].key], c),
           UNCHANGED <<sessions, key>>
    PROVE  Keeps
<1>. DEFINE k == call[c].key
            o == sessions[k]
<1>1. k \in Key /\ o \in Session /\ key[o] = k
  BY CallType, SessionOfCall
<1>2. \A x \in Key \ {k} : o \notin {pending[x], sessions[x]}
  BY <1>1, OwnSession
<1>3. sessions' \in [Key -> Session \cup {NoSession}]
  BY DEF IInv, Shape
<1>. QED
  BY <1>1, <1>2, <1>3, ResetKeeps

LEMMA BeginClearKeeps == ASSUME IInv, QueueIInv, NEW c \in Call, BeginClear(c) PROVE Keeps
<1>1. ~IsFlushing(call[c]) /\ UNCHANGED <<sessions, key>>
  BY DEF IsFlushing, BeginClear, mapVars, sessionVars
<1>2. CASE sessions[call[c].key] = NoSession
  <2>1. Finish(c) /\ UNCHANGED dataVars
    BY <1>2 DEF BeginClear, dataVars, queueVars, historyVars
  <2>. QED
    BY <1>1, <2>1, CallFinishes
<1>3. CASE sessions[call[c].key] # NoSession
  BY <1>1, <1>3, PresentResetKeeps DEF BeginClear
<1>. QED
  BY <1>2, <1>3

LEMMA PresentStartKeeps ==
    ASSUME Room, IInv, QueueIInv, NEW c \in Call, OpenReset(c) \/ RestartPresent(c)
    PROVE  Keeps
<1>. DEFINE k == call[c].key
            o == sessions[k]
<1>1. /\ ~IsFlushing(call[c]) /\ o # NoSession /\ key' = key /\ ClearBuffer(o, k)
      /\ call' = [call EXCEPT ![c].step = "persist", ![c].session = o]
  BY DEF IsFlushing, OpenReset, RestartPresent
<1>2. ASSUME NEW K, K \in {{}, Evicted(sessions, status', idle)},
             RemoveFromMap(sessions, idle, K), PersistHistory(K, k, version'[k], c)
      PROVE  sessions' = sessions /\ PersistHistory({}, k, version'[k], c)
  BY <1>2, NobodyLeaves
<1>3. sessions' = sessions /\ PersistHistory({}, k, version'[k], c)
  <2>1. CASE OpenReset(c)
    <3>. DEFINE K == IF config[o] # call[c].config THEN EvictedByStop(o) ELSE {}
    <3>1. /\ K \in {{}, Evicted(sessions, status', idle)}
          /\ RemoveFromMap(sessions, idle, K) /\ PersistHistory(K, k, version'[k], c)
      BY <2>1 DEF OpenReset, EvictedByStop
    <3>. QED
      BY <1>2, <3>1
  <2>2. CASE RestartPresent(c)
    <3>. DEFINE K == EvictedByStop(o)
    <3>1. /\ K \in {{}, Evicted(sessions, status', idle)}
          /\ RemoveFromMap(sessions, idle, K) /\ PersistHistory(K, k, version'[k], c)
      BY <2>2 DEF RestartPresent, EvictedByStop
    <3>. QED
      BY <1>2, <3>1
  <2>. QED
    BY <2>1, <2>2
<1>. QED
  BY <1>1, <1>3, PresentResetKeeps

\* What a new session's key had is its own; no other key knows the session.
LEMMA Enters ==
    ASSUME Room, IInv, QueueIInv, NEW k \in Key, NEW o \in Session, NEW cfg,
           CreateSession(o, k, cfg),
           RemoveFromMap(Inserted(o, k), Touched(o), EvictedByInsert(o, k))
    PROVE  /\ EvictedByInsert(o, k) = {}
           /\ sessions' \in [Key -> Session \cup {NoSession}] /\ sessions'[k] = o
           /\ \A x \in Key \ {k} : sessions'[x] = sessions[x]
           /\ key'[o] = k /\ \A u \in Session \ {o} : key'[u] = key[u]
           /\ \A x \in Key : o \notin {pending[x], sessions[x]}
<1>. DEFINE sess == Inserted(o, k)
<1>1. /\ sess \in [Key -> Session \cup {NoSession}] /\ sess[k] = o
      /\ \A x \in Key \ {k} : sess[x] = sessions[x]
  BY DEF Inserted, IInv, Shape
<1>2. Touched(o) \in [Session -> Nat]
  BY TouchedType DEF IInv
<1>3. EvictedByInsert(o, k) = {}
  BY <1>1, <1>2, NobodyEvicted DEF EvictedByInsert
<1>4. sessions' = sess
  BY <1>1, <1>3, RemoveNobody
<1>5. \A x \in Key : sessions[x] # o /\ pending[x] # o
  BY ConstantsAssumption DEF CreateSession, Unused, Registered
<1>6. key'[o] = k /\ \A u \in Session \ {o} : key'[u] = key[u]
  BY DEF CreateSession, IInv, Shape
<1>. QED
  BY <1>1, <1>3, <1>4, <1>5, <1>6

LEMMA RestartAbsentKeeps ==
    ASSUME Room, IInv, QueueIInv, NEW c \in Call, NEW o \in Session, RestartAbsent(c, o)
    PROVE  Keeps
<1>. DEFINE k == call[c].key
<1>1. k \in Key /\ ~IsFlushing(call[c])
  BY CallType DEF IsFlushing, RestartAbsent
<1>2. /\ EvictedByInsert(o, k) = {}
      /\ sessions' \in [Key -> Session \cup {NoSession}] /\ sessions'[k] = o
      /\ \A x \in Key \ {k} : sessions'[x] = sessions[x]
      /\ key'[o] = k /\ \A u \in Session \ {o} : key'[u] = key[u]
      /\ \A x \in Key : o \notin {pending[x], sessions[x]}
  BY <1>1, Enters DEF RestartAbsent
<1>3. PersistHistory({}, k, version'[k], c)
  BY <1>2 DEF RestartAbsent
<1>4. sessions[key[o]] # o
  BY <1>2 DEF IInv, Shape
<1>5. /\ ClearBuffer(o, k)
      /\ call' = [call EXCEPT ![c].step = "persist", ![c].session = o]
  BY DEF RestartAbsent
<1>6. \A x \in Key \ {k} : sessions'[x] = sessions[x] /\ o \notin {pending[x], sessions[x]}
  BY <1>2
<1>. HIDE DEF k
<1>. QED
  BY <1>1, <1>2, <1>3, <1>4, <1>5, <1>6, ResetKeeps

LEMMA ReadHistoryKeeps ==
    ASSUME Room, IInv, QueueIInv, NEW c \in Call, NEW o \in Session, ReadHistory(c, o)
    PROVE  Keeps
<1>. SUFFICES ASSUME NEW k \in Key, k = call[c].key PROVE Keeps
  BY CallType
<1>. DEFINE r == [call[c] EXCEPT !.step = "spawn", !.session = o]
<1>1. /\ call[c].op = "open" /\ sessions[k] = NoSession
      /\ ~IsFlushing(call[c]) /\ InProgress(c)
  BY CallType DEF IsFlushing, InProgress, ReadHistory, StepFits, HoldsIn, Closing
<1>2. /\ EvictedByInsert(o, k) = {}
      /\ sessions' \in [Key -> Session \cup {NoSession}] /\ sessions'[k] = o
      /\ \A x \in Key \ {k} : sessions'[x] = sessions[x]
      /\ key'[o] = k /\ \A u \in Session \ {o} : key'[u] = key[u]
      /\ \A x \in Key : o \notin {pending[x], sessions[x]}
  BY <1>1, Enters DEF ReadHistory
<1>3. UNCHANGED <<pending, queued, writes, file, version>>
  BY <1>2, NothingDropped DEF ReadHistory
<1>4. ~Unsaved(k) /\ Ordered(k)
  BY <1>1, AbsentSaved DEF QueueIInv
<1>5. /\ buffer \in [Session -> Nat] /\ file \in [Key -> Nat]
      /\ buffer' = [buffer EXCEPT ![o] = file[k]]
  BY DEF QueueIInv, HistoryShape, ReadHistory
<1>6. HistoryShape'
  BY <1>1, <1>3, <1>5 DEF QueueIInv, HistoryShape
<1>7. \A x \in Key \ {k} : Untouched(x)
  BY <1>2, <1>3, <1>5 DEF Untouched
<1>8. Ordered(k)'
  BY <1>3, <1>4 DEF Ordered, Unsaved
<1>9. ASSUME HistoryIInv PROVE Saved(k)'
  <2>1. file[k] = version[k]
    BY <1>1, <1>4, <1>9 DEF HistoryIInv, Saved, Latest, Unsaved
  <2>2. buffer'[o] = file[k]
    BY <1>5
  <2>. QED
    BY <1>2, <1>3, <1>4, <2>1, <2>2 DEF Saved, Latest, Unsaved
<1>10. ASSUME NEW x \in Key PROVE Ordered(x)' /\ (HistoryIInv => Saved(x)')
  <2>1. CASE x = k
    BY <1>8, <1>9, <2>1
  <2>2. CASE x # k
    BY <1>7, <2>2, UntouchedOrdered, UntouchedSaved
  <2>. QED
    BY <2>1, <2>2
<1>11. Entrusted' /\ FlushesFit'
  <2>1. r \in CallState /\ Flushes(r, key')
    BY CallType DEF CallState, QueueIInv, FlushesFit, Flushes, ReadHistory
  <2>2. call' = [call EXCEPT ![c] = r]
    BY DEF IInv, Shape, ReadHistory
  <2>3. \A u \in Session : sessions[key[u]] = u => key'[u] = key[u]
    BY <1>2 DEF IInv, Shape
  <2>4. \A x \in Key : sessions'[x] = NoSession /\ Unsaved(x)' => sessions[x] = NoSession /\ Unsaved(x)
    BY <1>2, <1>3, ConstantsAssumption DEF Unsaved
  <2>. QED
    BY <1>1, <2>1, <2>2, <2>3, <2>4, CallEntrusts
<1>. QED
  BY <1>6, <1>10, <1>11 DEF Keeps, HistoryIInv, QueueIInv

-----------------------------------------------------------------------------
(* Closes.                                                                     *)

\* The close keeps in hand the key of the session it takes out of the map.
LEMMA CloseNextKeeps ==
    ASSUME Room, IInv, QueueIInv, NEW c \in Call, NEW o \in Session, CloseNext(c, o)
    PROVE  Keeps
<1>. DEFINE r == [call[c] EXCEPT !.left = @ \ {o}]
            K == EvictedByStop(o)
<1>1. /\ call[c].step = "closing" /\ o \in call[c].left /\ UNCHANGED <<key, historyVars>>
      /\ call' = [call EXCEPT ![c].left = @ \ {o}]
      /\ RemoveFromMap(sessions, idle, K \cup {key[o]}) /\ DropPersistence(K)
  BY DEF CloseNext
<1>2. K = {}
  BY NobodyEvicted DEF EvictedByStop, IInv, Shape
<1>3. UNCHANGED <<pending, queued, writes>>
  BY <1>1, <1>2, NothingDropped
<1>4. UNCHANGED <<dataVars, key>>
  BY <1>1, <1>3 DEF dataVars, historyVars
<1>5. \A k \in Key : sessions'[k] = IF k = key[o] THEN NoSession ELSE sessions[k]
  BY <1>1, <1>2 DEF RemoveFromMap
<1>6. /\ r \in CallState /\ r.step = "closing" /\ r.key = call[c].key /\ r.op = call[c].op
      /\ r.left = call[c].left \ {o} /\ r.flushing = call[c].flushing
      /\ call' = [call EXCEPT ![c] = r]
  BY <1>1, CallType DEF CallState, IInv, Shape
<1>. HIDE DEF r
<1>7. Flushes(call[c], key)
  BY DEF QueueIInv, FlushesFit
<1>8. Flushes(r, key') /\ key[o] \in r.flushing
  BY <1>1, <1>6, <1>7 DEF Flushes
<1>9. IsFlushing(r)
  BY <1>1, <1>6, CallType DEF IsFlushing, StepFits
<1>10. \A k \in Key : Unsaved(k)' = Unsaved(k)
  BY <1>3 DEF Unsaved
<1>11. Entrusted' /\ FlushesFit'
  <2>1. \A k \in Key : sessions'[k] = NoSession /\ Unsaved(k)' =>
           (sessions[k] = NoSession /\ Unsaved(k)) \/ (IsFlushing(r) /\ k \in r.flushing)
    BY <1>5, <1>8, <1>9, <1>10
  <2>2. \A u \in Session : sessions[key[u]] = u => key'[u] = key[u]
    BY <1>1
  <2>3. \A k \in Key : IsFlushing(call[c]) /\ k \in call[c].flushing =>
           (IsFlushing(r) /\ k \in r.flushing) \/ ~Unsaved(k)'
    BY <1>6, <1>9
  <2>. QED
    BY <1>6, <1>8, <2>1, <2>2, <2>3, CallEntrusts
<1>. QED
  BY <1>4, <1>5, <1>11, DataKept

-----------------------------------------------------------------------------
(* A flush that awaited a write of its own finds nothing pending: the session  *)
(* is out of the map, and output needs its process.                            *)

FlushKeys(r) == IF r.op = "closeAll" THEN KeysOf(r.key[1]) ELSE {r.key}

WroteFits(r, pend) ==
    /\ r.flushing \subseteq FlushKeys(r) /\ r.wrote \subseteq r.flushing
    /\ r.step # "flush" => r.wrote = {}
    /\ \A k \in r.wrote : pend[k] = NoSession

Wrote == \A c \in Call : WroteFits(call[c], pending)

\* A step that makes nothing pending, and leaves call c as r.
LEMMA CallWrote ==
    ASSUME IInv, Wrote, NEW c \in Call, NEW r, call' = [call EXCEPT ![c] = r],
           \A k \in Key : pending'[k] \in {pending[k], NoSession}, WroteFits(r, pending')
    PROVE  Wrote'
<1>1. \A d \in Call : call'[d] = IF d = c THEN r ELSE call[d]
  BY DEF IInv, Shape
<1>2. \A d \in Call : call[d].wrote \subseteq Key
  BY CallType DEF CallState
<1>. QED
  BY <1>1, <1>2 DEF Wrote, WroteFits

\* Its step, its session or its sessions to stop change, outside a flush.
LEMMA CallGoesWrote ==
    ASSUME IInv, Wrote, NEW c \in Call, NEW r, call' = [call EXCEPT ![c] = r],
           r.key = call[c].key, r.op = call[c].op, r.flushing = call[c].flushing,
           r.wrote = call[c].wrote, call[c].wrote = {},
           \A k \in Key : pending'[k] \in {pending[k], NoSession}
    PROVE  Wrote'
<1>1. WroteFits(r, pending')
  BY DEF Wrote, WroteFits, FlushKeys
<1>. QED
  BY <1>1, CallWrote

LEMMA CallEndWrote ==
    ASSUME IInv, Wrote, NEW c \in Call, Finish(c),
           \A k \in Key : pending'[k] \in {pending[k], NoSession}
    PROVE  Wrote'
<1>1. WroteFits(NoCall, pending')
  BY DEF WroteFits, NoCall
<1>. QED
  BY <1>1, CallWrote DEF Finish

LEMMA SameWrote ==
    ASSUME IInv, Wrote, UNCHANGED call,
           \A k \in Key : pending'[k] \in {pending[k], NoSession}
    PROVE  Wrote'
<1>1. \A d \in Call : call[d].wrote \subseteq Key
  BY CallType DEF CallState
<1>. QED
  BY <1>1 DEF Wrote, WroteFits

\* Of what is pending a step takes at most some away.
OnlyTakes == \A k \in Key : pending'[k] \in {pending[k], NoSession}

LEMMA CallTakes ==
    ASSUME QueueIInv, NEW c \in Call, CallStep(c) PROVE OnlyTakes
<1>0. pending \in [Key -> Session \cup {NoSession}]
  BY DEF QueueIInv, HistoryShape
<1>1. CASE BeginStart(c) \/ BeginClear(c) \/ BeginClose(c) \/ StatFails(c) \/ OpenAbsent(c)
  BY <1>0, <1>1 DEF BeginStart, BeginClear, BeginClose, StatFails, OpenAbsent, queueVars,
                    PersistHistory, OnlyTakes
<1>2. CASE OpenReset(c) \/ RestartPresent(c)
  BY <1>0, <1>2 DEF OpenReset, RestartPresent, PersistHistory, OnlyTakes
<1>3. CASE OpenAttach(c) \/ Persisted(c) \/ SpawnFails(c) \/ (\E p \in Shell : Spawned(c, p))
  BY <1>0, <1>3 DEF OpenAttach, Persisted, SpawnFails, Spawned, queueVars, DropPersistence, OnlyTakes
<1>4. CASE \E o \in Session : ReadHistory(c, o) \/ RestartAbsent(c, o) \/ CloseNext(c, o)
  BY <1>0, <1>4 DEF ReadHistory, RestartAbsent, CloseNext, DropPersistence, PersistHistory, OnlyTakes
<1>5. CASE CloseFlush(c) \/ Flushed(c) \/ DeleteHistory(c) \/ (\E k \in Key : FlushStep(c, k))
  BY <1>0, <1>5 DEF CloseFlush, Flushed, DeleteHistory, FlushStep, queueVars, OnlyTakes
<1>. QED
  BY <1>1, <1>2, <1>3, <1>4, <1>5 DEF CallStep

\* Its step changes, and the session it holds.
LEMMA StepWrote ==
    ASSUME IInv, Wrote, OnlyTakes, NEW c \in Call, NEW s, NEW o, call[c].wrote = {},
           \/ call' = [call EXCEPT ![c].step = s]
           \/ call' = [call EXCEPT ![c].step = s, ![c].session = o]
    PROVE  Wrote'
<1>1. call[c] \in CallState /\ call = [d \in Call |-> call[d]]
  BY CallType DEF IInv, Shape
<1>2. CASE call' = [call EXCEPT ![c].step = s]
  <2>. DEFINE r == [call[c] EXCEPT !.step = s]
  <2>1. /\ r.key = call[c].key /\ r.op = call[c].op /\ r.flushing = call[c].flushing
        /\ r.wrote = call[c].wrote /\ call' = [call EXCEPT ![c] = r]
    BY <1>1, <1>2 DEF CallState
  <2>. QED
    BY <2>1, CallGoesWrote DEF OnlyTakes
<1>3. CASE call' = [call EXCEPT ![c].step = s, ![c].session = o]
  <2>. DEFINE r == [call[c] EXCEPT !.step = s, !.session = o]
  <2>1. /\ r.key = call[c].key /\ r.op = call[c].op /\ r.flushing = call[c].flushing
        /\ r.wrote = call[c].wrote /\ call' = [call EXCEPT ![c] = r]
    BY <1>1, <1>3 DEF CallState
  <2>. QED
    BY <2>1, CallGoesWrote DEF OnlyTakes
<1>. QED
  BY <1>2, <1>3

LEMMA FlushStepWrote ==
    ASSUME IInv, QueueIInv, Wrote, NEW c \in Call, NEW k \in Key, FlushStep(c, k) PROVE Wrote'
<1>1. WroteFits(call[c], pending) /\ call[c] \in CallState
  BY CallType DEF Wrote
<1>2. OnlyTakes /\ pending \in [Key -> Session \cup {NoSession}]
  BY CallTakes DEF CallStep, QueueIInv, HistoryShape
<1>3. PICK r : /\ call' = [call EXCEPT ![c] = r]
               /\ \/ r = [call[c] EXCEPT !.wrote = @ \cup {k}] /\ pending'[k] = NoSession
                  \/ r = [call[c] EXCEPT !.wrote = @ \ {k}]
                  \/ r = [call[c] EXCEPT !.flushing = @ \ {k}, !.wrote = @ \ {k}]
  BY <1>2 DEF FlushStep
<1>4. call[c].step = "flush" /\ k \in call[c].flushing
  BY DEF FlushStep
<1>5. \A x \in call[c].wrote : pending'[x] = NoSession
  BY <1>1, <1>2 DEF WroteFits, OnlyTakes, CallState
<1>6. /\ r.step = "flush" /\ FlushKeys(r) = FlushKeys(call[c])
      /\ \/ r.wrote = call[c].wrote \cup {k} /\ r.flushing = call[c].flushing /\ pending'[k] = NoSession
         \/ r.wrote = call[c].wrote \ {k} /\ r.flushing = call[c].flushing
         \/ r.wrote = call[c].wrote \ {k} /\ r.flushing = call[c].flushing \ {k}
  BY <1>1, <1>3, <1>4 DEF FlushKeys, CallState
<1>7. WroteFits(r, pending')
  BY <1>1, <1>4, <1>5, <1>6 DEF WroteFits
<1>. QED
  BY <1>2, <1>3, <1>7, CallWrote DEF OnlyTakes

LEMMA BeginCloseWrote ==
    ASSUME IInv, QueueIInv, Wrote, NEW c \in Call, BeginClose(c) PROVE Wrote'
<1>. DEFINE k == call[c].key
            present == {x \in KeysOf(k[1]) : sessions[x] # NoSession}
            targets == IF call[c].op = "close" THEN {k} ELSE present
            left == {sessions[x] : x \in targets} \ {NoSession}
            r == [call[c] EXCEPT !.step = "closing", !.left = left, !.flushing = targets]
<1>1. WroteFits(call[c], pending) /\ call[c] \in CallState /\ call = [d \in Call |-> call[d]]
  BY CallType DEF Wrote, IInv, Shape
<1>2. call' = [call EXCEPT ![c] = r] /\ call[c].step = "queued" /\ call[c].op \in Closing
  BY <1>1 DEF BeginClose, Closing
<1>3. targets \subseteq FlushKeys(call[c])
  BY <1>2 DEF FlushKeys, Closing
<1>. HIDE DEF targets, left
<1>4. WroteFits(r, pending')
  BY <1>1, <1>2, <1>3 DEF WroteFits, FlushKeys, CallState
<1>. QED
  BY <1>2, <1>4, CallTakes, CallWrote DEF CallStep, OnlyTakes

LEMMA CallStepWrote ==
    ASSUME IInv, QueueIInv, Wrote, NEW c \in Call, CallStep(c) PROVE Wrote'
<1>1. OnlyTakes /\ WroteFits(call[c], pending) /\ call[c] \in CallState
  BY CallTakes, CallType DEF Wrote
<1>2. call[c].step # "flush" \/ call[c].flushing = {} => call[c].wrote = {}
  BY <1>1 DEF WroteFits
<1>3. CASE Finish(c)
  BY <1>1, <1>3, CallEndWrote DEF OnlyTakes
<1>4. CASE BeginStart(c) \/ CloseFlush(c) \/ Flushed(c)
  BY <1>1, <1>2, <1>3, <1>4, StepWrote DEF BeginStart, CloseFlush, Flushed, Goto
<1>5. CASE BeginClear(c) \/ StatFails(c) \/ OpenReset(c) \/ RestartPresent(c)
  BY <1>1, <1>2, <1>3, <1>5, StepWrote DEF BeginClear, StatFails, OpenReset, RestartPresent
<1>6. CASE OpenAttach(c) \/ Persisted(c)
  BY <1>1, <1>2, <1>3, <1>6, StepWrote DEF OpenAttach, Persisted, StartSession
<1>7. CASE \E o \in Session : ReadHistory(c, o) \/ RestartAbsent(c, o)
  BY <1>1, <1>2, <1>7, StepWrote DEF ReadHistory, RestartAbsent
<1>8. CASE SpawnFails(c) \/ DeleteHistory(c) \/ (\E p \in Shell : Spawned(c, p))
  BY <1>3, <1>8 DEF SpawnFails, DeleteHistory, Spawned
<1>9. CASE OpenAbsent(c)
  <2>. DEFINE r == [call[c] EXCEPT !.step = "flush", !.flushing = {call[c].key}]
  <2>1. call' = [call EXCEPT ![c] = r] /\ call[c].wrote = {} /\ call[c].op = "open"
    BY <1>2, <1>9 DEF OpenAbsent, IInv, Shape
  <2>2. WroteFits(r, pending')
    BY <1>1, <2>1 DEF WroteFits, FlushKeys, CallState
  <2>. QED
    BY <1>1, <2>1, <2>2, CallWrote DEF OnlyTakes
<1>10. CASE \E o \in Session : CloseNext(c, o)
  <2>0. PICK o \in Session : CloseNext(c, o)
    BY <1>10
  <2>. DEFINE r == [call[c] EXCEPT !.left = @ \ {o}]
  <2>1. /\ call' = [call EXCEPT ![c] = r] /\ call[c].wrote = {}
        /\ r.key = call[c].key /\ r.op = call[c].op /\ r.flushing = call[c].flushing
        /\ r.wrote = call[c].wrote
    BY <1>1, <1>2, <2>0 DEF CloseNext, IInv, Shape, CallState
  <2>. QED
    BY <1>1, <2>1, CallGoesWrote DEF OnlyTakes
<1>11. CASE BeginClose(c)
  BY <1>11, BeginCloseWrote
<1>12. CASE \E k \in Key : FlushStep(c, k)
  BY <1>12, FlushStepWrote
<1>. QED
  BY <1>4, <1>5, <1>6, <1>7, <1>8, <1>9, <1>10, <1>11, <1>12 DEF CallStep

\* Output of a session a call flushes: there is none, for its key is not in the map.
LEMMA ProcessDataWrote ==
    ASSUME IInv, QueueIInv, Wrote, NEW o \in Session, ProcessData(o) PROVE Wrote'
<1>1. sessions[key[o]] = o /\ o # NoSession /\ key[o] \in Key
  BY ConstantsAssumption DEF ProcessData, IInv, MapIn, Shape
<1>2. /\ pending' = [pending EXCEPT ![key[o]] = o] /\ UNCHANGED call
      /\ pending \in [Key -> Session \cup {NoSession}]
  BY DEF ProcessData, callVars, QueueIInv, HistoryShape
<1>3. ASSUME NEW c \in Call PROVE WroteFits(call[c], pending')
  <2>1. WroteFits(call[c], pending) /\ call[c] \in CallState
    BY CallType DEF Wrote
  <2>2. ASSUME key[o] \in call[c].wrote PROVE FALSE
    <3>1. call[c].step = "flush" /\ key[o] \in FlushKeys(call[c])
      BY <2>1, <2>2 DEF WroteFits
    <3>2. StepFits(call[c]) /\ HoldsIn(call[c], sessions, key, process)
      BY CallType
    <3>3. CASE call[c].op = "open"
      BY <1>1, <3>1, <3>2, <3>3 DEF FlushKeys, HoldsIn
    <3>4. CASE call[c].op \in Closing
      <4>1. key[o] \in Targets(call[c])
        BY <3>1, <3>4 DEF FlushKeys, Targets, Closing
      <4>. QED
        BY <1>1, <3>1, <3>2, <3>4, <4>1 DEF HoldsIn
    <3>. QED
      BY <3>1, <3>2, <3>3, <3>4 DEF StepFits
  <2>3. \A k \in call[c].wrote : pending'[k] = pending[k]
    BY <1>2, <2>1, <2>2 DEF CallState
  <2>. QED
    BY <2>1, <2>3 DEF WroteFits
<1>. QED
  BY <1>2, <1>3 DEF Wrote

LEMMA NextWrote ==
    ASSUME IInv, QueueIInv, Wrote, [Next]_vars PROVE disposed' \/ Wrote'
<1>0. pending \in [Key -> Session \cup {NoSession}]
  BY DEF QueueIInv, HistoryShape
<1>1. CASE \E c \in Call : CallStep(c)
  BY <1>1, CallStepWrote
<1>2. CASE \E k \in Key : PersistTimerFires(k) \/ WriteStep(k)
  <2>1. UNCHANGED call /\ \A k \in Key : pending'[k] \in {pending[k], NoSession}
    BY <1>0, <1>2 DEF PersistTimerFires, WriteStep, WriteEnds, callVars
  <2>. QED
    BY <2>1, SameWrote
<1>3. CASE (\E p \in Shell : KillTimerFires(p) \/ SignalledExits(p)) \/ PollBegins
           \/ (\E active \in SUBSET Shell : PollEnds(active)) \/ (\E k \in Key : Touch(k))
  <2>1. UNCHANGED call /\ \A k \in Key : pending'[k] \in {pending[k], NoSession}
    BY <1>0, <1>3 DEF KillTimerFires, SignalledExits, PollBegins, PollEnds, Touch, callVars, queueVars
  <2>. QED
    BY <2>1, SameWrote
<1>4. CASE \E c \in Call, op \in Operation \cap Requests, k \in Key, cfg \in Config,
             del \in BOOLEAN : RequestCall(c, op, k, cfg, del)
  <2>0. PICK c \in Call, op \in Operation \cap Requests, k \in Key, cfg \in Config,
             del \in BOOLEAN : RequestCall(c, op, k, cfg, del)
    BY <1>4
  <2>. DEFINE r == [NoCall EXCEPT !.op = op, !.key = k, !.config = cfg, !.delete = del,
                                  !.step = "queued"]
  <2>1. call' = [call EXCEPT ![c] = r] /\ UNCHANGED pending
    BY <2>0 DEF RequestCall, queueVars
  <2>2. WroteFits(r, pending')
    BY DEF WroteFits, NoCall
  <2>. QED
    BY <2>1, <2>2, CallWrote
<1>5. CASE \E o \in Session : ProcessData(o)
  BY <1>5, ProcessDataWrote
<1>6. CASE \E o \in Session : ProcessExit(o)
  <2>1. UNCHANGED call /\ \A k \in Key : pending'[k] \in {pending[k], NoSession}
    BY <1>0, <1>6 DEF ProcessExit, DropPersistence, callVars
  <2>. QED
    BY <2>1, SameWrote
<1>7. CASE Dispose
  BY <1>7 DEF Dispose
<1>8. CASE UNCHANGED vars
  <2>1. UNCHANGED call /\ \A k \in Key : pending'[k] \in {pending[k], NoSession}
    BY <1>0, <1>8 DEF vars, callVars, queueVars
  <2>. QED
    BY <2>1, SameWrote
<1>. QED
  BY <1>1, <1>2, <1>3, <1>4, <1>5, <1>6, <1>7, <1>8 DEF Next, Environment

LEMMA InitWrote == Init => Wrote
  BY DEF Init, NoCall, Wrote, WroteFits

\* A flush waits for the newest write of a key: its text and its place stay.
LEMMA FlushWaits ==
    ASSUME QueueIInv, NEW c \in Call, NEW k \in Key, k \in queued,
           writes' = [writes EXCEPT ![k][Len(writes[k])].waiters = @ \cup {c}]
    PROVE  /\ writes' \in [Key -> Seq(Write)] /\ \A x \in Key \ {k} : writes'[x] = writes[x]
           /\ Len(writes'[k]) = Len(writes[k]) /\ Len(writes[k]) \in Nat \ {0}
           /\ \A i \in 1..Len(writes[k]) : /\ writes'[k][i].version = writes[k][i].version
                                           /\ writes'[k][i].chained = writes[k][i].chained
           /\ writes[k] # <<>> /\ writes'[k] # <<>>
<1>. DEFINE w == writes[k]
            n == Len(w)
            last == [w[n] EXCEPT !.waiters = @ \cup {c}]
<1>1. writes \in [Key -> Seq(Write)] /\ w \in Seq(Write)
  BY DEF QueueIInv, HistoryShape
<1>2. w # <<>>
  BY DEF QueueIInv, Ordered
<1>3. n \in Nat \ {0} /\ w[n] \in Write
  BY <1>1, <1>2
<1>4. last \in Write /\ last.version = w[n].version /\ last.chained = w[n].chained
  BY <1>3 DEF Write
<1>5. writes' = [writes EXCEPT ![k] = [w EXCEPT ![n] = last]]
  OBVIOUS
<1>. HIDE DEF last
<1>6. /\ [w EXCEPT ![n] = last] \in Seq(Write) /\ Len([w EXCEPT ![n] = last]) = n
      /\ \A i \in 1..n : [w EXCEPT ![n] = last][i] = IF i = n THEN last ELSE w[i]
  BY <1>1, <1>3, <1>4
<1>7. /\ writes' \in [Key -> Seq(Write)] /\ writes'[k] = [w EXCEPT ![n] = last]
      /\ \A x \in Key \ {k} : writes'[x] = writes[x]
  BY <1>1, <1>5, <1>6
<1>. QED
  BY <1>2, <1>3, <1>4, <1>6, <1>7

LEMMA FlushStepKeeps ==
    ASSUME IInv, QueueIInv, Wrote, NEW c \in Call, NEW k \in Key, FlushStep(c, k) PROVE Keeps
<1>1. UNCHANGED <<file, version, buffer, key, sessions>>
  BY DEF FlushStep, mapVars, sessionVars, historyVars
<1>2. call[c] \in CallState /\ (k \in call[c].wrote => pending[k] = NoSession)
  BY CallType DEF Wrote, WroteFits
<1>3. PICK r : /\ call' = [call EXCEPT ![c] = r]
               /\ r.step = call[c].step /\ r.op = call[c].op /\ r.key = call[c].key
               /\ r.left = call[c].left /\ r \in CallState
               /\ \/ r.flushing = call[c].flushing
                  \/ /\ r.flushing = call[c].flushing \ {k}
                     /\ pending[k] = NoSession /\ k \notin queued
                     /\ UNCHANGED <<pending, queued, writes>>
  <2>. DEFINE more == [call[c] EXCEPT !.wrote = @ \cup {k}]
              back == [call[c] EXCEPT !.wrote = @ \ {k}]
              done == [call[c] EXCEPT !.flushing = @ \ {k}, !.wrote = @ \ {k}]
  <2>1. CASE call' = [call EXCEPT ![c] = more] \/ call' = [call EXCEPT ![c] = back]
    BY <1>2, <2>1 DEF CallState
  <2>2. CASE /\ call' = [call EXCEPT ![c] = done] /\ pending[k] = NoSession /\ k \notin queued
             /\ UNCHANGED <<pending, queued, writes>>
    <3>1. /\ done.step = call[c].step /\ done.op = call[c].op /\ done.key = call[c].key
          /\ done.left = call[c].left /\ done.flushing = call[c].flushing \ {k}
          /\ done \in CallState
      BY <1>2 DEF CallState
    <3>. QED
      BY <2>2, <3>1
  <2>3. call = [d \in Call |-> call[d]]
    BY DEF IInv, Shape
  <2>4. \/ call' = [call EXCEPT ![c].wrote = @ \cup {k}]
        \/ call' = [call EXCEPT ![c].wrote = @ \ {k}]
        \/ /\ call' = [call EXCEPT ![c].flushing = @ \ {k}, ![c].wrote = @ \ {k}]
           /\ pending[k] = NoSession /\ k \notin queued /\ UNCHANGED <<pending, queued, writes>>
    BY <1>2 DEF FlushStep
  <2>5. call' = [call EXCEPT ![c].flushing = @ \ {k}, ![c].wrote = @ \ {k}] =>
           call' = [call EXCEPT ![c] = done]
    BY <2>3
  <2>. QED
    BY <2>1, <2>2, <2>4, <2>5
<1>4. Flushes(r, key') /\ (IsFlushing(call[c]) => IsFlushing(r))
  BY <1>1, <1>3 DEF QueueIInv, FlushesFit, Flushes, IsFlushing, FlushStep
<1>5. ASSUME r.flushing = call[c].flushing, \A x \in Key : Unsaved(x)' => Unsaved(x)
      PROVE  Entrusted' /\ FlushesFit'
  BY <1>1, <1>3, <1>4, <1>5, CallEntrusts
<1>6. ASSUME pending[k] # NoSession PROVE Keeps
  <2>1. /\ writes' = Enqueued(k, k \in queued, buffer[pending[k]], {c})
        /\ pending' = [pending EXCEPT ![k] = NoSession] /\ queued' = queued \cup {k}
    BY <1>2, <1>6 DEF FlushStep
  <2>2. {c} \in SUBSET Call
    OBVIOUS
  <2>3. /\ HistoryShape' /\ \A x \in Key : Ordered(x)' /\ (Unsaved(x)' => Unsaved(x))
        /\ HistoryIInv => \A x \in Key : Saved(x)'
    BY <1>1, <1>6, <2>1, <2>2, PendingWritten
  <2>4. Entrusted' /\ FlushesFit'
    BY <1>3, <1>5, <1>6, <2>3
  <2>. QED
    BY <2>3, <2>4 DEF Keeps, HistoryIInv, QueueIInv
<1>7. ASSUME pending[k] = NoSession, k \in queued PROVE Keeps
  <2>1. /\ writes' = [writes EXCEPT ![k][Len(writes[k])].waiters = @ \cup {c}]
        /\ UNCHANGED <<pending, queued>>
    BY <1>7 DEF FlushStep
  <2>2. /\ writes' \in [Key -> Seq(Write)] /\ \A x \in Key \ {k} : writes'[x] = writes[x]
        /\ Len(writes'[k]) = Len(writes[k]) /\ Len(writes[k]) \in Nat \ {0}
        /\ \A i \in 1..Len(writes[k]) : /\ writes'[k][i].version = writes[k][i].version
                                        /\ writes'[k][i].chained = writes[k][i].chained
        /\ writes[k] # <<>> /\ writes'[k] # <<>>
    BY <1>7, <2>1, FlushWaits
  <2>3. HistoryShape'
    BY <1>1, <2>1, <2>2 DEF QueueIInv, HistoryShape
  <2>4. \A x \in Key \ {k} : Untouched(x)
    BY <1>1, <2>1, <2>2 DEF Untouched
  <2>5. Ordered(k)'
    BY <1>7, <2>1, <2>2 DEF QueueIInv, Ordered
  <2>6. ASSUME HistoryIInv PROVE Saved(k)'
    <3>1. writes'[k][Len(writes'[k])].version = writes[k][Len(writes[k])].version
      BY <2>2
    <3>2. Latest(k) = writes[k][Len(writes[k])].version
      BY <1>7, <2>2 DEF Latest
    <3>3. Latest(k)' = writes'[k][Len(writes'[k])].version
      BY <1>7, <2>1, <2>2 DEF Latest
    <3>. QED
      BY <1>1, <2>6, <3>1, <3>2, <3>3 DEF HistoryIInv, Saved
  <2>7. ASSUME NEW x \in Key PROVE Ordered(x)' /\ (HistoryIInv => Saved(x)')
    BY <2>4, <2>5, <2>6, UntouchedOrdered, UntouchedSaved
  <2>8. Entrusted' /\ FlushesFit'
    <3>1. \A x \in Key : Unsaved(x)' => Unsaved(x)
      BY <2>1, <2>2 DEF Unsaved
    <3>. QED
      BY <1>3, <1>5, <1>7, <3>1
  <2>. QED
    BY <2>3, <2>7, <2>8 DEF Keeps, HistoryIInv, QueueIInv
<1>8. ASSUME pending[k] = NoSession, k \notin queued PROVE Keeps
  <2>1. UNCHANGED <<pending, queued, writes>>
    BY <1>8 DEF FlushStep
  <2>2. ~Unsaved(k)
    BY <1>8 DEF QueueIInv, Ordered, Unsaved
  <2>3. UNCHANGED <<dataVars, key, sessions>>
    BY <1>1, <2>1 DEF dataVars
  <2>4. \A x \in Key : IsFlushing(call[c]) /\ x \in call[c].flushing =>
               (IsFlushing(r) /\ x \in r.flushing) \/ ~Unsaved(x)
    BY <1>3, <1>4, <2>2
  <2>. QED
    BY <1>1, <1>3, <1>4, <2>3, <2>4, CallMoves
<1>. QED
  BY <1>6, <1>7, <1>8

\* A deletion finds nothing left to write of the keys it deletes.
LEMMA DeleteHistoryKeeps ==
    ASSUME IInv, QueueIInv, NEW c \in Call, DeleteHistory(c) PROVE Keeps
<1>. SUFFICES ASSUME NEW gone, gone = Targets(call[c]) PROVE Keeps
  OBVIOUS
<1>1. call[c].step = "delete" /\ call[c].op \in Closing
  BY CallType DEF DeleteHistory, StepFits
<1>2. /\ file' = [x \in Key |-> IF x \in gone THEN 0 ELSE file[x]]
      /\ version' = [x \in Key |-> IF x \in gone THEN 0 ELSE version[x]]
      /\ Finish(c) /\ UNCHANGED <<sessions, key, buffer, pending, queued, writes>>
  BY DEF DeleteHistory, Targets, mapVars, sessionVars, queueVars
<1>3. ASSUME NEW x \in gone PROVE x \in Key /\ sessions[x] = NoSession /\ ~Unsaved(x)
  <2>1. x \in Key /\ x[1] = call[c].key[1]
    BY CallType, KeysOfType DEF Targets
  <2>2. sessions[x] = NoSession
    BY <1>1, CallType DEF HoldsIn
  <2>. QED
    BY <1>1, <2>1, <2>2, AbsentSaved DEF InProgress, IsFlushing
<1>4. HistoryShape'
  BY <1>2 DEF QueueIInv, HistoryShape
<1>5. \A x \in Key \ gone : Untouched(x)
  BY <1>2 DEF Untouched
<1>6. ASSUME NEW x \in gone PROVE Ordered(x)' /\ Saved(x)'
  <2>1. x \in Key /\ sessions[x] = NoSession /\ ~Unsaved(x) /\ Ordered(x)
    BY <1>3 DEF QueueIInv
  <2>2. Ordered(x)'
    BY <1>2, <2>1 DEF Ordered
  <2>3. Saved(x)'
    BY <1>2, <2>1 DEF Saved, Latest, Unsaved
  <2>. QED
    BY <2>2, <2>3
<1>7. ASSUME NEW x \in Key PROVE Ordered(x)' /\ (HistoryIInv => Saved(x)')
  BY <1>5, <1>6, UntouchedOrdered, UntouchedSaved
<1>8. Entrusted' /\ FlushesFit'
  <2>1. NoCall \in CallState /\ Flushes(NoCall, key') /\ call' = [call EXCEPT ![c] = NoCall]
    BY <1>2, NoCallType DEF NoCall, Flushes, Finish
  <2>2. \A x \in Key : Unsaved(x)' = Unsaved(x)
    BY <1>2 DEF Unsaved
  <2>3. ~IsFlushing(call[c])
    BY <1>1 DEF IsFlushing
  <2>. QED
    BY <1>2, <2>1, <2>2, <2>3, CallEntrusts
<1>. QED
  BY <1>4, <1>7, <1>8 DEF Keeps, HistoryIInv, QueueIInv

-----------------------------------------------------------------------------
(* What happens outside the lock.                                              *)

LEMMA RequestCallKeeps ==
    ASSUME IInv, QueueIInv, NEW c \in Call, NEW op \in Operation, NEW k \in Key, NEW cfg \in Config,
           NEW del \in BOOLEAN, RequestCall(c, op, k, cfg, del)
    PROVE  Keeps
<1>. DEFINE r == [NoCall EXCEPT !.op = op, !.key = k, !.config = cfg, !.delete = del,
                                !.step = "queued"]
<1>1. call' = [call EXCEPT ![c] = r] /\ UNCHANGED <<dataVars, key, sessions>>
  BY DEF RequestCall, mapVars, sessionVars, queueVars, historyVars, dataVars
<1>2. r \in CallState /\ r.flushing = {} /\ r.step = "queued"
  BY NoCallType DEF CallState, NoCall
<1>3. ~IsFlushing(call[c])
  BY DEF RequestCall, IsFlushing
<1>. HIDE DEF r
<1>4. Flushes(r, key)
  BY <1>2 DEF Flushes
<1>. QED
  BY <1>1, <1>2, <1>3, <1>4, CallMoves

\* The histories do not see it.
LEMMA UnseenKeeps ==
    ASSUME IInv, QueueIInv, UNCHANGED <<dataVars, key, sessions, call>> PROVE Keeps
<1>1. \A k \in Key : Unsaved(k)' = Unsaved(k)
  BY DEF Unsaved, dataVars
<1>2. Entrusted' /\ FlushesFit'
  BY <1>1, CallsSame
<1>. QED
  BY <1>2, DataKept

\* Output is of a session in the map: it becomes the pending text of its key.
LEMMA ProcessDataKeeps ==
    ASSUME IInv, QueueIInv, NEW o \in Session, ProcessData(o) PROVE Keeps
<1>. SUFFICES ASSUME NEW k \in Key, k = key[o] PROVE Keeps
  BY DEF IInv, Shape
<1>. DEFINE v == version[k] + 1
<1>1. /\ version' = [version EXCEPT ![k] = v] /\ buffer' = [buffer EXCEPT ![o] = v]
      /\ pending' = [pending EXCEPT ![k] = o]
      /\ UNCHANGED <<sessions, key, queued, writes, file, call>>
  BY DEF ProcessData, mapVars, sessionVars, callVars
<1>2. sessions[k] = o /\ o # NoSession
  BY ConstantsAssumption DEF ProcessData, IInv, MapIn
<1>3. /\ version \in [Key -> Nat] /\ buffer \in [Session -> Nat] /\ v \in Nat
      /\ pending \in [Key -> Session \cup {NoSession}]
  BY DEF QueueIInv, HistoryShape
<1>4. HistoryShape'
  BY <1>1, <1>3 DEF QueueIInv, HistoryShape
<1>5. \A x \in Key \ {k} : pending[x] # o /\ sessions[x] # o
  BY <1>2, OwnSession
<1>6. \A x \in Key \ {k} : Untouched(x)
  BY <1>1, <1>3, <1>5 DEF Untouched
<1>7. pending'[k] = o /\ version'[k] = v /\ buffer'[o] = v
  BY <1>1, <1>3
<1>8. Ordered(k)'
  BY <1>1, <1>2, <1>7 DEF QueueIInv, Ordered
<1>9. Saved(k)'
  BY <1>1, <1>2, <1>7 DEF Saved, Latest
<1>10. ASSUME NEW x \in Key PROVE Ordered(x)' /\ (HistoryIInv => Saved(x)')
  BY <1>6, <1>8, <1>9, UntouchedOrdered, UntouchedSaved
<1>11. Entrusted' /\ FlushesFit'
  <2>1. \A x \in Key \ {k} : Unsaved(x)' = Unsaved(x)
    BY <1>6, UntouchedUnsaved
  <2>2. \A x \in Key : sessions'[x] = NoSession /\ Unsaved(x)' => sessions[x] = NoSession /\ Unsaved(x)
    BY <1>1, <1>2, <2>1
  <2>. QED
    BY <1>1, <2>2, CallsSame
<1>. QED
  BY <1>4, <1>10, <1>11 DEF Keeps, HistoryIInv, QueueIInv

LEMMA ProcessExitKeeps ==
    ASSUME Room, IInv, QueueIInv, NEW o \in Session, ProcessExit(o) PROVE Keeps
<1>. DEFINE K == Evicted(sessions, status', idle)
<1>1. K = {} /\ sessions' = sessions
  BY NobodyLeaves DEF ProcessExit
<1>2. DropPersistence({}) /\ UNCHANGED <<key, historyVars, callVars>>
  BY <1>1 DEF ProcessExit
<1>. QED
  BY <1>1, <1>2, NothingDropped, UnseenKeeps DEF dataVars, historyVars, callVars

LEMMA PersistTimerKeeps ==
    ASSUME IInv, QueueIInv, NEW k \in Key, PersistTimerFires(k) PROVE Keeps
<1>1. UNCHANGED <<file, version, buffer, key, sessions, call>>
  BY DEF PersistTimerFires, mapVars, sessionVars, historyVars, callVars
<1>2. CASE pending[k] = NoSession
  BY <1>1, <1>2, UnseenKeeps DEF PersistTimerFires, dataVars
<1>3. CASE pending[k] # NoSession
  <2>1. /\ writes' = Enqueued(k, k \in queued, buffer[pending[k]], {})
        /\ pending' = [pending EXCEPT ![k] = NoSession] /\ queued' = queued \cup {k}
    BY <1>3 DEF PersistTimerFires
  <2>2. {} \in SUBSET Call
    OBVIOUS
  <2>3. /\ HistoryShape' /\ \A x \in Key : Ordered(x)' /\ (Unsaved(x)' => Unsaved(x))
        /\ HistoryIInv => \A x \in Key : Saved(x)'
    BY <1>1, <1>3, <2>1, <2>2, PendingWritten
  <2>4. Entrusted' /\ FlushesFit'
    BY <1>1, <2>3, CallsSame
  <2>. QED
    BY <2>3, <2>4 DEF Keeps, HistoryIInv, QueueIInv
<1>. QED
  BY <1>2, <1>3

\* The oldest write of a key leaves its queue.
LEMMA FirstLeaves ==
    ASSUME NEW w \in Seq(Write), w # <<>>
    PROVE  /\ Without(w, 1) \in Seq(Write) /\ Len(w) \in Nat \ {0}
           /\ Len(Without(w, 1)) = Len(w) - 1
           /\ Len(w) > 1 => Without(w, 1)[Len(w) - 1].version = w[Len(w)].version
           /\ \A j \in 2..(Len(w) - 1) : Without(w, 1)[j] = w[j + 1]
<1>. DEFINE n == Len(w)
            second == [w[2] EXCEPT !.chained = FALSE]
<1>1. n \in Nat \ {0} /\ \A j \in 1..n : w[j] \in Write
  OBVIOUS
<1>2. n > 1 => second \in Write /\ second.version = w[2].version
  <2>1. n > 1 => w[2] \in Write
    BY <1>1
  <2>2. ASSUME w[2] \in Write PROVE second \in Write /\ second.version = w[2].version
    BY <2>2 DEF Write
  <2>. QED
    BY <2>1, <2>2
<1>. HIDE DEF second
<1>3. Without(w, 1) = [j \in 1..(n - 1) |-> IF j = 1 THEN second ELSE w[j + 1]]
  <2>1. \A j \in 1..(n - 1) :
           (IF j < 1 THEN w[j] ELSE IF j = 1 THEN [w[j + 1] EXCEPT !.chained = FALSE] ELSE w[j + 1])
           = IF j = 1 THEN second ELSE w[j + 1]
    <3>. TAKE j \in 1..(n - 1)
    <3>1. ~(j < 1) /\ (j = 1 => j + 1 = 2)
      BY <1>1
    <3>. QED
      BY <3>1 DEF second
  <2>. QED
    BY <2>1, Zenon DEF Without
<1>4. Without(w, 1) \in Seq(Write) /\ Len(Without(w, 1)) = n - 1
  <2>1. \A j \in 1..(n - 1) : (IF j = 1 THEN second ELSE w[j + 1]) \in Write
    <3>. TAKE j \in 1..(n - 1)
    <3>1. n > 1 /\ j + 1 \in 1..n
      BY <1>1
    <3>. QED
      BY <1>1, <1>2, <3>1
  <2>2. n - 1 \in Nat
    BY <1>1
  <2>. QED
    BY <1>3, <2>1, <2>2
<1>5. n > 1 => Without(w, 1)[n - 1].version = w[n].version
  BY <1>1, <1>2, <1>3
<1>. QED
  BY <1>1, <1>3, <1>4, <1>5

\* The write that ends is the oldest; what its key still owes the disk stays behind it.
LEMMA WriteEndsKeeps ==
    ASSUME IInv, QueueIInv, NEW k \in Key, NEW i \in DOMAIN writes[k], NEW ok \in BOOLEAN,
           WriteEnds(k, i, ok)
    PROVE  Keeps
<1>. DEFINE w == writes[k]
            rest == Without(w, 1)
<1>1. w \in Seq(Write) /\ w # <<>> /\ Ordered(k)
  BY DEF QueueIInv, HistoryShape
<1>2. i = 1 /\ w[1] \in Write /\ w[1].version \in Nat
  <2>1. i \in 1..Len(w) /\ Len(w) \in Nat \ {0} /\ ~w[i].chained
    BY <1>1 DEF WriteEnds
  <2>2. i = 1
    BY <1>1, <2>1 DEF Ordered
  <2>3. w[1] \in Write
    BY <1>1, <2>1
  <2>. QED
    BY <2>2, <2>3 DEF Write
<1>3. /\ rest \in Seq(Write) /\ Len(w) \in Nat \ {0} /\ Len(rest) = Len(w) - 1
      /\ Len(w) > 1 => rest[Len(w) - 1].version = w[Len(w)].version
      /\ \A j \in 2..(Len(w) - 1) : rest[j] = w[j + 1]
  BY <1>1, FirstLeaves
<1>4. /\ file' = IF ok THEN [file EXCEPT ![k] = w[1].version] ELSE file
      /\ writes' = [writes EXCEPT ![k] = rest]
      /\ queued' = IF 1 = Len(w) THEN queued \ {k} ELSE queued
      /\ ok \/ "write" \in Faults
      /\ UNCHANGED <<sessions, key, pending, buffer, version, call>>
  BY <1>2 DEF WriteEnds, mapVars, sessionVars, callVars
<1>. HIDE DEF rest
<1>5. /\ writes \in [Key -> Seq(Write)] /\ file \in [Key -> Nat]
      /\ pending \in [Key -> Session \cup {NoSession}]
  BY DEF QueueIInv, HistoryShape
<1>6. /\ writes' \in [Key -> Seq(Write)] /\ writes'[k] = rest
      /\ \A x \in Key \ {k} : writes'[x] = writes[x]
  BY <1>3, <1>4, <1>5
<1>7. file' \in [Key -> Nat] /\ \A x \in Key \ {k} : file'[x] = file[x]
  <2>1. file' = file \/ file' = [file EXCEPT ![k] = w[1].version]
    BY <1>4
  <2>. QED
    BY <1>2, <1>5, <2>1
<1>8. HistoryShape'
  BY <1>4, <1>6, <1>7 DEF QueueIInv, HistoryShape
<1>9. \A x \in Key \ {k} : Untouched(x)
  BY <1>4, <1>6, <1>7 DEF Untouched
<1>10. rest = <<>> <=> Len(w) = 1
  <2>1. rest \in Seq(Write)
    BY <1>3
  <2>2. rest = <<>> <=> Len(rest) = 0
    BY <2>1
  <2>3. Len(rest) = 0 <=> Len(w) = 1
    BY <1>3
  <2>. QED
    BY <2>2, <2>3
<1>11. Ordered(k)'
  <2>1. k \in queued' <=> writes'[k] # <<>>
    BY <1>1, <1>4, <1>6, <1>10 DEF Ordered
  <2>2. ASSUME NEW j \in 2..Len(rest) PROVE rest[j].chained
    <3>1. j \in 2..(Len(w) - 1) /\ j + 1 \in 2..Len(w)
      BY <1>3
    <3>. QED
      BY <1>1, <1>3, <3>1 DEF Ordered
  <2>. QED
    BY <1>1, <1>4, <1>6, <2>1, <2>2 DEF Ordered
<1>12. ASSUME HistoryIInv, "write" \notin Faults PROVE Saved(k)'
  <2>1. Saved(k)
    BY <1>12 DEF HistoryIInv
  <2>2. CASE pending[k] # NoSession
    BY <1>4, <2>1, <2>2 DEF Saved, Latest
  <2>3. CASE pending[k] = NoSession /\ Len(w) = 1
    <3>1. Latest(k) = w[1].version
      BY <1>1, <2>3 DEF Latest
    <3>2. Latest(k)' = w[1].version
      BY <1>4, <1>5, <1>6, <1>10, <1>12, <2>3 DEF Latest
    <3>. QED
      BY <1>4, <2>1, <3>1, <3>2 DEF Saved
  <2>4. CASE pending[k] = NoSession /\ Len(w) # 1
    <3>1. Latest(k) = w[Len(w)].version
      BY <1>1, <2>4 DEF Latest
    <3>2. Len(w) > 1 /\ rest # <<>>
      BY <1>3, <1>10, <2>4
    <3>3. Latest(k)' = rest[Len(rest)].version
      BY <1>4, <1>6, <2>4, <3>2 DEF Latest
    <3>. QED
      BY <1>3, <1>4, <2>1, <3>1, <3>2, <3>3 DEF Saved
  <2>. QED
    BY <2>2, <2>3, <2>4
<1>13. ASSUME NEW x \in Key
       PROVE  Ordered(x)' /\ (HistoryIInv /\ "write" \notin Faults => Saved(x)')
  BY <1>9, <1>11, <1>12, UntouchedOrdered, UntouchedSaved
<1>14. Entrusted' /\ FlushesFit'
  <2>1. \A x \in Key \ {k} : Unsaved(x)' = Unsaved(x)
    BY <1>9, UntouchedUnsaved
  <2>2. Unsaved(k)
    BY <1>1 DEF Unsaved
  <2>. QED
    BY <1>4, <2>1, <2>2, CallsSame
<1>. QED
  BY <1>8, <1>13, <1>14 DEF Keeps, HistoryIInv, QueueIInv

-----------------------------------------------------------------------------
(* The invariant.                                                              *)

LEMMA CallStepKeeps ==
    ASSUME Room, IInv, QueueIInv, Wrote, NEW c \in Call, CallStep(c) PROVE Keeps
<1>1. CASE BeginStart(c) \/ StatFails(c) \/ OpenAttach(c) \/ Persisted(c)
  BY <1>1, StartsKeep
<1>2. CASE BeginClear(c)
  BY <1>2, BeginClearKeeps
<1>3. CASE BeginClose(c)
  BY <1>3, BeginCloseKeeps
<1>4. CASE OpenAbsent(c)
  BY <1>4, OpenAbsentKeeps
<1>5. CASE OpenReset(c) \/ RestartPresent(c)
  BY <1>5, PresentStartKeeps
<1>6. CASE \E o \in Session : ReadHistory(c, o)
  BY <1>6, ReadHistoryKeeps
<1>7. CASE \E o \in Session : RestartAbsent(c, o)
  BY <1>7, RestartAbsentKeeps
<1>8. CASE \E o \in Session : CloseNext(c, o)
  BY <1>8, CloseNextKeeps
<1>9. CASE SpawnFails(c) \/ \E p \in Shell : Spawned(c, p)
  BY <1>9, SpawnsKeep
<1>10. CASE CloseFlush(c)
  BY <1>10, CloseFlushKeeps
<1>11. CASE Flushed(c)
  BY <1>11, FlushedKeeps
<1>12. CASE DeleteHistory(c)
  BY <1>12, DeleteHistoryKeeps
<1>13. CASE \E k \in Key : FlushStep(c, k)
  BY <1>13, FlushStepKeeps
<1>. QED
  BY <1>1, <1>2, <1>3, <1>4, <1>5, <1>6, <1>7, <1>8, <1>9, <1>10, <1>11, <1>12, <1>13 DEF CallStep

LEMMA EnvironmentKeeps == ASSUME Room, IInv, QueueIInv, Environment PROVE disposed' \/ Keeps
<1>1. CASE \E c \in Call, op \in Operation \cap Requests, k \in Key, cfg \in Config,
             del \in BOOLEAN : RequestCall(c, op, k, cfg, del)
  BY <1>1, RequestCallKeeps
<1>2. CASE (\E k \in Key : Touch(k)) \/ (\E p \in Shell : SignalledExits(p))
  BY <1>2, UnseenKeeps DEF Touch, SignalledExits, mapVars, sessionVars, queueVars,
                           historyVars, callVars, dataVars
<1>3. CASE \E o \in Session : ProcessData(o)
  BY <1>3, ProcessDataKeeps
<1>4. CASE \E o \in Session : ProcessExit(o)
  BY <1>4, ProcessExitKeeps
<1>5. CASE Dispose
  BY <1>5 DEF Dispose
<1>. QED
  BY <1>1, <1>2, <1>3, <1>4, <1>5 DEF Environment

LEMMA NextKeeps ==
    ASSUME Room, IInv, QueueIInv, Wrote, [Next]_vars PROVE disposed' \/ Keeps
<1>1. CASE \E c \in Call : CallStep(c)
  BY <1>1, CallStepKeeps
<1>2. CASE \E k \in Key : PersistTimerFires(k)
  BY <1>2, PersistTimerKeeps
<1>3. CASE \E k \in Key : WriteStep(k)
  BY <1>3, WriteEndsKeeps DEF WriteStep
<1>4. CASE (\E p \in Shell : KillTimerFires(p)) \/ PollBegins
           \/ (\E active \in SUBSET Shell : PollEnds(active))
  BY <1>4, UnseenKeeps DEF KillTimerFires, PollBegins, PollEnds, mapVars, sessionVars,
                           queueVars, historyVars, callVars, dataVars
<1>5. CASE Environment
  BY <1>5, EnvironmentKeeps
<1>6. CASE UNCHANGED vars
  BY <1>6, UnseenKeeps DEF vars, dataVars
<1>. QED
  BY <1>1, <1>2, <1>3, <1>4, <1>5, <1>6 DEF Next

LEMMA InitHistory == Init => HistoryIInv
<1>. SUFFICES ASSUME Init PROVE HistoryIInv
  OBVIOUS
<1>1. file \in [Key -> Nat]
  BY DEF Init
<1>2. buffer \in [Session -> Nat]
  BY DEF Init
<1>3. HistoryShape
  BY <1>1, <1>2 DEF Init, HistoryShape
<1>4. \A k \in Key : Ordered(k) /\ Saved(k) /\ ~Unsaved(k)
  BY DEF Init, Ordered, Saved, Latest, Unsaved
<1>5. \A c \in Call : call[c] = NoCall /\ NoCall.flushing = {} /\ NoCall.step = "idle"
  BY NoCallType DEF Init, NoCall
<1>. QED
  BY <1>3, <1>4, <1>5 DEF HistoryIInv, QueueIInv, Entrusted, FlushesFit, Flushes

\* Nothing is promised of a manager that was disposed.
QueueInv == disposed \/ (QueueIInv /\ Wrote)
HistoryInv == disposed \/ (HistoryIInv /\ Wrote)

LEMMA NextQueueInv == ASSUME Room, Inv, QueueInv, [Next]_vars PROVE QueueInv'
  BY DisposedStays, NextKeeps, NextWrote DEF Inv, QueueInv, Keeps

LEMMA NextHistoryInv ==
    ASSUME Room, "write" \notin Faults, Inv, HistoryInv, [Next]_vars PROVE HistoryInv'
  BY DisposedStays, NextKeeps, NextWrote DEF Inv, HistoryInv, HistoryIInv, Keeps

-----------------------------------------------------------------------------
(* Theorems.                                                                   *)

\* The writes of a key run one after the other, the pending text of a key is its own
\* session's, and what a closed session left unsaved is flushed by the close that
\* took it out of the map (Manager.ts:814-890, 952-969).
THEOREM SpecQueueInv == ASSUME Room PROVE Spec => []QueueInv
<1>1. Init => QueueInv
  BY InitHistory, InitWrote DEF QueueInv, HistoryIInv
<1>2. Inv /\ QueueInv /\ [Next]_vars => QueueInv'
  BY NextQueueInv
<1>. QED
  BY <1>1, <1>2, SpecInv, PTL DEF Spec

\* A session's buffer holds its key's whole history: an open restores what the session
\* before it wrote last, however late its writes, as long as no write fails
\* (Manager.ts:344-377, 814-890, 952-969).
THEOREM SpecHistoryIsRestored ==
    ASSUME Room, "write" \notin Faults PROVE Spec => []HistoryIsRestored
<1>1. Init => HistoryInv
  BY InitHistory, InitWrote DEF HistoryInv
<1>2. Inv /\ HistoryInv /\ [Next]_vars => HistoryInv'
  BY NextHistoryInv
<1>3. HistoryInv => HistoryIsRestored
  BY DEF HistoryInv, HistoryIInv, Saved, HistoryIsRestored
<1>. QED
  BY <1>1, <1>2, <1>3, SpecInv, PTL DEF Spec

\* What gives a key a history again has its text in the queue.
LEMMA FileReturns ==
    ASSUME IInv, QueueIInv, Next, NEW k \in Key, file[k] = 0, file'[k] # 0 PROVE Unsaved(k)
<1>1. CASE \E c \in Call : CallStep(c)
  <2>. PICK c \in Call : CallStep(c)
    BY <1>1
  <2>1. CASE BeginStart(c) \/ BeginClear(c) \/ BeginClose(c) \/ StatFails(c) \/ OpenAbsent(c)
    BY <2>1 DEF BeginStart, BeginClear, BeginClose, StatFails, OpenAbsent, historyVars, ClearBuffer
  <2>2. CASE OpenReset(c) \/ OpenAttach(c) \/ RestartPresent(c) \/ Persisted(c) \/ SpawnFails(c)
    BY <2>2 DEF OpenReset, OpenAttach, RestartPresent, Persisted, SpawnFails, historyVars, ClearBuffer
  <2>3. CASE \E o \in Session : ReadHistory(c, o) \/ RestartAbsent(c, o) \/ CloseNext(c, o)
    BY <2>3 DEF ReadHistory, RestartAbsent, CloseNext, historyVars, ClearBuffer
  <2>4. CASE (\E p \in Shell : Spawned(c, p)) \/ (\E x \in Key : FlushStep(c, x))
    BY <2>4 DEF Spawned, FlushStep, historyVars
  <2>5. CASE CloseFlush(c) \/ Flushed(c)
    BY <2>5 DEF CloseFlush, Flushed, historyVars
  <2>6. CASE DeleteHistory(c)
    BY <2>6 DEF DeleteHistory
  <2>. QED
    BY <2>1, <2>2, <2>3, <2>4, <2>5, <2>6 DEF CallStep
<1>2. CASE \E x \in Key : PersistTimerFires(x)
  BY <1>2 DEF PersistTimerFires, historyVars
<1>3. CASE \E x \in Key : WriteStep(x)
  <2>. PICK x \in Key : WriteStep(x)
    BY <1>3
  <2>1. PICK i \in DOMAIN writes[x], ok \in BOOLEAN : WriteEnds(x, i, ok)
    BY DEF WriteStep
  <2>2. x = k
    BY <2>1 DEF WriteEnds, QueueIInv, HistoryShape
  <2>3. writes[k] # <<>>
    BY <2>1, <2>2 DEF QueueIInv, HistoryShape
  <2>. QED
    BY <2>3 DEF Unsaved
<1>4. CASE (\E p \in Shell : KillTimerFires(p)) \/ PollBegins
           \/ (\E active \in SUBSET Shell : PollEnds(active))
  BY <1>4 DEF KillTimerFires, PollBegins, PollEnds, historyVars
<1>5. CASE Environment
  BY <1>5 DEF Environment, RequestCall, Touch, ProcessData, ProcessExit, SignalledExits,
              Dispose, historyVars
<1>. QED
  BY <1>1, <1>2, <1>3, <1>4, <1>5 DEF Next

\* A history that was deleted comes back only for a session in the map or by the flush of
\* a close: no late write resurrects it (Manager.ts:936-969, 1045-1088).
THEOREM SpecDeletedStaysDeleted == ASSUME Room PROVE Spec => DeletedStaysDeleted
<1>. DEFINE Stays == \A k \in Key : file[k] = 0 /\ file'[k] # 0 =>
                        \/ sessions[k] # NoSession \/ disposed
                        \/ \E c \in Call : k \in call[c].flushing
<1>1. ASSUME Inv, QueueInv, [Next]_vars PROVE [Stays]_vars
  <2>1. CASE UNCHANGED vars
    BY <2>1
  <2>2. CASE Next
    <3>1. ASSUME NEW k \in Key, file[k] = 0, file'[k] # 0, sessions[k] = NoSession, ~disposed
          PROVE  \E c \in Call : k \in call[c].flushing
      <4>1. IInv /\ QueueIInv
        BY <1>1, <3>1 DEF Inv, QueueInv
      <4>2. Unsaved(k)
        BY <2>2, <3>1, <4>1, FileReturns
      <4>. QED
        BY <3>1, <4>1, <4>2 DEF QueueIInv, Entrusted
    <3>. QED
      BY <3>1
  <2>. QED
    BY <1>1, <2>1, <2>2
<1>. HIDE DEF Stays
<1>2. Spec => [][Stays]_vars
  BY <1>1, SpecInv, SpecQueueInv, PTL DEF Spec
<1>. QED
  BY <1>2 DEF DeletedStaysDeleted, Stays
=============================================================================
