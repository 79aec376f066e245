----------------------- MODULE OrchestrationEngineProofs -----------------------
(***************************************************************************)
(* Proofs about the orchestration engine: its types, the history its       *)
(* worker writes, the receipts it keeps, the answers it gives, that it     *)
(* implements CommandLog, and that projections, memory and subscribers     *)
(* have what the log has.                                                  *)
(*                                                                         *)
(* The argument: the read model in memory has seen everything in the log   *)
(* whenever a command is decided (KnownCurrent), so the decider's checks   *)
(* are checks of the log; a receipt and the events it stands for are       *)
(* written in one transaction (ReceiptsSound); and what the worker does    *)
(* next was decided on receipts and a log that have not changed since      *)
(* (InHand), because there is one worker.  Projections lack what a         *)
(* bootstrap has still to read (Unread); memory and subscribers lack what  *)
(* the command in hand has appended, and no more than one read of it       *)
(* (MemoryFollows).                                                        *)
(***************************************************************************)
EXTENDS OrchestrationEngine, FiniteSetTheorems, SequenceTheorems,
        WellFoundedInduction, TLAPS

-----------------------------------------------------------------------------
(* Numbers and sequences *)

\* A non-empty set of numbers has a least.
LEMMA LeastNumber ==
    ASSUME NEW S \in SUBSET Nat, S # {}
    PROVE  \E m \in S : \A k \in S : m <= k
<1>. DEFINE R == {ss \in Nat \X Nat : ss[1] < ss[2]}
<1>1. IsWellFoundedOn(R, Nat)
  BY NatLessThanWellFounded DEF OpToRel
<1>2. \A k, m \in Nat : k < m => <<k, m>> \in R
  OBVIOUS
<1>. HIDE DEF R
<1>3. PICK m \in S : \A k \in S : ~(<<k, m>> \in R)
  BY <1>1, WFMin
<1>4. ASSUME NEW k \in S
      PROVE  m <= k
  <2>1. k \in Nat /\ m \in Nat
    OBVIOUS
  <2>2. ~(k < m)
    BY <2>1, <1>2, <1>3
  <2>. QED
    BY <2>1, <2>2
<1>. QED
  BY <1>4

\* The least of a set of numbers is one of them.
LEMMA LeastType ==
    ASSUME NEW S \in SUBSET Nat, S # {}
    PROVE  Least(S) \in S
BY LeastNumber DEF Least

\* A non-empty set of sequence numbers has a greatest.
LEMMA GreatestNumber ==
    ASSUME NEW n \in Nat, NEW S \in SUBSET (1..n), S # {}
    PROVE  \E x \in S : \A y \in S : y <= x
<1>. DEFINE T == {n - x : x \in S}
<1>1. T # {} /\ T \in SUBSET Nat
  <2>1. PICK y \in S : TRUE
    OBVIOUS
  <2>2. n - y \in T
    OBVIOUS
  <2>3. \A x \in S : n - x \in Nat
    OBVIOUS
  <2>. QED
    BY <2>2, <2>3
<1>2. PICK m \in T : \A k \in T : m <= k
  <2>. HIDE DEF T
  <2>. QED
    BY <1>1, LeastNumber
<1>3. PICK x \in S : m = n - x
  OBVIOUS
<1>4. ASSUME NEW y \in S
      PROVE  y <= x
  <2>1. n - y \in T /\ x \in Nat /\ y \in Nat
    OBVIOUS
  <2>2. n - x <= n - y
    BY <2>1, <1>2, <1>3
  <2>. QED
    BY <2>1, <2>2
<1>. QED
  BY <1>4

\* The greatest of a set of sequence numbers is one of them.
LEMMA GreatestType ==
    ASSUME NEW n \in Nat, NEW S \in SUBSET (1..n), S # {}
    PROVE  Greatest(S) \in S
BY GreatestNumber DEF Greatest

\* An ascending enumeration of sequence numbers is a sequence of numbers.
LEMMA AscendingType ==
    ASSUME NEW n \in Nat, NEW S \in SUBSET (1..n), NEW s \in Ascending(S)
    PROVE  s \in Seq(Nat)
<1>1. IsFiniteSet(1..n)
  BY FS_Interval
<1>2. Cardinality(S) \in Nat
  BY <1>1, FS_Subset, FS_CardinalityType
<1>3. s \in [1..Cardinality(S) -> S]
  BY DEF Ascending
<1>4. S \subseteq Nat
  OBVIOUS
<1>5. s \in [1..Cardinality(S) -> Nat]
  BY <1>3, <1>4
<1>. QED
  BY <1>2, <1>5

\* The numbers between two lengths of the log.
LEMMA NumbersType ==
    ASSUME NEW n \in Nat, NEW m \in Nat, n <= m
    PROVE  /\ Numbers(n, m) \in Seq(Nat)
           /\ {Numbers(n, m)[i] : i \in DOMAIN Numbers(n, m)} = (n + 1)..m
<1>1. m - n \in Nat /\ DOMAIN Numbers(n, m) = 1..(m - n)
  BY DEF Numbers
<1>2. \A i \in 1..(m - n) : Numbers(n, m)[i] = n + i
  BY DEF Numbers
<1>3. \A k \in (n + 1)..m : k - n \in 1..(m - n) /\ k = n + (k - n)
  OBVIOUS
<1>4. Numbers(n, m) \in [1..(m - n) -> Nat]
  BY DEF Numbers
<1>5. Numbers(n, m) \in Seq(Nat)
  BY <1>1, <1>4
<1>6. \A i \in 1..(m - n) : n + i \in (n + 1)..m
  OBVIOUS
<1>7. {Numbers(n, m)[i] : i \in 1..(m - n)} = (n + 1)..m
  BY <1>2, <1>3, <1>6
<1>. QED
  BY <1>1, <1>5, <1>7

\* How a number past n is counted from n.
LEMMA Offset ==
    ASSUME NEW n \in Nat, NEW k \in Nat, NEW i \in (n + 1)..(n + k)
    PROVE  i - n \in 1..k /\ n + (i - n) = i
OBVIOUS

\* A prefix of a sequence.
LEMMA PrefixType ==
    ASSUME NEW S, NEW s \in Seq(S), NEW k \in 1..Len(s)
    PROVE  SubSeq(s, 1, k) \in Seq(S)
OBVIOUS

-----------------------------------------------------------------------------
(* Commands and read models *)

\* A command's events: one or two, well formed, all of them its own.
LEMMA BatchType ==
    ASSUME NEW c \in Command
    PROVE  /\ Batch(c) \in Seq(Event)
           /\ Len(Batch(c)) \in 1..2
           /\ \A i \in 1..Len(Batch(c)) :
                /\ Batch(c)[i].command = c.id
                /\ Batch(c)[i].target = c.target
                /\ Batch(c)[i].type = EventTypes(c.kind)[i]
<1>1. c.id \in STRING /\ c.kind \in Kind /\ c.target \in STRING
  BY CommandAssumption
<1>2. /\ EventTypes(c.kind) \in Seq(EventType)
      /\ Len(EventTypes(c.kind)) \in 1..2
  <2>. DEFINE T == EventType
  <2>1. /\ "project.created" \in T /\ "thread.created" \in T
        /\ "thread.message-sent" \in T /\ "thread.turn-start-requested" \in T
    BY DEF EventType, Created
  <2>. HIDE DEF T
  <2>2. ASSUME NEW a \in T, NEW b \in T
        PROVE  /\ <<a>> \in Seq(T) /\ Len(<<a>>) = 1
               /\ <<a, b>> \in Seq(T) /\ Len(<<a, b>>) = 2
    OBVIOUS
  <2>3. CASE c.kind = "project.create"
    <3>1. EventTypes(c.kind) = <<"project.created">>
      BY <2>3 DEF EventTypes
    <3>. QED
      BY <3>1, <2>1, <2>2 DEF T
  <2>4. CASE c.kind = "thread.create"
    <3>1. EventTypes(c.kind) = <<"thread.created">>
      BY <2>4 DEF EventTypes
    <3>. QED
      BY <3>1, <2>1, <2>2 DEF T
  <2>5. CASE c.kind = "thread.turn.start"
    <3>1. EventTypes(c.kind) = <<"thread.message-sent", "thread.turn-start-requested">>
      BY <2>5 DEF EventTypes
    <3>. QED
      BY <3>1, <2>1, <2>2 DEF T
  <2>. QED
    BY <1>1, <2>3, <2>4, <2>5 DEF Kind
<1>3. DOMAIN EventTypes(c.kind) = 1..Len(EventTypes(c.kind))
  BY <1>2
<1>4. Batch(c) \in [1..Len(EventTypes(c.kind)) -> Event]
  BY <1>1, <1>2, <1>3 DEF Batch, Event, CommandId
<1>5. Batch(c) \in Seq(Event) /\ Len(Batch(c)) = Len(EventTypes(c.kind))
  BY <1>2, <1>4
<1>6. \A i \in 1..Len(EventTypes(c.kind)) :
        /\ Batch(c)[i].command = c.id
        /\ Batch(c)[i].target = c.target
        /\ Batch(c)[i].type = EventTypes(c.kind)[i]
  BY <1>3 DEF Batch
<1>. QED
  BY ONLY <1>2, <1>5, <1>6

\* What a union of two sets of events creates.
LEMMA CreatedByUnion ==
    ASSUME NEW l, NEW is, NEW js
    PROVE  CreatedBy(l, is \cup js) = CreatedBy(l, is) \cup CreatedBy(l, js)
BY DEF CreatedBy

\* Logs that agree on some events agree on what these create.
LEMMA CreatedByAgree ==
    ASSUME NEW l, NEW m, NEW is, \A i \in is : l[i] = m[i]
    PROVE  CreatedBy(l, is) = CreatedBy(m, is)
BY DEF CreatedBy

ReadModel == [sequence: Nat, known: SUBSET (Created \X STRING)]

\* A projection is a read model that knows what it knew and what was created.
LEMMA ProjectedType ==
    ASSUME NEW l \in Seq(Event), NEW m \in ReadModel, NEW is \in SUBSET (DOMAIN l)
    PROVE  /\ Projected(m, l, is) \in ReadModel
           /\ Projected(m, l, is).known = m.known \cup CreatedBy(l, is)
<1>1. CreatedBy(l, is) \in SUBSET (Created \X STRING)
  <2>1. ASSUME NEW i \in is, l[i].type \in Created
        PROVE  <<l[i].type, l[i].target>> \in Created \X STRING
    <3>1. l[i] \in Event
      OBVIOUS
    <3>. QED
      BY <3>1, <2>1 DEF Event
  <2>. QED
    BY <2>1 DEF CreatedBy
<1>2. CASE is = {}
  BY <1>2 DEF Projected, ReadModel, CreatedBy
<1>3. CASE is # {}
  <2>1. Len(l) \in Nat /\ is \in SUBSET (1..Len(l))
    OBVIOUS
  <2>2. Greatest(is) \in Nat
    <3>1. Greatest(is) \in is
      BY <2>1, <1>3, GreatestType
    <3>. QED
      BY <2>1, <3>1
  <2>3. Projected(m, l, is) = [sequence |-> Greatest(is), known |-> m.known \cup CreatedBy(l, is)]
    BY <1>3 DEF Projected
  <2>. QED
    BY <1>1, <2>2, <2>3 DEF ReadModel
<1>. QED
  BY <1>2, <1>3

-----------------------------------------------------------------------------
(* Type correctness *)

\* The initial state is well typed.
LEMMA InitType == Init => TypeOK
<1>. SUFFICES ASSUME Init PROVE TypeOK
  OBVIOUS
<1>1. log \in Seq(Event) /\ ReadLimit \in Nat
  <2>1. PICK h \in Histories : log = h
    BY DEF Init
  <2>2. h \in Seq([type: EventType, target: STRING, command: {NoCommand}])
    BY EngineAssumption
  <2>3. [type: EventType, target: STRING, command: {NoCommand}] \subseteq Event
    BY DEF Event, CommandId
  <2>. QED
    BY <2>1, <2>2, <2>3, SeqMonotonic, EngineAssumption
<1>2. PICK new \in SUBSET Behind, all \in Ascending(Readable(0)) :
        /\ cursor = [p \in Projector |-> IF p \in new THEN 0 ELSE Len(log)]
        /\ rows = [p \in Projector |-> IF p \in new THEN <<>> ELSE all]
  BY DEF Init
<1>3. Readable(0) \in SUBSET (1..Len(log)) /\ Len(log) \in Nat
  BY <1>1 DEF Readable
<1>4. all \in Seq(Nat)
  BY <1>2, <1>3, AscendingType
<1>5. cursor \in [Projector -> Nat] /\ rows \in [Projector -> Seq(Nat)]
  BY <1>2, <1>3, <1>4
<1>6. receipts \in [Command -> [status: {"none", "accepted", "rejected"}, sequence: Nat]]
  BY DEF Init, Unseen
<1>. QED
  BY <1>1, <1>5, <1>6 DEF Init, TypeOK, EmptyReadModel

\* What the readable events are.
LEMMA ReadableType ==
    ASSUME TypeOK, NEW n \in Nat
    PROVE  /\ Len(log) \in Nat /\ DOMAIN log = 1..Len(log)
           /\ Readable(n) \in SUBSET (1..Len(log))
           /\ \A i \in Readable(n) : i > n
BY DEF TypeOK, Readable

\* The empty read model.
LEMMA EmptyReadModelType == EmptyReadModel \in ReadModel
BY DEF EmptyReadModel, ReadModel

\* Startup is well typed.
LEMMA StartupType ==
    ASSUME TypeOK, Startup
    PROVE  TypeOK'
<1>1. CASE ReplayEvent
  <2>. DEFINE p == ProjectorOrder[replay.projector]
              i == Least(Readable(cursor[p]))
  <2>1. p \in Projector
    BY <1>1 DEF ReplayEvent, Projector
  <2>2. cursor[p] \in Nat /\ rows[p] \in Seq(Nat)
    BY <2>1 DEF TypeOK
  <2>3. Readable(cursor[p]) \in SUBSET Nat /\ Readable(cursor[p]) # {}
    BY <1>1, <2>2, ReadableType DEF ReplayEvent
  <2>4. i \in Nat
    BY <2>3, LeastType
  <2>5. /\ rows' = [rows EXCEPT ![p] = Append(@, i)]
        /\ cursor' = [cursor EXCEPT ![p] = i]
        /\ replay' = [replay EXCEPT !.left = @ - 1]
        /\ replay.left > 0
    BY <1>1 DEF ReplayEvent
  <2>8. UNCHANGED <<log, receipts, model, queue, pc, current, start, error, outbox,
                    published, boot, answers>>
    BY <1>1 DEF ReplayEvent
  <2>. HIDE DEF p, i
  <2>6. rows' \in [Projector -> Seq(Nat)] /\ cursor' \in [Projector -> Nat]
    BY <2>1, <2>2, <2>4, <2>5 DEF TypeOK
  <2>7. replay' \in [projector: Nat, left: Nat]
    <3>1. replay \in [projector: Nat, left: Nat]
      BY DEF TypeOK
    <3>. QED
      BY ONLY <2>5, <3>1
  <2>. QED
    BY <2>6, <2>7, <2>8 DEF TypeOK
<1>2. CASE NextProjector
  <2>1. ReadLimit \in Nat /\ replay.projector \in Nat
    BY EngineAssumption DEF TypeOK
  <2>2. replay' \in [projector: Nat, left: Nat]
    BY <1>2, <2>1 DEF NextProjector
  <2>. QED
    BY <1>2, <2>2 DEF NextProjector, TypeOK, database
<1>3. CASE StartWorker
  <2>1. model' \in ReadModel
    <3>1. Readable(0) \in SUBSET (DOMAIN log) /\ log \in Seq(Event)
      BY DEF Readable, TypeOK
    <3>. QED
      BY <1>3, <3>1, ProjectedType, EmptyReadModelType DEF StartWorker
  <2>. QED
    BY <1>3, <2>1 DEF StartWorker, TypeOK, database, ReadModel
<1>. QED
  BY <1>1, <1>2, <1>3 DEF Startup

\* The answer from a receipt is a number.
LEMMA AnswerType ==
    ASSUME TypeOK, NEW c \in Command
    PROVE  AnswerOf(receipts[c]) \in Nat /\ receipts[c].sequence \in Nat
BY DEF TypeOK, AnswerOf, Refusal

\* Whenever a command is in hand, it is a command.
HasCommand ==
    pc \in {"decide", "adopt", "failed", "publish", "refused"} => current \in Command

\* Who takes a command keeps it until it is answered.
LEMMA HasCommandStep == TypeOK /\ HasCommand /\ [Next]_vars => HasCommand'
<1>. SUFFICES ASSUME TypeOK, HasCommand, [Next]_vars PROVE HasCommand'
  OBVIOUS
<1>1. CASE Take
  BY <1>1 DEF Take, TypeOK, HasCommand
<1>2. CASE AnswerAgain \/ AnswerAccepted \/ AnswerStorageError \/ AnswerRefused
  BY <1>2 DEF AnswerAgain, AnswerAccepted, AnswerStorageError, AnswerRefused, Done, HasCommand
<1>3. CASE LookupFails \/ Reject \/ Abort
  BY <1>3 DEF LookupFails, Reject, Abort, Fail, HasCommand
<1>4. CASE Commit \/ Adopt \/ Reconcile \/ Publish \/ RecordRefusal
  BY <1>4 DEF Commit, Adopt, Reconcile, Publish, RecordRefusal, HasCommand
<1>5. CASE Startup
  BY <1>5 DEF Startup, ReplayEvent, NextProjector, StartWorker, HasCommand
<1>6. CASE \E c \in Command : Dispatch(c)
  BY <1>6 DEF Dispatch, HasCommand
<1>7. CASE Crash
  BY <1>7 DEF Crash, HasCommand
<1>8. CASE UNCHANGED vars
  BY <1>8 DEF vars, HasCommand
<1>. QED
  BY <1>1, <1>2, <1>3, <1>4, <1>5, <1>6, <1>7, <1>8 DEF Next, Worker

\* What a commit appends: the batch of the command in hand.
LEMMA CommitAppends ==
    ASSUME TypeOK, HasCommand, Commit
    PROVE  /\ current \in Command
           /\ log' \in Seq(Event)
           /\ Len(log) \in Nat /\ Len(log') = Len(log) + Len(Batch(current))
           /\ Len(Batch(current)) \in 1..2
           /\ \A i \in 1..Len(log) : log'[i] = log[i]
           /\ \A i \in 1..Len(Batch(current)) : log'[Len(log) + i] = Batch(current)[i]
<1>1. current \in Command /\ log' = log \o Batch(current) /\ log \in Seq(Event)
  BY DEF Commit, HasCommand, TypeOK
<1>2. Batch(current) \in Seq(Event) /\ Len(Batch(current)) \in 1..2
  BY <1>1, BatchType
<1>. QED
  BY <1>1, <1>2, ConcatProperties

\* What a commit leaves to adopt and publish: the events it appended.
LEMMA CommitOutbox ==
    ASSUME TypeOK, HasCommand, Commit
    PROVE  /\ Len(log) \in Nat /\ Len(log') \in Nat /\ Len(log) <= Len(log')
           /\ DOMAIN log' = 1..Len(log')
           /\ outbox' \in Seq(Nat)
           /\ {outbox'[i] : i \in DOMAIN outbox'} = (Len(log) + 1)..Len(log')
<1>1. /\ Len(log) \in Nat /\ Len(log') \in Nat /\ Len(log) <= Len(log')
      /\ DOMAIN log' = 1..Len(log')
  BY CommitAppends
<1>2. outbox' = Numbers(Len(log), Len(log'))
  BY DEF Commit, Appended
<1>. QED
  BY ONLY <1>1, <1>2, NumbersType

\* A commit and the failure of a transaction are well typed.
LEMMA TransactionType ==
    ASSUME TypeOK, HasCommand, Commit \/ Abort
    PROVE  TypeOK'
<1>1. CASE Commit
  <2>1. /\ current \in Command
        /\ log' \in Seq(Event)
        /\ Len(log) \in Nat /\ Len(log') \in Nat
    BY <1>1, CommitAppends
  <2>2. outbox' \in Seq(Nat)
    BY <1>1, CommitOutbox
  <2>3. cursor' \in [Projector -> Nat]
    BY <1>1, <2>1 DEF Commit
  <2>4. rows' \in [Projector -> Seq(Nat)]
    BY <1>1, <2>2 DEF Commit, TypeOK
  <2>5. receipts' \in [Command -> [status: {"none", "accepted", "rejected"}, sequence: Nat]]
    BY <1>1, <2>1 DEF Commit, WithAccepted, TypeOK
  <2>6. pc' = "adopt" /\ UNCHANGED <<model, queue, current, start, error, published, boot,
                                     replay, answers>>
    BY <1>1 DEF Commit
  <2>. QED
    BY <2>1, <2>2, <2>3, <2>4, <2>5, <2>6 DEF TypeOK
<1>2. CASE Abort
  <2>1. log' \in Seq(Event)
    <3>1. log \in Seq(Event) /\ current \in Command
      BY <1>2 DEF Abort, TypeOK, HasCommand
    <3>2. CASE UNCHANGED log
      BY <3>1, <3>2
    <3>3. CASE \E k \in DOMAIN Batch(current) : log' = log \o SubSeq(Batch(current), 1, k)
      <4>1. Batch(current) \in Seq(Event)
        BY <3>1, BatchType
      <4>2. DOMAIN Batch(current) = 1..Len(Batch(current))
        BY <4>1, LenProperties
      <4>3. PICK k \in 1..Len(Batch(current)) : log' = log \o SubSeq(Batch(current), 1, k)
        BY ONLY <3>3, <4>2
      <4>4. SubSeq(Batch(current), 1, k) \in Seq(Event)
        BY <4>1, PrefixType
      <4>. QED
        BY <3>1, <4>3, <4>4, ConcatProperties
    <3>. QED
      BY <1>2, <3>2, <3>3 DEF Abort
  <2>2. /\ pc' = "failed" /\ error' = "storage"
        /\ UNCHANGED <<receipts, cursor, rows, model, queue, current, start, outbox,
                       published, boot, replay, answers>>
    BY <1>2 DEF Abort, Fail
  <2>. QED
    BY <2>1, <2>2 DEF TypeOK
<1>. QED
  BY <1>1, <1>2

\* What the worker is about to adopt is in the log.
OutboxInLog == pc = "adopt" => {outbox[i] : i \in DOMAIN outbox} \subseteq DOMAIN log

\* The read model the worker adopts, and what it then publishes.
LEMMA AdoptionType ==
    ASSUME TypeOK, OutboxInLog, Adopt \/ Reconcile
    PROVE  TypeOK'
<1>1. model \in ReadModel /\ log \in Seq(Event) /\ start \in Nat
  BY DEF TypeOK, ReadModel
<1>2. CASE Adopt
  <2>1. model' \in ReadModel
    BY <1>1, <1>2, ProjectedType DEF Adopt, OutboxInLog
  <2>. QED
    BY <1>2, <2>1 DEF Adopt, TypeOK, ReadModel, database
<1>3. CASE Reconcile
  <2>1. ToReconcile \in SUBSET (DOMAIN log) /\ DOMAIN log = 1..Len(log) /\ Len(log) \in Nat
    BY <1>1, ReadableType DEF ToReconcile
  <2>2. model' \in ReadModel /\ outbox' \in Seq(Nat)
    <3>1. CASE model' = Projected(model, log, ToReconcile) /\ outbox' \in Ascending(ToReconcile)
      BY <3>1, <2>1, <1>1, ProjectedType, AscendingType
    <3>2. CASE UNCHANGED <<model, outbox>>
      BY <3>2, <1>1 DEF TypeOK
    <3>. QED
      BY <1>3, <3>1, <3>2 DEF Reconcile
  <2>. QED
    BY <1>3, <2>2 DEF Reconcile, TypeOK, ReadModel, database
<1>. QED
  BY <1>2, <1>3

\* Every other step of the worker, of a client and of the process is well typed.
LEMMA OtherStepType ==
    ASSUME TypeOK, HasCommand,
           \/ Take \/ AnswerAgain \/ LookupFails \/ Reject \/ Publish \/ AnswerAccepted
           \/ AnswerStorageError \/ RecordRefusal \/ AnswerRefused
           \/ (\E c \in Command : Dispatch(c))
           \/ Crash
    PROVE  TypeOK'
<1>1. CASE Take
  BY <1>1 DEF Take, TypeOK, database
<1>2. CASE AnswerAgain \/ AnswerAccepted \/ AnswerRefused
  <2>1. current \in Command
    BY <1>2 DEF AnswerAgain, AnswerAccepted, AnswerRefused, HasCommand
  <2>2. answers' \in [Command -> SUBSET Nat]
    <3>1. CASE AnswerAgain
      BY <2>1, <3>1, AnswerType DEF AnswerAgain, TypeOK
    <3>2. CASE AnswerAccepted
      BY <2>1, <3>2, AnswerType DEF AnswerAccepted, TypeOK
    <3>3. CASE AnswerRefused
      BY <2>1, <3>3 DEF AnswerRefused, TypeOK, Refusal
    <3>. QED
      BY <1>2, <3>1, <3>2, <3>3
  <2>3. /\ current' = NoEnvelope /\ pc' = "idle"
        /\ UNCHANGED <<log, receipts, cursor, rows, model, queue, start, error, outbox,
                       published, boot, replay>>
    BY <1>2 DEF AnswerAgain, AnswerAccepted, AnswerRefused, Done, database
  <2>. QED
    BY <2>2, <2>3 DEF TypeOK
<1>3. CASE LookupFails \/ Reject
  BY <1>3 DEF LookupFails, Reject, Fail, TypeOK
<1>4. CASE Publish
  <2>1. Head(outbox) \in Nat /\ Tail(outbox) \in Seq(Nat)
    BY <1>4 DEF Publish, TypeOK
  <2>2. published' \in Seq(Nat) /\ outbox' \in Seq(Nat)
    BY <1>4, <2>1 DEF Publish, TypeOK
  <2>. QED
    BY <1>4, <2>2 DEF Publish, TypeOK, database
<1>5. CASE AnswerStorageError
  BY <1>5 DEF AnswerStorageError, Done, TypeOK, database
<1>6. CASE RecordRefusal
  <2>1. current \in Command /\ model.sequence \in Nat
    BY <1>6 DEF RecordRefusal, HasCommand, TypeOK
  <2>2. receipts' \in [Command -> [status: {"none", "accepted", "rejected"}, sequence: Nat]]
    <3>1. receipts \in [Command -> [status: {"none", "accepted", "rejected"}, sequence: Nat]]
      BY DEF TypeOK
    <3>2. CASE receipts' = [receipts EXCEPT ![current] = [status |-> "rejected",
                                                          sequence |-> model.sequence]]
      BY ONLY <2>1, <3>1, <3>2
    <3>3. CASE UNCHANGED receipts
      BY <3>1, <3>3
    <3>. QED
      BY <1>6, <3>2, <3>3 DEF RecordRefusal
  <2>3. /\ pc' = "refused"
        /\ UNCHANGED <<log, cursor, rows, model, queue, current, start, error, outbox,
                       published, boot, replay, answers>>
    BY <1>6 DEF RecordRefusal
  <2>. QED
    BY <2>2, <2>3 DEF TypeOK
<1>7. CASE \E c \in Command : Dispatch(c)
  BY <1>7 DEF Dispatch, TypeOK, database
<1>8. CASE Crash
  BY <1>8, EngineAssumption DEF Crash, TypeOK, database, EmptyReadModel
<1>. QED
  BY <1>1, <1>2, <1>3, <1>4, <1>5, <1>6, <1>7, <1>8

\* The worker adopts what it has just committed.
LEMMA OutboxInLogStep == TypeOK /\ HasCommand /\ OutboxInLog /\ [Next]_vars => OutboxInLog'
<1>. SUFFICES ASSUME TypeOK, HasCommand, OutboxInLog, [Next]_vars
              PROVE  OutboxInLog'
  OBVIOUS
<1>1. CASE Commit
  <2>1. /\ Len(log) \in Nat /\ Len(log') \in Nat /\ Len(log) <= Len(log')
        /\ DOMAIN log' = 1..Len(log')
    BY <1>1, CommitAppends
  <2>2. {outbox'[i] : i \in DOMAIN outbox'} = (Len(log) + 1)..Len(log')
    BY <1>1, CommitOutbox
  <2>3. (Len(log) + 1)..Len(log') \subseteq 1..Len(log')
    BY <2>1
  <2>. QED
    BY <2>1, <2>2, <2>3 DEF OutboxInLog
<1>2. CASE UNCHANGED <<pc, outbox, log>>
  BY <1>2 DEF OutboxInLog
<1>3. CASE pc' # "adopt"
  BY <1>3 DEF OutboxInLog
<1>4. Commit \/ UNCHANGED <<pc, outbox, log>> \/ pc' # "adopt"
  <2>1. CASE Worker
    BY <2>1 DEF Worker, Take, AnswerAgain, LookupFails, Reject, Fail, Abort, Adopt,
       Reconcile, Publish, AnswerAccepted, AnswerStorageError, RecordRefusal,
       AnswerRefused, Done
  <2>2. CASE Startup \/ (\E c \in Command : Dispatch(c)) \/ Crash \/ UNCHANGED vars
    BY <2>2 DEF Startup, ReplayEvent, NextProjector, StartWorker, Dispatch, Crash,
       database, vars
  <2>. QED
    BY <2>1, <2>2 DEF Next
<1>. QED
  BY <1>1, <1>2, <1>3, <1>4

\* The part of the invariant that holds whatever fails.
Types == TypeOK /\ HasCommand /\ OutboxInLog

\* Every step is well typed.
LEMMA TypesStep == Types /\ [Next]_vars => Types'
<1>. SUFFICES ASSUME TypeOK, HasCommand, OutboxInLog, [Next]_vars PROVE TypeOK'
  BY HasCommandStep, OutboxInLogStep DEF Types
<1>1. CASE Startup
  BY <1>1, StartupType
<1>2. CASE Commit \/ Abort
  BY <1>2, TransactionType
<1>3. CASE Adopt \/ Reconcile
  BY <1>3, AdoptionType
<1>4. CASE \/ Take \/ AnswerAgain \/ LookupFails \/ Reject \/ Publish \/ AnswerAccepted
           \/ AnswerStorageError \/ RecordRefusal \/ AnswerRefused
           \/ (\E c \in Command : Dispatch(c))
           \/ Crash
  BY <1>4, OtherStepType
<1>5. CASE UNCHANGED vars
  BY <1>5 DEF vars, TypeOK
<1>. QED
  BY <1>1, <1>2, <1>3, <1>4, <1>5 DEF Next, Worker

\* Every state of the engine is well typed (OrchestrationEngine.ts, every step of
\* the worker, of a bootstrap and of a restart).
THEOREM SpecTypeOK == Spec => []TypeOK
<1>1. Init => Types
  BY InitType DEF Init, Types, HasCommand, OutboxInLog
<1>2. Types => TypeOK
  BY DEF Types
<1>. QED
  BY <1>1, <1>2, TypesStep, PTL DEF Spec

\* The stronger typing holds of every behaviour.
LEMMA SpecTypes == Spec => []Types
<1>1. Init => Types
  BY InitType DEF Init, Types, HasCommand, OutboxInLog
<1>. QED
  BY <1>1, TypesStep, PTL DEF Spec

-----------------------------------------------------------------------------
(* The history and the receipts *)

Known == CreatedBy(log, DOMAIN log)

\* The read model has seen what the log created, or is about to.
KnownCurrent ==
    /\ pc \notin {"boot", "adopt"} => model.known = Known
    /\ pc = "adopt" =>
         model.known \cup CreatedBy(log, {outbox[i] : i \in DOMAIN outbox}) = Known

\* c's events are its batch, right after event n.
EventsAt(c, n) ==
    /\ EventsOf(c) = (n + 1)..(n + Len(Batch(c)))
    /\ \A i \in 1..Len(Batch(c)) : log[n + i] = Batch(c)[i]

\* A receipt says what the log holds.
ReceiptsSound ==
    \A c \in Command :
        /\ receipts[c].status = "none" => receipts[c] = Unseen
        /\ receipts[c].status # "accepted" => EventsOf(c) = {}
        /\ receipts[c].status = "accepted" =>
             \E n \in 0..(Len(log) - Len(Batch(c))) :
                 EventsAt(c, n) /\ receipts[c].sequence = n + Len(Batch(c))

\* What the worker has still to do follows from its decision.
InHand ==
    /\ pc \in {"decide", "adopt"} => error = "none"
    /\ pc = "failed" => error # "none"
    /\ pc \in {"adopt", "publish"} /\ error = "none" => receipts[current].status = "accepted"
    /\ pc \in {"failed", "publish"} /\ error = "invariant" =>
         receipts[current] = Unseen /\ ~Accepts(Known, current)

IInv == Types /\ KnownCurrent /\ ReceiptsSound /\ InHand /\ HistoryLegal

\* Nothing but a commit and a refusal changes the log or the receipts.
LEMMA DatabaseSteps ==
    ASSUME "escape" \notin Faults, [Next]_vars
    PROVE  Commit \/ RecordRefusal \/ UNCHANGED <<log, receipts>>
<1>1. CASE Worker
  BY <1>1 DEF Worker, Take, AnswerAgain, LookupFails, Reject, Fail, Abort, Adopt,
     Reconcile, Publish, AnswerAccepted, AnswerStorageError, AnswerRefused, Done, database
<1>2. CASE Startup \/ (\E c \in Command : Dispatch(c)) \/ Crash \/ UNCHANGED vars
  BY <1>2 DEF Startup, ReplayEvent, NextProjector, StartWorker, Dispatch, Crash,
     database, vars
<1>. QED
  BY <1>1, <1>2 DEF Next

\* The log of a commit: old events stay, the new ones are all of one command.
LEMMA CommitEvents ==
    ASSUME TypeOK, HasCommand, Commit
    PROVE  \A c \in Command :
             /\ c = current => EventsOf(c)' = EventsOf(c) \cup (Len(log) + 1)..Len(log')
             /\ c # current => EventsOf(c)' = EventsOf(c)
<1>. DEFINE n == Len(log)
            k == Len(Batch(current))
<1>1. /\ current \in Command /\ n \in Nat /\ k \in 1..2 /\ Len(log') = n + k
      /\ \A i \in 1..n : log'[i] = log[i]
      /\ \A i \in 1..k : log'[n + i] = Batch(current)[i]
  BY CommitAppends
<1>2. DOMAIN log = 1..n /\ DOMAIN log' = 1..(n + k)
  BY <1>1, CommitAppends DEF TypeOK
<1>3. \A i \in 1..k : Batch(current)[i].command = current.id
  BY <1>1, BatchType
<1>. HIDE DEF n, k
<1>4. \A i \in (n + 1)..(n + k) : log'[i].command = current.id
  <2>1. ASSUME NEW i \in (n + 1)..(n + k)
        PROVE  log'[i].command = current.id
    <3>1. n \in Nat /\ k \in Nat
      BY <1>1
    <3>2. PICK j \in 1..k : i = n + j
      BY <3>1, Offset
    <3>3. log'[n + j] = Batch(current)[j]
      BY <1>1
    <3>. QED
      BY <3>2, <3>3, <1>3
  <2>. QED
    BY <2>1
<1>5. ASSUME NEW c \in Command
      PROVE  EventsOf(c)' = EventsOf(c) \cup {i \in (n + 1)..(n + k) : c.id = current.id}
  <2>1. \A i : i \in 1..(n + k) <=> i \in 1..n \/ i \in (n + 1)..(n + k)
    BY <1>1
  <2>2. \A i \in 1..n : log'[i].command = log[i].command
    BY <1>1
  <2>. QED
    BY <2>1, <2>2, <1>2, <1>4 DEF EventsOf
<1>6. \A c \in Command : c # current => c.id # current.id
  BY <1>1, EngineAssumption
<1>7. ASSUME NEW c \in Command
      PROVE  /\ c = current => EventsOf(c)' = EventsOf(c) \cup (n + 1)..(n + k)
             /\ c # current => EventsOf(c)' = EventsOf(c)
  BY <1>5, <1>6
<1>8. Len(log') = n + k
  BY <1>1
<1>. QED
  BY <1>7, <1>8 DEF n

\* An accepted command's events and receipt are written together.
LEMMA ReceiptsStep ==
    ASSUME "escape" \notin Faults, IInv, [Next]_vars
    PROVE  ReceiptsSound'
<1>. USE DEF IInv, Types
<1>1. CASE Commit
  <2>1. /\ current \in Command /\ Len(log) \in Nat
        /\ Len(Batch(current)) \in 1..2
        /\ Len(log') = Len(log) + Len(Batch(current))
        /\ \A i \in 1..Len(log) : log'[i] = log[i]
        /\ \A i \in 1..Len(Batch(current)) : log'[Len(log) + i] = Batch(current)[i]
    BY <1>1, CommitAppends
  <2>2. PICK k \in Command, n \in Nat : k = current /\ n = Len(log)
    BY <2>1
  <2>3. /\ EventsOf(k)' = EventsOf(k) \cup (n + 1)..Len(log')
        /\ \A c \in Command : c # k => EventsOf(c)' = EventsOf(c)
    BY <1>1, <2>2, CommitEvents
  <2>4. /\ receipts' = [receipts EXCEPT ![k] = [status |-> "accepted",
                                                sequence |-> Len(log')]]
        /\ receipts[k].status = "none"
    BY <1>1, <2>2 DEF Commit, WithAccepted, FirstTime
  <2>5. EventsOf(k) = {}
    BY <2>4 DEF ReceiptsSound
  <2>6. receipts'[k] = [status |-> "accepted", sequence |-> Len(log')]
    BY <2>4 DEF TypeOK
  <2>7. \A c \in Command : c # k => receipts'[c] = receipts[c]
    BY <2>4 DEF TypeOK
  <2>8. /\ Len(Batch(k)) \in 1..2
        /\ Len(log') = n + Len(Batch(k))
        /\ \A i \in 1..n : log'[i] = log[i]
        /\ \A i \in 1..Len(Batch(k)) : log'[n + i] = Batch(k)[i]
    BY <2>1, <2>2
  <2>9. EventsAt(k, n)' /\ n \in 0..(Len(log') - Len(Batch(k)))
    <3>1. EventsOf(k)' = (n + 1)..(n + Len(Batch(k)))
      BY <2>3, <2>5, <2>8
    <3>2. n \in 0..(Len(log') - Len(Batch(k)))
      BY <2>8
    <3>. QED
      BY <3>1, <3>2, <2>8 DEF EventsAt
  <2>10. ASSUME NEW c \in Command, c # k, receipts[c].status = "accepted"
         PROVE  \E m \in 0..(Len(log') - Len(Batch(c))) :
                  EventsAt(c, m)' /\ receipts'[c].sequence = m + Len(Batch(c))
    <3>1. PICK m \in 0..(n - Len(Batch(c))) :
            EventsAt(c, m) /\ receipts[c].sequence = m + Len(Batch(c))
      BY <2>2, <2>10 DEF ReceiptsSound
    <3>2. Len(Batch(c)) \in 1..2
      BY BatchType
    <3>3. \A i \in 1..Len(Batch(c)) : m + i \in 1..n
      BY <3>2
    <3>4. EventsAt(c, m)'
      BY <3>1, <3>3, <2>3, <2>8, <2>10 DEF EventsAt
    <3>5. m \in 0..(Len(log') - Len(Batch(c)))
      BY <3>2, <2>8
    <3>. QED
      BY <3>1, <3>4, <3>5, <2>7, <2>10
  <2>11. ASSUME NEW c \in Command
         PROVE  /\ receipts'[c].status = "none" => receipts'[c] = Unseen
                /\ receipts'[c].status # "accepted" => EventsOf(c)' = {}
                /\ receipts'[c].status = "accepted" =>
                     \E m \in 0..(Len(log') - Len(Batch(c))) :
                         EventsAt(c, m)' /\ receipts'[c].sequence = m + Len(Batch(c))
    <3>1. CASE c = k
      BY <3>1, <2>6, <2>8, <2>9
    <3>2. CASE c # k
      BY <3>2, <2>3, <2>7, <2>10 DEF ReceiptsSound
    <3>. QED
      BY <3>1, <3>2
  <2>. QED
    BY <2>11 DEF ReceiptsSound
<1>2. CASE RecordRefusal
  <2>1. PICK k \in Command : k = current
    BY <1>2 DEF RecordRefusal, HasCommand
  <2>2. receipts[k] = Unseen /\ UNCHANGED log
    BY <1>2, <2>1 DEF RecordRefusal, InHand
  <2>3. EventsOf(k) = {}
    BY <2>2 DEF ReceiptsSound, Unseen
  <2>4. /\ \A c \in Command : c # k => receipts'[c] = receipts[c]
        /\ receipts'[k] = receipts[k] \/ receipts'[k].status = "rejected"
    BY <1>2, <2>1 DEF RecordRefusal, TypeOK
  <2>5. \A c \in Command : EventsOf(c)' = EventsOf(c) /\ \A n : EventsAt(c, n)' = EventsAt(c, n)
    BY <2>2 DEF EventsOf, EventsAt
  <2>6. ASSUME NEW c \in Command
        PROVE  /\ receipts'[c].status = "none" => receipts'[c] = Unseen
               /\ receipts'[c].status # "accepted" => EventsOf(c)' = {}
               /\ receipts'[c].status = "accepted" =>
                    \E n \in 0..(Len(log') - Len(Batch(c))) :
                        EventsAt(c, n)' /\ receipts'[c].sequence = n + Len(Batch(c))
    <3>1. CASE c # k \/ receipts'[k] = receipts[k]
      <4>1. receipts'[c] = receipts[c]
        BY <3>1, <2>4
      <4>. QED
        BY <4>1, <2>2, <2>5 DEF ReceiptsSound
    <3>2. CASE c = k /\ receipts'[k].status = "rejected"
      BY <3>2, <2>3, <2>5
    <3>. QED
      BY <3>1, <3>2, <2>4
  <2>. QED
    BY <2>6 DEF ReceiptsSound
<1>3. CASE UNCHANGED <<log, receipts>>
  BY <1>3 DEF ReceiptsSound, EventsAt, EventsOf
<1>. QED
  BY <1>1, <1>2, <1>3, DatabaseSteps

\* Readable events are all that matter to the read model.
LEMMA ReadableCreates ==
    ASSUME TypeOK
    PROVE  CreatedBy(log, Readable(0)) = Known
<1>1. \A i \in DOMAIN log : log[i].type \in Created => i \in Readable(0)
  <2>1. "retired" \notin Created
    BY DEF Created
  <2>2. \A i \in DOMAIN log : i > 0
    BY DEF TypeOK
  <2>. QED
    BY <2>1, <2>2 DEF Readable
<1>2. Readable(0) \subseteq DOMAIN log
  BY DEF Readable
<1>. QED
  BY <1>1, <1>2 DEF CreatedBy, Known

\* The read model stays the projection of the log.
LEMMA KnownCurrentStep ==
    ASSUME "escape" \notin Faults, IInv, [Next]_vars
    PROVE  KnownCurrent'
<1>. USE DEF IInv, Types
<1>1. CASE Commit
  <2>1. /\ Len(log) \in Nat /\ Len(log') \in Nat /\ Len(log) <= Len(log')
        /\ DOMAIN log = 1..Len(log) /\ DOMAIN log' = 1..Len(log')
        /\ \A i \in 1..Len(log) : log'[i] = log[i]
    BY <1>1, CommitAppends DEF TypeOK
  <2>2. {outbox'[i] : i \in DOMAIN outbox'} = (Len(log) + 1)..Len(log')
    BY <1>1, CommitOutbox
  <2>3. DOMAIN log' = DOMAIN log \cup (Len(log) + 1)..Len(log')
    BY <2>1
  <2>4. CreatedBy(log', DOMAIN log) = Known
    BY <2>1, CreatedByAgree DEF Known
  <2>5. Known' = Known \cup CreatedBy(log', (Len(log) + 1)..Len(log'))
    BY <2>3, <2>4, CreatedByUnion DEF Known
  <2>6. model'.known = Known /\ pc' = "adopt"
    BY <1>1 DEF Commit, KnownCurrent
  <2>. QED
    BY <2>2, <2>5, <2>6 DEF KnownCurrent
<1>2. CASE Adopt
  <2>1. model'.known = model.known \cup CreatedBy(log, {outbox[i] : i \in DOMAIN outbox})
    BY <1>2, ProjectedType DEF Adopt, OutboxInLog, TypeOK, ReadModel
  <2>2. model'.known = Known /\ pc' = "publish" /\ UNCHANGED log
    BY <1>2, <2>1 DEF Adopt, KnownCurrent, database
  <2>. QED
    BY <2>2 DEF KnownCurrent, Known
<1>3. CASE Reconcile
  <2>1. model.known = Known /\ pc' = "publish" /\ UNCHANGED log
    BY <1>3 DEF Reconcile, KnownCurrent, database
  <2>2. model'.known = Known
    <3>1. CASE model' = Projected(model, log, ToReconcile)
      <4>1. ToReconcile \in SUBSET (DOMAIN log)
        BY DEF ToReconcile, Readable
      <4>2. model'.known = model.known \cup CreatedBy(log, ToReconcile)
        BY <3>1, <4>1, ProjectedType DEF TypeOK, ReadModel
      <4>3. DOMAIN log = DOMAIN log \cup ToReconcile
        BY <4>1
      <4>4. Known = Known \cup CreatedBy(log, ToReconcile)
        BY <4>3, CreatedByUnion DEF Known
      <4>. QED
        BY <2>1, <4>2, <4>4
    <3>2. CASE UNCHANGED model
      BY <3>2, <2>1
    <3>. QED
      BY <1>3, <3>1, <3>2 DEF Reconcile
  <2>. QED
    BY <2>1, <2>2 DEF KnownCurrent, Known
<1>4. CASE StartWorker
  <2>1. Readable(0) \in SUBSET (DOMAIN log)
    BY DEF Readable
  <2>2. model'.known = EmptyReadModel.known \cup CreatedBy(log, Readable(0))
    BY <1>4, <2>1, ProjectedType, EmptyReadModelType DEF StartWorker, TypeOK
  <2>3. model'.known = Known /\ pc' = "idle" /\ UNCHANGED log
    BY <1>4, <2>2, ReadableCreates DEF StartWorker, EmptyReadModel, database
  <2>. QED
    BY <2>3 DEF KnownCurrent, Known
<1>5. CASE UNCHANGED <<log, model, pc, outbox>>
  BY <1>5 DEF KnownCurrent, Known
<1>6. CASE pc' = "boot"
  BY <1>6 DEF KnownCurrent
<1>7. CASE /\ UNCHANGED <<log, model>>
           /\ pc \notin {"boot", "adopt"}
           /\ pc' # "adopt"
  BY <1>7 DEF KnownCurrent, Known
<1>8. CASE \/ Take \/ AnswerAgain \/ LookupFails \/ Reject \/ Abort \/ Publish
           \/ AnswerAccepted \/ AnswerStorageError \/ RecordRefusal \/ AnswerRefused
  BY <1>8, <1>7 DEF Take, AnswerAgain, LookupFails, Reject, Fail, Abort, Publish,
     AnswerAccepted, AnswerStorageError, RecordRefusal, AnswerRefused, Done, database
<1>9. CASE \/ ReplayEvent \/ NextProjector \/ (\E c \in Command : Dispatch(c)) \/ Crash
           \/ UNCHANGED vars
  BY <1>9, <1>5, <1>6 DEF ReplayEvent, NextProjector, Dispatch, Crash, database, vars
<1>. QED
  BY <1>1, <1>2, <1>3, <1>4, <1>8, <1>9 DEF Next, Worker, Startup

\* The worker's decision stays true until the command is answered.
LEMMA InHandStep ==
    ASSUME "escape" \notin Faults, IInv, [Next]_vars
    PROVE  InHand'
<1>. USE DEF IInv, Types
<1>1. CASE Reject
  <2>1. /\ current \in Command /\ receipts[current].status = "none"
        /\ ~Accepts(Known, current)
    BY <1>1 DEF Reject, HasCommand, FirstTime, KnownCurrent
  <2>2. receipts[current] = Unseen
    BY <2>1 DEF ReceiptsSound
  <2>3. pc' = "failed" /\ error' = "invariant" /\ UNCHANGED <<log, receipts, current>>
    BY <1>1 DEF Reject, Fail
  <2>. QED
    BY <2>1, <2>2, <2>3 DEF InHand, Known
<1>2. CASE Commit
  <2>1. current \in Command /\ pc' = "adopt" /\ UNCHANGED <<current, error>> /\ error = "none"
    BY <1>2 DEF Commit, HasCommand, InHand
  <2>2. receipts'[current].status = "accepted"
    BY <1>2, <2>1 DEF Commit, WithAccepted, TypeOK
  <2>. QED
    BY <2>1, <2>2 DEF InHand
<1>3. CASE Adopt \/ Reconcile
  <2>1. pc' = "publish" /\ UNCHANGED <<log, receipts, current, error>> /\ pc \in {"adopt", "failed"}
    BY <1>3 DEF Adopt, Reconcile, database
  <2>. QED
    BY <2>1 DEF InHand, Known
<1>4. CASE Take
  BY <1>4 DEF Take, InHand
<1>5. CASE LookupFails \/ Abort
  BY <1>5 DEF LookupFails, Abort, Fail, InHand
<1>6. CASE UNCHANGED <<log, receipts, pc, current, error>>
  BY <1>6 DEF InHand, Known
<1>7. CASE pc' \in {"boot", "idle", "refused"}
  BY <1>7 DEF InHand
<1>8. CASE \/ AnswerAgain \/ AnswerAccepted \/ AnswerStorageError \/ RecordRefusal
           \/ AnswerRefused \/ Publish
  BY <1>8, <1>6, <1>7 DEF AnswerAgain, AnswerAccepted, AnswerStorageError, RecordRefusal,
     AnswerRefused, Publish, Done, database
<1>9. CASE Startup \/ (\E c \in Command : Dispatch(c)) \/ Crash \/ UNCHANGED vars
  BY <1>9, <1>6, <1>7 DEF Startup, ReplayEvent, NextProjector, StartWorker, Dispatch,
     Crash, database, vars
<1>. QED
  BY <1>1, <1>2, <1>3, <1>4, <1>5, <1>8, <1>9 DEF Next, Worker

\* What a command that is accepted requires.
LEMMA AcceptsMeans ==
    ASSUME NEW known, NEW c \in Command, Accepts(known, c)
    PROVE  /\ c.kind = "project.create" => Project(c.target) \notin known
           /\ c.kind = "thread.create" => Thread(c.target) \notin known
           /\ c.kind = "thread.turn.start" => Thread(c.target) \in known
BY DEF Accepts

\* The events of a batch, one by one.
LEMMA BatchTypes ==
    ASSUME NEW c \in Command, NEW k \in 1..Len(Batch(c))
    PROVE  /\ Batch(c)[k].type = "project.created" => c.kind = "project.create"
           /\ Batch(c)[k].type = "thread.created" => c.kind = "thread.create"
           /\ Batch(c)[k].type \in {"thread.message-sent", "thread.turn-start-requested"} =>
                c.kind = "thread.turn.start"
           /\ Batch(c)[k].type \in Created => k = 1
<1>1. c.kind \in Kind /\ Batch(c)[k].type = EventTypes(c.kind)[k] /\ k \in 1..2
  BY CommandAssumption, BatchType
<1>2. CASE c.kind = "project.create"
  <2>1. EventTypes(c.kind) = <<"project.created">> /\ Len(Batch(c)) = 1
    BY <1>2 DEF EventTypes, Batch
  <2>. QED
    BY <2>1, <1>1, <1>2 DEF Created
<1>3. CASE c.kind = "thread.create"
  <2>1. EventTypes(c.kind) = <<"thread.created">> /\ Len(Batch(c)) = 1
    BY <1>3 DEF EventTypes, Batch
  <2>. QED
    BY <2>1, <1>1, <1>3 DEF Created
<1>4. CASE c.kind = "thread.turn.start"
  <2>1. EventTypes(c.kind) = <<"thread.message-sent", "thread.turn-start-requested">>
    BY <1>4 DEF EventTypes
  <2>. QED
    BY <2>1, <1>1, <1>4 DEF Created
<1>. QED
  BY <1>1, <1>2, <1>3, <1>4 DEF Kind

\* A commit continues a legal history.
LEMMA HistoryStep ==
    ASSUME "escape" \notin Faults, IInv, [Next]_vars
    PROVE  HistoryLegal'
<1>. USE DEF IInv, Types
<1>1. CASE UNCHANGED log
  BY <1>1 DEF HistoryLegal, Legal
<1>2. CASE Commit
  <2>1. PICK c \in Command, n \in Nat : c = current /\ n = Len(log)
    BY <1>2, CommitAppends
  <2>. DEFINE b == Batch(c)
  <2>2. /\ Len(b) \in 1..2 /\ Len(log') = n + Len(b)
        /\ DOMAIN log = 1..n /\ DOMAIN log' = 1..(n + Len(b))
        /\ \A i \in 1..n : log'[i] = log[i]
        /\ \A k \in 1..Len(b) : log'[n + k] = b[k]
    BY <1>2, <2>1, CommitAppends DEF TypeOK
  <2>3. Accepts(Known, c)
    BY <1>2, <2>1 DEF Commit, KnownCurrent
  <2>4. \A k \in 1..Len(b) : b[k].target = c.target
    BY BatchType
  <2>. HIDE DEF b
  <2>5. ASSUME NEW i \in 1..n
        PROVE  /\ log'[i].type \in Created =>
                    \A j \in 1..(i - 1) :
                        log'[j].type = log'[i].type => log'[j].target # log'[i].target
               /\ log'[i].type \in {"thread.message-sent", "thread.turn-start-requested"} =>
                    \E j \in 1..(i - 1) :
                        log'[j].type = "thread.created" /\ log'[j].target = log'[i].target
    <3>1. \A j \in 1..(i - 1) : j \in 1..n /\ log'[j] = log[j]
      BY <2>2
    <3>2. i \in DOMAIN log /\ log'[i] = log[i]
      BY <2>2
    <3>. QED
      BY <3>1, <3>2 DEF HistoryLegal, Legal
  <2>6. ASSUME NEW k \in 1..Len(b), b[k].type \in Created
        PROVE  \A j \in 1..(n + k - 1) :
                 log'[j].type = b[k].type => log'[j].target # b[k].target
    <3>1. k = 1 /\ b[k].type \in {"project.created", "thread.created"}
      BY <2>6, BatchTypes DEF b, Created
    <3>2. <<b[k].type, c.target>> \notin Known
      <4>1. CASE b[k].type = "project.created"
        BY <4>1, <2>3, AcceptsMeans, BatchTypes DEF b, Project
      <4>2. CASE b[k].type = "thread.created"
        BY <4>2, <2>3, AcceptsMeans, BatchTypes DEF b, Thread
      <4>. QED
        BY <3>1, <4>1, <4>2
    <3>3. ASSUME NEW j \in 1..n, log[j].type = b[k].type
          PROVE  log[j].target # c.target
      <4>1. <<log[j].type, log[j].target>> \in Known
        BY <2>2, <2>6, <3>3 DEF Known, CreatedBy
      <4>. QED
        BY <4>1, <3>2, <3>3
    <3>4. \A j \in 1..(n + k - 1) : j \in 1..n /\ log'[j] = log[j]
      BY <3>1, <2>2
    <3>. QED
      BY <3>3, <3>4, <2>4
  <2>7. ASSUME NEW k \in 1..Len(b),
               b[k].type \in {"thread.message-sent", "thread.turn-start-requested"}
        PROVE  \E j \in 1..(n + k - 1) :
                 log'[j].type = "thread.created" /\ log'[j].target = b[k].target
    <3>1. <<"thread.created", c.target>> \in Known
      BY <2>7, <2>3, AcceptsMeans, BatchTypes DEF b, Thread
    <3>2. PICK j \in 1..n : log[j].type = "thread.created" /\ log[j].target = c.target
      BY <3>1, <2>2 DEF Known, CreatedBy
    <3>3. j \in 1..(n + k - 1)
      BY <2>2
    <3>. QED
      BY <3>2, <3>3, <2>2, <2>4
  <2>8. ASSUME NEW i \in 1..(n + Len(b))
        PROVE  i \in 1..n \/ (i - n \in 1..Len(b) /\ log'[i] = b[i - n] /\ n + (i - n) = i)
    <3>1. i \in 1..n \/ (i - n \in 1..Len(b) /\ n + (i - n) = i)
      BY <2>2
    <3>. QED
      BY <3>1, <2>2
  <2>9. ASSUME NEW i \in DOMAIN log'
        PROVE  /\ log'[i].type \in Created =>
                    \A j \in 1..(i - 1) :
                        log'[j].type = log'[i].type => log'[j].target # log'[i].target
               /\ log'[i].type \in {"thread.message-sent", "thread.turn-start-requested"} =>
                    \E j \in 1..(i - 1) :
                        log'[j].type = "thread.created" /\ log'[j].target = log'[i].target
    <3>1. CASE i \in 1..n
      BY <3>1, <2>5
    <3>2. CASE i \notin 1..n
      <4>1. PICK k \in 1..Len(b) : log'[i] = b[k] /\ i = n + k
        BY <3>2, <2>2, <2>8
      <4>. QED
        BY <4>1, <2>6, <2>7
    <3>. QED
      BY <3>1, <3>2
  <2>. QED
    BY <2>9 DEF HistoryLegal, Legal
<1>3. CASE RecordRefusal
  BY <1>3, <1>1 DEF RecordRefusal
<1>. QED
  BY <1>1, <1>2, <1>3, DatabaseSteps

\* The initial state satisfies the invariant: a history holds no command's events.
LEMMA InitIInv == Init => IInv
<1>. SUFFICES ASSUME Init PROVE IInv
  OBVIOUS
<1>1. Types
  BY InitType DEF Init, Types, HasCommand, OutboxInLog
<1>2. KnownCurrent /\ InHand
  BY DEF Init, KnownCurrent, InHand
<1>3. log \in Seq([type: EventType, target: STRING, command: {NoCommand}]) /\ Legal(log)
  BY EngineAssumption DEF Init
<1>4. ASSUME NEW c \in Command
      PROVE  receipts[c] = Unseen /\ EventsOf(c) = {}
  <2>. DEFINE H == [type: EventType, target: STRING, command: {NoCommand}]
  <2>1. \A i \in DOMAIN log : log[i].command = NoCommand
    <3>1. \A e \in H : e.command = NoCommand
      OBVIOUS
    <3>2. log \in Seq(H)
      BY <1>3
    <3>. HIDE DEF H
    <3>3. \A i \in DOMAIN log : log[i] \in H
      BY <3>2
    <3>. QED
      BY <3>1, <3>3
  <2>2. EventsOf(c) = {}
    <3>1. c.id # NoCommand
      BY EngineAssumption
    <3>. QED
      BY <2>1, <3>1 DEF EventsOf
  <2>. QED
    BY <2>2 DEF Init
<1>. QED
  BY <1>1, <1>2, <1>3, <1>4 DEF IInv, ReceiptsSound, HistoryLegal, Unseen

\* Every step keeps the invariant, if no append escapes a rollback.
LEMMA NextIInv ==
    ASSUME "escape" \notin Faults
    PROVE  IInv /\ [Next]_vars => IInv'
BY TypesStep, KnownCurrentStep, ReceiptsStep, InHandStep, HistoryStep DEF IInv

\* The invariant holds of every behaviour in which no append escapes a rollback.
THEOREM SpecIInv ==
    ASSUME "escape" \notin Faults
    PROVE  Spec => []IInv
BY InitIInv, NextIInv, PTL DEF Spec

\* The log never creates a thing twice or starts a turn in a missing thread,
\* whatever is repeated, rolled back or lost in a crash (processEnvelope).
THEOREM SpecHistoryLegal ==
    ASSUME "escape" \notin Faults
    PROVE  Spec => []HistoryLegal
<1>1. IInv => HistoryLegal
  BY DEF IInv
<1>. QED
  BY <1>1, SpecIInv, PTL

\* Sound receipts are exact.
LEMMA ReceiptsAreExact == IInv => ReceiptsExact
<1>. SUFFICES ASSUME IInv, NEW c \in Command
              PROVE  /\ receipts[c].status = "accepted" <=> EventsOf(c) # {}
                     /\ receipts[c].status = "accepted" =>
                          /\ receipts[c].sequence \in EventsOf(c)
                          /\ \A i \in EventsOf(c) : i <= receipts[c].sequence
  BY DEF ReceiptsExact
<1>1. CASE receipts[c].status = "accepted"
  <2>1. PICK n \in 0..(Len(log) - Len(Batch(c))) :
          EventsAt(c, n) /\ receipts[c].sequence = n + Len(Batch(c))
    BY <1>1 DEF IInv, ReceiptsSound
  <2>2. Len(Batch(c)) \in 1..2 /\ n \in Nat
    BY BatchType
  <2>3. EventsOf(c) = (n + 1)..(n + Len(Batch(c)))
    BY <2>1 DEF EventsAt
  <2>4. ASSUME NEW k \in 1..2
        PROVE  n + k \in (n + 1)..(n + k) /\ \A i \in (n + 1)..(n + k) : i <= n + k
    BY <2>2
  <2>. QED
    BY ONLY <1>1, <2>1, <2>2, <2>3, <2>4
<1>2. CASE receipts[c].status # "accepted"
  BY <1>2 DEF IInv, ReceiptsSound
<1>. QED
  BY <1>1, <1>2

\* A command has an accepted receipt exactly if its events are in the log
\* (the transaction of processEnvelope, and the rejected receipt after it).
THEOREM SpecReceiptsExact ==
    ASSUME "escape" \notin Faults
    PROVE  Spec => []ReceiptsExact
BY ReceiptsAreExact, SpecIInv, PTL

\* A command takes effect at most once and as a whole, whatever is repeated,
\* rolled back or lost in a crash (the receipt check of processEnvelope).
THEOREM SpecAppliedOnce ==
    ASSUME "escape" \notin Faults
    PROVE  Spec => []AppliedOnce
<1>1. IInv => AppliedOnce
  <2>. SUFFICES ASSUME IInv, NEW c \in Command, EventsOf(c) # {}
                PROVE  \E n \in 0..(Len(log) - Len(Batch(c))) :
                         /\ EventsOf(c) = (n + 1)..(n + Len(Batch(c)))
                         /\ SubSeq(log, n + 1, n + Len(Batch(c))) = Batch(c)
    BY DEF AppliedOnce
  <2>1. PICK n \in 0..(Len(log) - Len(Batch(c))) : EventsAt(c, n)
    BY DEF IInv, ReceiptsSound
  <2>. DEFINE b == Batch(c)
  <2>2. /\ b \in Seq(Event) /\ Len(b) \in 1..2 /\ log \in Seq(Event)
        /\ n \in Nat /\ n + Len(b) <= Len(log) /\ Len(log) \in Nat
    BY BatchType DEF IInv, Types, TypeOK
  <2>3. \A i \in 1..Len(b) : log[n + i] = b[i]
    BY <2>1 DEF EventsAt
  <2>4. EventsOf(c) = (n + 1)..(n + Len(b))
    BY <2>1 DEF EventsAt
  <2>. HIDE DEF b
  <2>5. \A i \in (n + 1)..(n + Len(b)) : log[i] \in Event
    BY <2>2
  <2>. DEFINE t == SubSeq(log, n + 1, n + Len(b))
  <2>6. t \in Seq(Event) /\ Len(t) = Len(b) /\ \A i \in 1..Len(b) : t[i] = log[n + i]
    BY <2>2, <2>5, SubSeqProperties
  <2>7. t = b
    BY <2>2, <2>3, <2>6, SeqEqual
  <2>. QED
    BY <2>4, <2>7 DEF b
<1>. QED
  BY <1>1, SpecIInv, PTL

-----------------------------------------------------------------------------
(* The answers, and the promise of the engine *)

\* Before a refusal is told, it has been recorded.
Recorded == pc = "refused" => receipts[current].status = "rejected"

\* Clients were told what the receipt says.
AnswersSound ==
    \A c \in Command :
        /\ receipts[c].status = "none" => answers[c] = {}
        /\ answers[c] \subseteq {AnswerOf(receipts[c])}

AInv == IInv /\ Recorded /\ AnswersSound

\* A command that has a receipt may be answered; others are only recorded.
LEMMA AnswerSteps ==
    ASSUME IInv, Recorded, [Next]_vars
    PROVE  \/ Commit \/ RecordRefusal
           \/ \E c \in Command :
                /\ receipts[c].status # "none"
                /\ answers' = [answers EXCEPT ![c] = @ \cup {AnswerOf(receipts[c])}]
                /\ UNCHANGED <<log, receipts>>
           \/ UNCHANGED <<log, receipts, answers>>
           \/ Abort
<1>1. CASE AnswerAgain \/ AnswerAccepted \/ AnswerRefused
  <2>1. PICK c \in Command : c = current
    BY <1>1 DEF AnswerAgain, AnswerAccepted, AnswerRefused, IInv, Types, HasCommand
  <2>2. /\ receipts[c].status # "none"
        /\ answers' = [answers EXCEPT ![c] = @ \cup {AnswerOf(receipts[c])}]
    <3>1. CASE AnswerAgain
      BY <2>1, <3>1 DEF AnswerAgain, FirstTime
    <3>2. CASE AnswerAccepted
      BY <2>1, <3>2 DEF AnswerAccepted, IInv, InHand, AnswerOf
    <3>3. CASE AnswerRefused
      BY <2>1, <3>3 DEF AnswerRefused, Recorded, AnswerOf
    <3>. QED
      BY <1>1, <3>1, <3>2, <3>3
  <2>3. UNCHANGED <<log, receipts>>
    BY <1>1 DEF AnswerAgain, AnswerAccepted, AnswerRefused, Done, database
  <2>. QED
    BY <2>2, <2>3
<1>2. CASE Take \/ LookupFails \/ Reject \/ Adopt \/ Reconcile \/ Publish \/ AnswerStorageError
  BY <1>2 DEF Take, LookupFails, Reject, Fail, Adopt, Reconcile, Publish,
     AnswerStorageError, Done, database
<1>3. CASE Startup \/ (\E c \in Command : Dispatch(c)) \/ Crash \/ UNCHANGED vars
  BY <1>3 DEF Startup, ReplayEvent, NextProjector, StartWorker, Dispatch, Crash,
     database, vars
<1>. QED
  BY <1>1, <1>2, <1>3 DEF Next, Worker

\* A refusal is recorded before it is told.
LEMMA RecordedStep ==
    ASSUME "receipt" \notin Faults, IInv, Recorded, [Next]_vars
    PROVE  Recorded'
<1>1. CASE RecordRefusal
  <2>1. current \in Command /\ UNCHANGED current
    BY <1>1 DEF RecordRefusal, IInv, Types, HasCommand
  <2>2. receipts'[current].status = "rejected"
    BY <1>1, <2>1 DEF RecordRefusal, IInv, Types, TypeOK
  <2>. QED
    BY <2>1, <2>2 DEF Recorded
<1>2. CASE UNCHANGED <<pc, current, receipts>>
  BY <1>2 DEF Recorded
<1>3. CASE pc' # "refused"
  BY <1>3 DEF Recorded
<1>4. RecordRefusal \/ UNCHANGED <<pc, current, receipts>> \/ pc' # "refused"
  <2>1. CASE Worker
    BY <2>1 DEF Worker, Take, AnswerAgain, LookupFails, Reject, Fail, Abort, Adopt,
       Reconcile, Publish, AnswerAccepted, AnswerStorageError, AnswerRefused, Done,
       Commit, database
  <2>2. CASE Startup \/ (\E c \in Command : Dispatch(c)) \/ Crash \/ UNCHANGED vars
    BY <2>2 DEF Startup, ReplayEvent, NextProjector, StartWorker, Dispatch, Crash,
       database, vars
  <2>. QED
    BY <2>1, <2>2 DEF Next
<1>. QED
  BY <1>1, <1>2, <1>3, <1>4

\* A commit or a refusal concerns a command that nobody was answered about.
LEMMA VerdictStep ==
    ASSUME IInv, Commit \/ RecordRefusal, "receipt" \notin Faults
    PROVE  \E k \in Command :
             /\ k = current
             /\ receipts[k] = Unseen
             /\ UNCHANGED answers
             /\ Commit =>
                  receipts' = [receipts EXCEPT ![k] = [status |-> "accepted",
                                                       sequence |-> Len(log')]]
             /\ RecordRefusal =>
                  receipts' = [receipts EXCEPT ![k] = [status |-> "rejected",
                                                       sequence |-> model.sequence]]
<1>1. PICK k \in Command : k = current
  BY DEF Commit, RecordRefusal, IInv, Types, HasCommand
<1>2. CASE Commit
  <2>1. receipts[k].status = "none"
    BY <1>1, <1>2 DEF Commit, FirstTime
  <2>2. receipts[k] = Unseen
    BY <2>1 DEF IInv, ReceiptsSound
  <2>3. ~RecordRefusal
    BY <1>2 DEF Commit, RecordRefusal
  <2>. QED
    BY <1>1, <1>2, <2>2, <2>3 DEF Commit, WithAccepted
<1>3. CASE RecordRefusal
  <2>1. ~Commit
    BY <1>3 DEF Commit, RecordRefusal
  <2>. QED
    BY <1>1, <1>3, <2>1 DEF RecordRefusal, IInv, InHand
<1>. QED
  BY <1>2, <1>3

\* Clients are only told what a receipt says.
LEMMA AnswersSoundStep ==
    ASSUME "escape" \notin Faults, "receipt" \notin Faults, AInv, [Next]_vars
    PROVE  AnswersSound'
<1>. USE DEF AInv
<1>1. CASE Commit \/ RecordRefusal
  <2>1. PICK k \in Command :
          /\ receipts[k] = Unseen
          /\ UNCHANGED answers
          /\ \E r : r.status # "none" /\ receipts' = [receipts EXCEPT ![k] = r]
    BY <1>1, VerdictStep
  <2>2. answers[k] = {}
    BY <2>1 DEF AnswersSound, Unseen
  <2>3. \A c \in Command : c # k => receipts'[c] = receipts[c]
    BY <2>1 DEF IInv, Types, TypeOK
  <2>4. receipts'[k].status # "none"
    BY <2>1 DEF IInv, Types, TypeOK
  <2>5. ASSUME NEW c \in Command
        PROVE  /\ receipts'[c].status = "none" => answers'[c] = {}
               /\ answers'[c] \subseteq {AnswerOf(receipts'[c])}
    <3>1. CASE c = k
      BY <3>1, <2>1, <2>2
    <3>2. CASE c # k
      BY <3>2, <2>1, <2>3 DEF AnswersSound
    <3>. QED
      BY <3>1, <3>2
  <2>. QED
    BY <2>5 DEF AnswersSound, AnswerOf
<1>2. CASE \E c \in Command :
             /\ receipts[c].status # "none"
             /\ answers' = [answers EXCEPT ![c] = @ \cup {AnswerOf(receipts[c])}]
             /\ UNCHANGED <<log, receipts>>
  <2>1. PICK k \in Command :
             /\ receipts[k].status # "none"
             /\ answers' = [answers EXCEPT ![k] = @ \cup {AnswerOf(receipts[k])}]
             /\ UNCHANGED receipts
    BY <1>2
  <2>2. /\ answers'[k] = answers[k] \cup {AnswerOf(receipts[k])}
        /\ \A c \in Command : c # k => answers'[c] = answers[c]
    BY <2>1 DEF IInv, Types, TypeOK
  <2>. QED
    BY <2>1, <2>2 DEF AnswersSound, AnswerOf
<1>3. CASE UNCHANGED <<log, receipts, answers>>
  BY <1>3 DEF AnswersSound, AnswerOf
<1>4. CASE Abort
  BY <1>4 DEF Abort, Fail, AnswersSound, AnswerOf
<1>. QED
  BY <1>1, <1>2, <1>3, <1>4, AnswerSteps

\* The answers are sound in every behaviour in which refusals can be recorded.
THEOREM SpecAInv ==
    ASSUME "escape" \notin Faults, "receipt" \notin Faults
    PROVE  Spec => []AInv
<1>1. Init => AInv
  BY InitIInv DEF Init, AInv, Recorded, AnswersSound, Unseen
<1>2. AInv /\ [Next]_vars => AInv'
  BY NextIInv, RecordedStep, AnswersSoundStep DEF AInv
<1>. QED
  BY <1>1, <1>2, PTL DEF Spec

\* All answers to a command agree, over retries and restarts, and what was
\* acknowledged is in the log (the two places where processEnvelope answers).
THEOREM SpecAnswersAgree ==
    ASSUME "escape" \notin Faults, "receipt" \notin Faults
    PROVE  Spec => []AnswersAgree
<1>1. IInv => ReceiptsExact
  BY ReceiptsAreExact
<1>2. AInv => AnswersAgree
  <2>. SUFFICES ASSUME AInv, NEW c \in Command
                PROVE  /\ \A s, r \in answers[c] : s = r
                       /\ \A s \in answers[c] \ {Refusal} : s \in EventsOf(c)
    BY DEF AnswersAgree
  <2>1. answers[c] \subseteq {AnswerOf(receipts[c])}
    BY DEF AInv, AnswersSound
  <2>2. AnswerOf(receipts[c]) # Refusal => receipts[c].status = "accepted"
    BY DEF AnswerOf
  <2>3. receipts[c].status = "accepted" => AnswerOf(receipts[c]) \in EventsOf(c)
    BY <1>1 DEF AInv, ReceiptsExact, AnswerOf
  <2>. QED
    BY <2>1, <2>2, <2>3
<1>. QED
  BY <1>2, SpecAInv, PTL

\* The command log reads commands and logs as the engine does.
LEMMA SameDecider ==
    /\ \A c : Promise!Batch(c) = Batch(c)
    /\ \A known, c : Promise!Accepts(known, c) = Accepts(known, c)
    /\ Promise!Known = Known
    /\ Promise!Unseen = Unseen
<1>1. \A c : Promise!Batch(c) = Batch(c)
  BY DEF Promise!Batch, Batch, Promise!EventTypes, EventTypes
<1>2. \A known, c : Promise!Accepts(known, c) = Accepts(known, c)
  BY DEF Promise!Accepts, Accepts, Promise!Project, Project, Promise!Thread, Thread
<1>3. Promise!Known = Known
  BY DEF Promise!Known, Known, Promise!CreatedBy, CreatedBy, Promise!Created, Created
<1>4. Promise!Unseen = Unseen
  BY DEF Promise!Unseen, Unseen
<1>. QED
  BY <1>1, <1>2, <1>3, <1>4

\* Every step of the engine is a step of the command log, or invisible in it.
LEMMA PromiseStep ==
    ASSUME "escape" \notin Faults, "receipt" \notin Faults, AInv, AInv', [Next]_vars
    PROVE  [Promise!Next]_(Promise!logVars)
<1>. USE DEF AInv
<1>1. ASSUME NEW k \in Command, NEW r, receipts' = [receipts EXCEPT ![k] = r]
      PROVE  Verdict' = [Verdict EXCEPT ![k] =
                           IF r.status = "rejected"
                           THEN [status |-> "rejected", sequence |-> Refusal] ELSE r]
  <2>1. receipts'[k] = r /\ \A c \in Command : c # k => receipts'[c] = receipts[c]
    BY <1>1 DEF IInv, Types, TypeOK
  <2>. QED
    BY <2>1 DEF Verdict
<1>2. CASE Commit
  <2>1. PICK k \in Command :
          /\ k = current
          /\ receipts[k] = Unseen
          /\ UNCHANGED answers
          /\ receipts' = [receipts EXCEPT ![k] = [status |-> "accepted",
                                                  sequence |-> Len(log')]]
    BY <1>2, VerdictStep
  <2>2. Verdict[k] = Unseen
    BY <2>1 DEF Verdict, Unseen
  <2>3. Verdict' = [Verdict EXCEPT ![k] = [status |-> "accepted", sequence |-> Len(log')]]
    BY <2>1, <1>1
  <2>4. Accepts(Known, k) /\ log' = log \o Batch(k)
    BY <1>2, <2>1 DEF Commit, IInv, KnownCurrent
  <2>5. Promise!Accept(k)
    BY <2>1, <2>2, <2>3, <2>4, SameDecider DEF Promise!Accept
  <2>. QED
    BY <2>5 DEF Promise!Next
<1>3. CASE RecordRefusal
  <2>1. PICK k \in Command :
          /\ k = current
          /\ receipts[k] = Unseen
          /\ UNCHANGED answers
          /\ receipts' = [receipts EXCEPT ![k] = [status |-> "rejected",
                                                  sequence |-> model.sequence]]
    BY <1>3, VerdictStep
  <2>2. Verdict[k] = Unseen
    BY <2>1 DEF Verdict, Unseen
  <2>3. Verdict' = [Verdict EXCEPT ![k] = [status |-> "rejected", sequence |-> Refusal]]
    BY <2>1, <1>1
  <2>4. ~Accepts(Known, k) /\ UNCHANGED log
    BY <1>3, <2>1 DEF RecordRefusal, IInv, InHand
  <2>5. Promise!Refuse(k)
    BY <2>1, <2>2, <2>3, <2>4, SameDecider DEF Promise!Refuse, Promise!Refusal, Refusal
  <2>. QED
    BY <2>5 DEF Promise!Next
<1>4. CASE \E c \in Command :
             /\ receipts[c].status # "none"
             /\ answers' = [answers EXCEPT ![c] = @ \cup {AnswerOf(receipts[c])}]
             /\ UNCHANGED <<log, receipts>>
  <2>1. PICK k \in Command :
             /\ receipts[k].status # "none"
             /\ answers' = [answers EXCEPT ![k] = @ \cup {AnswerOf(receipts[k])}]
             /\ UNCHANGED <<log, receipts>>
    BY <1>4
  <2>2. Verdict[k].status # "none" /\ Verdict[k].sequence = AnswerOf(receipts[k])
    <3>1. receipts[k].status \in {"accepted", "rejected"}
      BY <2>1 DEF IInv, Types, TypeOK
    <3>. QED
      BY <3>1 DEF Verdict, AnswerOf, Refusal
  <2>3. Verdict[k] # Unseen
    BY <2>2 DEF Unseen
  <2>4. UNCHANGED <<log, Verdict>>
    BY <2>1 DEF Verdict
  <2>5. Promise!Answer(k)
    BY <2>1, <2>2, <2>3, <2>4, SameDecider DEF Promise!Answer
  <2>. QED
    BY <2>5 DEF Promise!Next
<1>5. CASE UNCHANGED <<log, receipts, answers>>
  BY <1>5 DEF Promise!logVars, Verdict
<1>6. CASE Abort
  BY <1>6 DEF Abort, Fail, Promise!logVars, Verdict
<1>. QED
  BY <1>2, <1>3, <1>4, <1>5, <1>6, AnswerSteps

\* The engine implements the command log: every dispatch is accepted once, or
\* refused once, on what the log holds, and answered accordingly
\* (OrchestrationEngine.ts against Services/OrchestrationEngine.ts).
THEOREM SpecImplements ==
    ASSUME "escape" \notin Faults, "receipt" \notin Faults
    PROVE  Spec => Implements
<1>1. Init => Promise!Init
  <2>. SUFFICES ASSUME Init PROVE Promise!Init
    OBVIOUS
  <2>1. Verdict = [c \in Command |-> Unseen]
    BY DEF Init, Verdict, Unseen
  <2>. QED
    BY <2>1, SameDecider DEF Init, Promise!Init
<1>2. AInv /\ AInv' /\ [Next]_vars => [Promise!Next]_(Promise!logVars)
  BY PromiseStep
<1>. QED
  BY <1>1, <1>2, SpecAInv, PTL DEF Spec, Implements, Promise!Spec

-----------------------------------------------------------------------------
(* What a log gains *)

\* Two sequences, one after the other.
LEMMA Concatenated ==
    ASSUME NEW S, NEW s \in Seq(S), NEW t \in Seq(S), NEW n \in Nat, NEW k \in Nat,
           Len(s) = n, Len(t) = k
    PROVE  /\ s \o t \in Seq(S) /\ Len(s \o t) = n + k /\ DOMAIN (s \o t) = 1..(n + k)
           /\ \A i \in 1..n : (s \o t)[i] = s[i]
           /\ \A i \in 1..k : (s \o t)[n + i] = t[i]
OBVIOUS

\* The numbers between two lengths, each at its place.
LEMMA NumbersAt ==
    ASSUME NEW n \in Nat, NEW m \in Nat, n <= m
    PROVE  /\ Numbers(n, m) \in Seq(Nat)
           /\ m - n \in Nat /\ Len(Numbers(n, m)) = m - n
           /\ \A i \in 1..(m - n) : Numbers(n, m)[i] = n + i
<1>1. m - n \in Nat /\ DOMAIN Numbers(n, m) = 1..(m - n) /\ Numbers(n, m) \in Seq(Nat)
  BY NumbersType DEF Numbers
<1>2. \A i \in 1..(m - n) : Numbers(n, m)[i] = n + i
  BY DEF Numbers
<1>3. Len(Numbers(n, m)) = m - n
  BY <1>1
<1>. QED
  BY <1>1, <1>2, <1>3

\* A set of sequence numbers is finite.
LEMMA SequenceNumbersFinite ==
    ASSUME NEW n \in Nat, NEW S \in SUBSET (1..n)
    PROVE  IsFiniteSet(S) /\ Cardinality(S) \in Nat
<1>1. IsFiniteSet(1..n)
  BY FS_Interval
<1>2. IsFiniteSet(S)
  BY <1>1, FS_Subset
<1>. QED
  BY <1>2, FS_CardinalityType

\* The log gained events of known types, n of them at most.
Gains(n) ==
    /\ Len(log) \in Nat /\ Len(log') \in Nat
    /\ Len(log) <= Len(log') /\ Len(log') - Len(log) <= n
    /\ DOMAIN log' = 1..Len(log')
    /\ \A i \in 1..Len(log) : log'[i] = log[i]
    /\ \A i \in (Len(log) + 1)..Len(log') : log'[i].type # "retired"

\* No command produces an event that the program does not know.
LEMMA BatchReadable ==
    ASSUME NEW c \in Command, NEW k \in 1..Len(Batch(c))
    PROVE  Batch(c)[k].type # "retired"
<1>1. c.kind \in Kind /\ Batch(c)[k].type = EventTypes(c.kind)[k] /\ k \in 1..2
  BY CommandAssumption, BatchType
<1>2. CASE c.kind = "project.create"
  <2>1. EventTypes(c.kind) = <<"project.created">> /\ Len(Batch(c)) = 1
    BY <1>2 DEF EventTypes, Batch
  <2>. QED
    BY <2>1, <1>1
<1>3. CASE c.kind = "thread.create"
  <2>1. EventTypes(c.kind) = <<"thread.created">> /\ Len(Batch(c)) = 1
    BY <1>3 DEF EventTypes, Batch
  <2>. QED
    BY <2>1, <1>1
<1>4. CASE c.kind = "thread.turn.start"
  <2>1. EventTypes(c.kind) = <<"thread.message-sent", "thread.turn-start-requested">>
    BY <1>4 DEF EventTypes
  <2>. QED
    BY <2>1, <1>1
<1>. QED
  BY <1>1, <1>2, <1>3, <1>4 DEF Kind

\* A log continued by a prefix of a batch gains that many known events.
LEMMA PrefixGains ==
    ASSUME TypeOK, NEW c \in Command, NEW k \in 1..Len(Batch(c)),
           log' = log \o SubSeq(Batch(c), 1, k)
    PROVE  Gains(Len(Batch(c)))
<1>. DEFINE b == Batch(c)
            s == SubSeq(b, 1, k)
            n == Len(log)
<1>1. b \in Seq(Event) /\ Len(b) \in 1..2 /\ k \in Nat /\ n \in Nat /\ log \in Seq(Event)
  BY BatchType DEF TypeOK
<1>2. s \in Seq(Event) /\ Len(s) = k /\ \A i \in 1..k : s[i] = b[i]
  BY <1>1
<1>3. \A i \in 1..k : b[i].type # "retired"
  BY <1>1, BatchReadable
<1>4. log' = log \o s
  OBVIOUS
<1>. HIDE DEF b, s, n
<1>5. /\ log' \in Seq(Event) /\ Len(log') = n + k
      /\ \A i \in 1..n : log'[i] = log[i]
      /\ \A i \in 1..k : log'[n + i] = s[i]
  <2>1. /\ log \o s \in Seq(Event) /\ Len(log \o s) = n + k
        /\ \A i \in 1..n : (log \o s)[i] = log[i]
        /\ \A i \in 1..k : (log \o s)[n + i] = s[i]
    BY <1>1, <1>2, Concatenated DEF n
  <2>. QED
    BY <2>1, <1>4
<1>6. \A i \in (n + 1)..(n + k) : log'[i].type # "retired"
  <2>1. ASSUME NEW i \in (n + 1)..(n + k)
        PROVE  log'[i].type # "retired"
    <3>1. PICK j \in 1..k : i = n + j
      BY <1>1, Offset
    <3>. QED
      BY <3>1, <1>2, <1>3, <1>5
  <2>. QED
    BY <2>1
<1>7. DOMAIN log' = 1..(n + k)
  BY <1>5
<1>8. k <= Len(b)
  BY DEF b
<1>. QED
  BY <1>1, <1>5, <1>6, <1>7, <1>8 DEF Gains, n, b

\* A commit, and an abort whose events escape, continue the log with known events.
LEMMA TransactionGains ==
    ASSUME TypeOK, HasCommand, Commit \/ Abort
    PROVE  current \in Command /\ Gains(Len(Batch(current)))
<1>1. current \in Command
  BY DEF Commit, Abort, HasCommand
<1>2. Batch(current) \in Seq(Event) /\ Len(Batch(current)) \in 1..2
  BY <1>1, BatchType
<1>3. CASE Commit
  <2>1. SubSeq(Batch(current), 1, Len(Batch(current))) = Batch(current)
    BY <1>2
  <2>2. log' = log \o SubSeq(Batch(current), 1, Len(Batch(current)))
    BY <1>3, <2>1 DEF Commit
  <2>3. Len(Batch(current)) \in 1..Len(Batch(current))
    BY <1>2
  <2>. QED
    BY <1>1, <2>2, <2>3, PrefixGains
<1>4. CASE Abort
  <2>1. CASE UNCHANGED log
    <3>1. log \in Seq(Event)
      BY DEF TypeOK
    <3>. QED
      BY <1>1, <1>2, <2>1, <3>1 DEF Gains
  <2>2. CASE \E k \in DOMAIN Batch(current) : log' = log \o SubSeq(Batch(current), 1, k)
    <3>1. DOMAIN Batch(current) = 1..Len(Batch(current))
      BY <1>2
    <3>2. PICK k \in 1..Len(Batch(current)) : log' = log \o SubSeq(Batch(current), 1, k)
      BY <2>2, <3>1
    <3>. QED
      BY <1>1, <3>2, PrefixGains
  <2>. QED
    BY <1>4, <2>1, <2>2 DEF Abort
<1>. QED
  BY <1>3, <1>4

\* What is readable of a log that gained known events.
LEMMA ReadableGains ==
    ASSUME TypeOK, NEW n, Gains(n), NEW m \in Nat, m <= Len(log)
    PROVE  /\ Readable(m)' = Readable(m) \cup (Len(log) + 1)..Len(log')
           /\ Readable(Len(log))' = {}
<1>1. /\ Len(log) \in Nat /\ Len(log') \in Nat /\ Len(log) <= Len(log')
      /\ DOMAIN log = 1..Len(log) /\ DOMAIN log' = 1..Len(log')
  BY DEF Gains, TypeOK
<1>2. \A i : i \in 1..Len(log') <=> i \in 1..Len(log) \/ i \in (Len(log) + 1)..Len(log')
  BY <1>1
<1>3. \A i \in (Len(log) + 1)..Len(log') : i > m
  BY <1>1
<1>4. \A i \in 1..Len(log) : log'[i] = log[i]
  BY DEF Gains
<1>5. \A i \in (Len(log) + 1)..Len(log') : log'[i].type # "retired"
  BY DEF Gains
<1>6. Readable(m)' = Readable(m) \cup (Len(log) + 1)..Len(log')
  BY <1>1, <1>2, <1>3, <1>4, <1>5 DEF Readable
<1>7. Readable(Len(log))' = {}
  BY <1>1 DEF Readable
<1>. QED
  BY <1>6, <1>7

\* The events up to the last are all of them.
LEMMA ReadableSplit ==
    ASSUME TypeOK, NEW n \in Nat
    PROVE  /\ Readable(0) = {i \in Readable(0) : i <= n} \cup Readable(n)
           /\ Readable(n) = {} => {i \in Readable(0) : i <= n} = Readable(0)
           /\ Len(log) <= n => Readable(n) = {}
<1>1. \A i \in DOMAIN log : i \in Nat /\ i > 0 /\ i <= Len(log) /\ (i <= n \/ i > n)
  BY DEF TypeOK
<1>2. Len(log) \in Nat
  BY DEF TypeOK
<1>. QED
  BY <1>1, <1>2 DEF Readable

-----------------------------------------------------------------------------
(* The projections *)

\* An enumeration continued by something greater.
LEMMA AscendingAppend ==
    ASSUME NEW n \in Nat, NEW S \in SUBSET (1..n), NEW s \in Ascending(S),
           NEW x \in Nat, \A y \in S : y < x
    PROVE  Append(s, x) \in Ascending(S \cup {x})
<1>. DEFINE k == Cardinality(S)
            t == Append(s, x)
<1>1. IsFiniteSet(S) /\ k \in Nat
  BY SequenceNumbersFinite
<1>2. x \notin S
  OBVIOUS
<1>3. Cardinality(S \cup {x}) = k + 1
  BY <1>1, <1>2, FS_AddElement
<1>4. s \in [1..k -> S] /\ \A i, j \in 1..k : i < j => s[i] < s[j]
  BY DEF Ascending
<1>. HIDE DEF k
<1>5. s \in Seq(Nat) /\ Len(s) = k
  <2>1. S \subseteq Nat
    OBVIOUS
  <2>2. s \in [1..k -> Nat]
    BY <1>4, <2>1
  <2>. QED
    BY ONLY <2>2, <1>1
<1>6. /\ DOMAIN t = 1..(k + 1)
      /\ \A i \in 1..k : t[i] = s[i]
      /\ t[k + 1] = x
  BY <1>5
<1>7. t \in [1..(k + 1) -> Nat]
  <2>1. t \in Seq(Nat) /\ Len(t) = k + 1
    BY <1>5
  <2>. HIDE DEF t
  <2>. QED
    BY ONLY <2>1
<1>. HIDE DEF t
<1>8. \A i \in 1..(k + 1) : i \in 1..k \/ i = k + 1
  BY <1>1
<1>9. \A i \in 1..(k + 1) : t[i] \in S \cup {x}
  BY <1>4, <1>6, <1>8
<1>10. ASSUME NEW i \in 1..(k + 1), NEW j \in 1..(k + 1), i < j
       PROVE  t[i] < t[j]
  <2>1. i \in 1..k
    BY <1>1, <1>10
  <2>2. CASE j \in 1..k
    BY <2>1, <2>2, <1>4, <1>6, <1>10
  <2>3. CASE j = k + 1
    BY <2>1, <2>3, <1>4, <1>6
  <2>. QED
    BY <2>2, <2>3, <1>8
<1>11. t \in [1..(k + 1) -> S \cup {x}]
  BY <1>7, <1>9
<1>. QED
  BY <1>3, <1>10, <1>11 DEF Ascending, t, k

\* An enumeration continued by the numbers that follow.
LEMMA AscendingNumbers ==
    ASSUME NEW n \in Nat, NEW m \in Nat, n <= m, NEW S \in SUBSET (1..n), NEW s \in Ascending(S)
    PROVE  s \o Numbers(n, m) \in Ascending(S \cup (n + 1)..m)
<1>. DEFINE k == Cardinality(S)
            u == Numbers(n, m)
            d == m - n
            t == s \o u
<1>1. IsFiniteSet(S) /\ k \in Nat
  BY SequenceNumbersFinite
<1>2. Cardinality(S \cup (n + 1)..m) = k + d
  <2>1. IsFiniteSet((n + 1)..m) /\ Cardinality((n + 1)..m) = d
    <3>1. n + 1 \in Int /\ m \in Int /\ (IF n + 1 > m THEN 0 ELSE m - (n + 1) + 1) = d
      OBVIOUS
    <3>. QED
      BY <3>1, FS_Interval
  <2>2. S \cap (n + 1)..m = {}
    OBVIOUS
  <2>3. Cardinality(S \cap (n + 1)..m) = 0
    BY <2>2, FS_EmptySet
  <2>4. Cardinality(S \cup (n + 1)..m) = k + d - 0
    <3>. DEFINE T == (n + 1)..m
    <3>1. IsFiniteSet(S) /\ IsFiniteSet(T)
      BY <1>1, <2>1
    <3>2. Cardinality(S \cap T) = 0 /\ Cardinality(T) = d
      BY <2>1, <2>3
    <3>. HIDE DEF T
    <3>3. Cardinality(S \cup T) = Cardinality(S) + Cardinality(T) - Cardinality(S \cap T)
      BY <3>1, FS_Union
    <3>4. Cardinality(S \cup T) = k + d - 0
      BY <3>2, <3>3
    <3>. QED
      BY <3>4 DEF T
  <2>. QED
    BY <2>4, <1>1
<1>3. s \in [1..k -> S] /\ \A i, j \in 1..k : i < j => s[i] < s[j]
  BY DEF Ascending
<1>4. d \in Nat /\ u \in Seq(Nat) /\ Len(u) = d /\ \A i \in 1..d : u[i] = n + i
  BY NumbersAt
<1>. HIDE DEF k, d, u
<1>5. s \in Seq(Nat) /\ Len(s) = k
  <2>1. S \subseteq Nat
    OBVIOUS
  <2>2. s \in [1..k -> Nat]
    BY <1>3, <2>1
  <2>. QED
    BY ONLY <2>2, <1>1
<1>6. /\ t \in Seq(Nat) /\ Len(t) = k + d
      /\ \A i \in 1..k : t[i] = s[i]
      /\ \A i \in 1..d : t[k + i] = u[i]
  <2>1. /\ s \o u \in Seq(Nat) /\ Len(s \o u) = k + d
        /\ \A i \in 1..k : (s \o u)[i] = s[i]
        /\ \A i \in 1..d : (s \o u)[k + i] = u[i]
    <3>1. /\ s \o u \in Seq(Nat) /\ Len(s \o u) = k + d
          /\ \A i \in 1..(k + d) : (s \o u)[i] = IF i <= k THEN s[i] ELSE u[i - k]
      <4>1. /\ s \o u \in Seq(Nat) /\ Len(s \o u) = Len(s) + Len(u)
            /\ \A i \in 1..(Len(s) + Len(u)) :
                 (s \o u)[i] = IF i <= Len(s) THEN s[i] ELSE u[i - Len(s)]
        BY ONLY <1>4, <1>5, ConcatProperties
      <4>. QED
        BY ONLY <4>1, <1>4, <1>5
    <3>. DEFINE c == s \o u
    <3>. HIDE DEF c
    <3>2. \A i \in 1..(k + d) : c[i] = IF i <= k THEN s[i] ELSE u[i - k]
      BY ONLY <3>1 DEF c
    <3>3. \A i \in 1..k : i \in 1..(k + d) /\ i <= k
      BY ONLY <1>1, <1>4
    <3>4. \A i \in 1..d : k + i \in 1..(k + d) /\ ~(k + i <= k) /\ (k + i) - k = i
      BY ONLY <1>1, <1>4
    <3>5. \A i \in 1..k : c[i] = s[i]
      BY ONLY <3>2, <3>3
    <3>6. \A i \in 1..d : c[k + i] = u[i]
      BY ONLY <3>2, <3>4
    <3>. QED
      BY ONLY <3>1, <3>5, <3>6 DEF c
  <2>. QED
    BY <2>1
<1>7. t \in [1..(k + d) -> Nat]
  <2>. HIDE DEF t
  <2>. QED
    BY ONLY <1>6
<1>. HIDE DEF t
<1>8. \A i \in 1..(k + d) : i \in 1..k \/ (i - k \in 1..d /\ t[i] = n + (i - k))
  <2>1. \A i \in 1..(k + d) : i \in 1..k \/ (i - k \in 1..d /\ k + (i - k) = i)
    BY <1>1, <1>4
  <2>. QED
    BY <2>1, <1>4, <1>6
<1>9. \A i \in 1..(k + d) : t[i] \in S \cup (n + 1)..m
  <2>1. \A i \in 1..d : n + i \in (n + 1)..m
    BY <1>4 DEF d
  <2>. QED
    BY <2>1, <1>3, <1>6, <1>8
<1>10. ASSUME NEW i \in 1..(k + d), NEW j \in 1..(k + d), i < j
       PROVE  t[i] < t[j]
  <2>1. CASE j \in 1..k
    <3>1. i \in 1..k
      BY <2>1, <1>10, <1>1
    <3>. QED
      BY <3>1, <2>1, <1>10, <1>3, <1>6
  <2>2. CASE j \notin 1..k /\ i \in 1..k
    <3>1. t[i] \in 1..n
      BY <2>2, <1>3, <1>6
    <3>2. t[j] > n
      BY <2>2, <1>8
    <3>3. t[j] \in Nat
      BY <1>7
    <3>. QED
      BY <3>1, <3>2, <3>3
  <2>3. CASE j \notin 1..k /\ i \notin 1..k
    <3>1. t[i] = n + (i - k) /\ t[j] = n + (j - k)
      BY <2>3, <1>8
    <3>. QED
      BY <3>1, <1>10, <1>1
  <2>. QED
    BY <2>1, <2>2, <2>3
<1>11. t \in [1..(k + d) -> S \cup (n + 1)..m]
  BY <1>7, <1>9
<1>. QED
  BY <1>2, <1>10, <1>11 DEF Ascending, t, u, k

\* The least of a set of numbers is below the others.
LEMMA LeastBelow ==
    ASSUME NEW S \in SUBSET Nat, S # {}
    PROVE  \A y \in S : Least(S) <= y
BY LeastNumber DEF Least

\* A projector that a version did not have yet can catch up in one read.
FitsOneRead ==
    Behind # {} =>
        \A h \in Histories : Cardinality({i \in DOMAIN h : h[i].type # "retired"}) <= ReadLimit

\* What each projector has applied: the events up to its cursor, each once, in order.
RowsFollow ==
    \A p \in Projector : rows[p] \in Ascending({i \in Readable(0) : i <= cursor[p]})

\* What each projector has still to apply: nothing once the worker runs, and while it
\* starts no more than the reads that are left.
Unread ==
    /\ \A p \in Projector : Cardinality(Readable(cursor[p])) <= ReadLimit
    /\ pc = "boot" =>
         /\ replay.projector # 0
         /\ \A k \in DOMAIN ProjectorOrder :
              /\ k < replay.projector => Readable(cursor[ProjectorOrder[k]]) = {}
              /\ k = replay.projector =>
                   Cardinality(Readable(cursor[ProjectorOrder[k]])) <= replay.left
    /\ pc # "boot" => \A p \in Projector : Readable(cursor[p]) = {}

PInv == Types /\ RowsFollow /\ Unread

\* The next event for a projector, and what it leaves to read.
LEMMA NextEvent ==
    ASSUME TypeOK, NEW n \in Nat, Readable(n) # {}
    PROVE  /\ Least(Readable(n)) \in Readable(n)
           /\ {j \in Readable(0) : j <= Least(Readable(n))} =
                {j \in Readable(0) : j <= n} \cup {Least(Readable(n))}
           /\ Cardinality(Readable(Least(Readable(n)))) = Cardinality(Readable(n)) - 1
           /\ Cardinality(Readable(n)) \in Nat
<1>. DEFINE R == Readable(n)
            i == Least(R)
<1>1. /\ Len(log) \in Nat /\ DOMAIN log = 1..Len(log)
      /\ R \in SUBSET (1..Len(log)) /\ \A j \in R : j > n
  BY ReadableType
<1>2. R \in SUBSET Nat /\ R # {}
  BY <1>1
<1>. HIDE DEF R
<1>3. i \in R /\ \A y \in R : i <= y
  BY <1>2, LeastType, LeastBelow
<1>. HIDE DEF i
<1>4. \A j \in Readable(0) : j \in Nat /\ (j > n <=> j \in R)
  BY <1>1 DEF Readable, R
<1>5. R \subseteq Readable(0)
  BY <1>1 DEF Readable, R
<1>6. {j \in Readable(0) : j <= i} = {j \in Readable(0) : j <= n} \cup {i}
  <2>1. i \in Readable(0) /\ i \in Nat /\ i > n
    BY <1>1, <1>3, <1>5
  <2>2. \A j \in Readable(0) : j <= i <=> j <= n \/ j = i
    BY <2>1, <1>3, <1>4
  <2>. QED
    BY <2>1, <2>2
<1>7. Readable(i) = R \ {i}
  <2>1. \A j \in DOMAIN log : j \in Nat /\ log[j].type # "retired" /\ j > n <=> j \in R
    BY <1>1 DEF Readable, R
  <2>2. i \in Nat /\ i > n
    BY <1>1, <1>3
  <2>3. \A j \in DOMAIN log : j \in Nat
    BY <1>1
  <2>4. R \subseteq DOMAIN log
    BY <1>1
  <2>. QED
    BY <2>1, <2>2, <2>3, <2>4, <1>3 DEF Readable
<1>8. IsFiniteSet(R) /\ Cardinality(R) \in Nat
  BY <1>1, SequenceNumbersFinite
<1>9. Cardinality(R \ {i}) = Cardinality(R) - 1
  BY <1>3, <1>8, FS_RemoveElement
<1>. QED
  BY <1>3, <1>6, <1>7, <1>8, <1>9 DEF R, i

\* Nothing is left of a set without members.
LEMMA NoneLeft ==
    ASSUME TypeOK, NEW n \in Nat, Cardinality(Readable(n)) <= 0
    PROVE  Readable(n) = {}
<1>1. Len(log) \in Nat /\ Readable(n) \in SUBSET (1..Len(log))
  BY ReadableType
<1>2. IsFiniteSet(Readable(n)) /\ Cardinality(Readable(n)) \in Nat
  BY <1>1, SequenceNumbersFinite
<1>3. Cardinality(Readable(n)) = 0
  BY <1>2
<1>. QED
  BY <1>2, <1>3, FS_EmptySet

\* A replayed event is appended to one projector's rows and read by it.
LEMMA ReplayStep ==
    ASSUME PInv, ReplayEvent
    PROVE  RowsFollow' /\ Unread'
<1>. USE DEF PInv, Types
<1>1. PICK p \in Projector, n \in Nat, i \in Nat :
        /\ p = ProjectorOrder[replay.projector]
        /\ n = cursor[p]
        /\ i = Least(Readable(n))
        /\ Readable(n) # {}
        /\ rows' = [rows EXCEPT ![p] = Append(@, i)]
        /\ cursor' = [cursor EXCEPT ![p] = i]
  <2>1. ProjectorOrder[replay.projector] \in Projector
    BY DEF ReplayEvent, Projector
  <2>2. cursor[ProjectorOrder[replay.projector]] \in Nat
    BY <2>1 DEF TypeOK
  <2>3. Readable(cursor[ProjectorOrder[replay.projector]]) # {}
    BY DEF ReplayEvent
  <2>4. /\ Readable(cursor[ProjectorOrder[replay.projector]]) \in SUBSET (1..Len(log))
        /\ Len(log) \in Nat
    BY <2>2, ReadableType
  <2>5. Readable(cursor[ProjectorOrder[replay.projector]]) \in SUBSET Nat
    BY <2>4
  <2>6. Least(Readable(cursor[ProjectorOrder[replay.projector]])) \in Nat
    BY <2>3, <2>5, LeastType
  <2>. QED
    BY <2>1, <2>2, <2>3, <2>6 DEF ReplayEvent
<1>2. /\ pc = "boot" /\ replay.projector \in DOMAIN ProjectorOrder
      /\ replay' = [replay EXCEPT !.left = @ - 1]
      /\ UNCHANGED <<log, pc>>
  BY DEF ReplayEvent
<1>3. \A m : Readable(m)' = Readable(m)
  <2>1. \A m : {j \in DOMAIN log' : j > m /\ log'[j].type # "retired"} =
               {j \in DOMAIN log : j > m /\ log[j].type # "retired"}
    BY <1>2
  <2>. QED
    BY <2>1 DEF Readable
<1>4. /\ i \in Readable(n)
      /\ {j \in Readable(0) : j <= i} = {j \in Readable(0) : j <= n} \cup {i}
      /\ Cardinality(Readable(i)) = Cardinality(Readable(n)) - 1
      /\ Cardinality(Readable(n)) \in Nat
  BY <1>1, NextEvent
<1>5. rows \in [Projector -> Seq(Nat)] /\ cursor \in [Projector -> Nat]
  BY DEF TypeOK
<1>6. /\ rows'[p] = Append(rows[p], i) /\ cursor'[p] = i
      /\ \A q \in Projector : q # p => rows'[q] = rows[q] /\ cursor'[q] = cursor[q]
  BY <1>1, <1>5
<1>7. RowsFollow'
  <2>1. rows'[p] \in Ascending({j \in Readable(0) : j <= i})
    <3>. DEFINE S == {j \in Readable(0) : j <= n}
    <3>1. Len(log) \in Nat /\ Readable(0) \in SUBSET (1..Len(log)) /\ \A j \in Readable(n) : j > n
      BY ReadableType
    <3>2. S \in SUBSET (1..Len(log)) /\ \A y \in S : y <= n /\ y \in Nat
      BY <3>1
    <3>3. \A y \in S : y < i
      BY <3>1, <3>2, <1>1, <1>4
    <3>4. rows[p] \in Ascending(S)
      BY <1>1 DEF RowsFollow
    <3>. HIDE DEF S
    <3>5. Append(rows[p], i) \in Ascending(S \cup {i})
      BY <3>1, <3>2, <3>3, <3>4, <1>1, AscendingAppend
    <3>. QED
      BY <3>5, <1>4, <1>6 DEF S
  <2>2. \A q \in Projector : rows'[q] \in Ascending({j \in Readable(0) : j <= cursor'[q]})
    BY <2>1, <1>6 DEF RowsFollow
  <2>. QED
    BY <2>2, <1>3 DEF RowsFollow
<1>8. Cardinality(Readable(n)) <= ReadLimit /\ ReadLimit \in Nat
  BY <1>1, EngineAssumption DEF Unread
<1>9. \A q \in Projector : Cardinality(Readable(cursor'[q])) <= ReadLimit
  <2>1. Cardinality(Readable(i)) <= ReadLimit
    BY <1>4, <1>8
  <2>. QED
    BY <2>1, <1>6 DEF Unread
<1>10. ASSUME NEW k \in DOMAIN ProjectorOrder
       PROVE  /\ k < replay'.projector => Readable(cursor'[ProjectorOrder[k]]) = {}
              /\ k = replay'.projector =>
                   Cardinality(Readable(cursor'[ProjectorOrder[k]])) <= replay'.left
  <2>1. /\ replay \in [projector: Nat, left: Nat]
        /\ replay'.projector = replay.projector /\ replay'.left = replay.left - 1
    BY <1>2 DEF TypeOK
  <2>2. CASE k < replay.projector
    <3>1. Readable(cursor[ProjectorOrder[k]]) = {} /\ ProjectorOrder[k] \in Projector
      BY <2>2, <1>2 DEF Unread, Projector
    <3>2. ProjectorOrder[k] # p
      BY <3>1, <1>1
    <3>3. k # replay'.projector
      BY <2>1, <2>2
    <3>. QED
      BY <3>1, <3>2, <3>3, <1>6
  <2>3. CASE k = replay.projector
    <3>1. Cardinality(Readable(n)) <= replay.left
      BY <2>3, <1>1, <1>2 DEF Unread
    <3>2. Cardinality(Readable(i)) <= replay'.left
      BY <3>1, <2>1, <1>4
    <3>3. ~(k < replay'.projector)
      BY <2>1, <2>3
    <3>. QED
      BY <3>2, <3>3, <2>3, <1>1, <1>6
  <2>4. CASE ~(k < replay.projector) /\ k # replay.projector
    BY <2>1, <2>4
  <2>. QED
    BY <2>2, <2>3, <2>4
<1>11. replay'.projector # 0 /\ pc' = "boot"
  BY <1>2 DEF Unread, TypeOK
<1>. QED
  BY <1>3, <1>7, <1>9, <1>10, <1>11 DEF Unread

\* A projector is left when it has nothing to read or has used up its reads.
LEMMA NextProjectorStep ==
    ASSUME PInv, NextProjector
    PROVE  Unread'
<1>. USE DEF PInv, Types
<1>1. /\ pc = "boot" /\ replay.projector \in DOMAIN ProjectorOrder
      /\ replay.left = 0 \/ Readable(cursor[ProjectorOrder[replay.projector]]) = {}
      /\ replay' = [projector |-> replay.projector + 1, left |-> ReadLimit]
      /\ UNCHANGED <<log, cursor, pc>>
  BY DEF NextProjector, database
<1>2. \A m : Readable(m)' = Readable(m)
  <2>1. \A m : {j \in DOMAIN log' : j > m /\ log'[j].type # "retired"} =
               {j \in DOMAIN log : j > m /\ log[j].type # "retired"}
    BY <1>1
  <2>. QED
    BY <2>1 DEF Readable
<1>3. Readable(cursor[ProjectorOrder[replay.projector]]) = {}
  <2>1. CASE replay.left = 0
    <3>1. PICK n \in Nat : n = cursor[ProjectorOrder[replay.projector]]
      BY <1>1 DEF TypeOK, Projector
    <3>2. Cardinality(Readable(n)) <= 0
      BY <3>1, <2>1, <1>1 DEF Unread
    <3>. QED
      BY <3>1, <3>2, NoneLeft
  <2>. QED
    BY <2>1, <1>1
<1>4. ASSUME NEW k \in DOMAIN ProjectorOrder
      PROVE  /\ k < replay'.projector => Readable(cursor[ProjectorOrder[k]]) = {}
             /\ k = replay'.projector =>
                  Cardinality(Readable(cursor[ProjectorOrder[k]])) <= replay'.left
  <2>1. replay'.projector = replay.projector + 1 /\ replay'.left = ReadLimit
    BY <1>1
  <2>2. replay.projector \in Nat /\ k \in Nat
    BY EngineAssumption DEF TypeOK
  <2>3. k < replay.projector + 1 => k < replay.projector \/ k = replay.projector
    BY <2>2
  <2>4. ProjectorOrder[k] \in Projector
    BY DEF Projector
  <2>. QED
    BY <2>1, <2>3, <2>4, <1>1, <1>3 DEF Unread
<1>5. replay'.projector # 0
  BY <1>1 DEF TypeOK
<1>6. \A q \in Projector : Cardinality(Readable(cursor[q])) <= ReadLimit
  BY DEF Unread
<1>7. cursor' = cursor /\ pc' = "boot"
  BY <1>1
<1>. QED
  BY <1>2, <1>4, <1>5, <1>6, <1>7 DEF Unread

\* The worker starts when every projector has caught up.
LEMMA StartWorkerStep ==
    ASSUME PInv, StartWorker
    PROVE  Unread'
<1>. USE DEF PInv, Types
<1>1. /\ pc = "boot" /\ replay.projector \notin DOMAIN ProjectorOrder
      /\ UNCHANGED <<log, cursor>> /\ pc' = "idle"
  BY DEF StartWorker, database
<1>2. \A m : Readable(m)' = Readable(m)
  <2>1. \A m : {j \in DOMAIN log' : j > m /\ log'[j].type # "retired"} =
               {j \in DOMAIN log : j > m /\ log[j].type # "retired"}
    BY <1>1
  <2>. QED
    BY <2>1 DEF Readable
<1>3. \A k \in DOMAIN ProjectorOrder : k < replay.projector
  <2>1. DOMAIN ProjectorOrder = 1..Len(ProjectorOrder) /\ Len(ProjectorOrder) \in Nat
    BY EngineAssumption
  <2>2. replay.projector \in Nat /\ replay.projector # 0
    BY <1>1 DEF Unread, TypeOK
  <2>. QED
    BY <2>1, <2>2, <1>1
<1>4. \A p \in Projector : Readable(cursor[p]) = {}
  BY <1>1, <1>3 DEF Unread, Projector
<1>5. \A q \in Projector : Cardinality(Readable(cursor[q])) <= ReadLimit
  BY DEF Unread
<1>. QED
  BY <1>1, <1>2, <1>4, <1>5 DEF Unread

\* A commit projects what it appends, to projectors that had applied all else.
LEMMA CommitProjects ==
    ASSUME PInv, Commit
    PROVE  RowsFollow' /\ Unread'
<1>. USE DEF PInv, Types
<1>1. PICK n \in Nat, m \in Nat :
        /\ n = Len(log) /\ m = Len(log') /\ n <= m
        /\ cursor' = [p \in Projector |-> m]
        /\ rows' = [p \in Projector |-> rows[p] \o Numbers(n, m)]
  <2>1. Len(log) \in Nat /\ Len(log') \in Nat /\ Len(log) <= Len(log')
    BY CommitAppends
  <2>. QED
    BY <2>1 DEF Commit, Appended
<1>2. /\ Readable(0)' = Readable(0) \cup (n + 1)..m
      /\ Readable(Len(log))' = {}
  <2>1. Gains(Len(Batch(current)))
    BY TransactionGains
  <2>2. 0 \in Nat /\ 0 <= Len(log)
    BY <1>1
  <2>. QED
    BY <2>1, <2>2, <1>1, ReadableGains
<1>3. Readable(0) \in SUBSET (1..n)
  BY <1>1, ReadableType
<1>4. pc = "decide" /\ pc' = "adopt"
  BY DEF Commit
<1>5. ASSUME NEW p \in Projector
      PROVE  rows'[p] \in Ascending({i \in Readable(0)' : i <= cursor'[p]})
  <2>1. PICK k \in Nat : k = cursor[p]
    BY DEF TypeOK
  <2>2. Readable(k) = {}
    BY <1>4, <2>1 DEF Unread
  <2>3. {i \in Readable(0) : i <= k} = Readable(0)
    BY <2>2, ReadableSplit
  <2>4. rows[p] \in Ascending(Readable(0))
    BY <2>1, <2>3 DEF RowsFollow
  <2>5. rows[p] \o Numbers(n, m) \in Ascending(Readable(0) \cup (n + 1)..m)
    BY <1>1, <1>3, <2>4, AscendingNumbers
  <2>6. {i \in Readable(0)' : i <= m} = Readable(0)'
    BY <1>1, <1>2, <1>3
  <2>. QED
    BY <2>5, <2>6, <1>1, <1>2
<1>6. RowsFollow'
  BY <1>5 DEF RowsFollow
<1>7. ASSUME NEW p \in Projector
      PROVE  Readable(cursor[p])' = {}
  <2>1. cursor'[p] = Len(log')
    BY <1>1
  <2>. QED
    BY <1>2, <2>1 DEF Readable
<1>8. Unread'
  <2>1. ReadLimit \in Nat
    BY EngineAssumption
  <2>2. Cardinality({}) <= ReadLimit
    BY <2>1, FS_EmptySet
  <2>. QED
    BY <1>4, <1>7, <2>2 DEF Unread
<1>. QED
  BY <1>6, <1>8

\* Every other step leaves the projections alone.
LEMMA OtherProjects ==
    ASSUME "escape" \notin Faults, [Next]_vars, ~ReplayEvent, ~Commit
    PROVE  UNCHANGED <<log, cursor, rows>>
<1>1. CASE Worker
  BY <1>1 DEF Worker, Take, AnswerAgain, LookupFails, Reject, Fail, Abort, Adopt,
     Reconcile, Publish, AnswerAccepted, AnswerStorageError, RecordRefusal, AnswerRefused,
     Done, database
<1>2. CASE Startup \/ (\E c \in Command : Dispatch(c)) \/ Crash \/ UNCHANGED vars
  BY <1>2 DEF Startup, NextProjector, StartWorker, Dispatch, Crash, database, vars
<1>. QED
  BY <1>1, <1>2 DEF Next

\* A step of the worker or of a client leaves the worker running.
LEMMA OtherRuns ==
    ASSUME [Next]_vars, ~Startup, ~Crash
    PROVE  \/ pc # "boot" /\ pc' # "boot"
           \/ UNCHANGED <<pc, replay>>
<1>1. CASE Worker
  BY <1>1 DEF Worker, Take, AnswerAgain, LookupFails, Reject, Fail, Commit, Abort, Adopt,
     Reconcile, Publish, AnswerAccepted, AnswerStorageError, RecordRefusal, AnswerRefused,
     Done
<1>2. CASE (\E c \in Command : Dispatch(c)) \/ UNCHANGED vars
  BY <1>2 DEF Dispatch, vars
<1>. QED
  BY <1>1, <1>2 DEF Next

\* Every step keeps the projections in step with the log.
LEMMA PInvStep ==
    ASSUME "escape" \notin Faults, PInv, [Next]_vars
    PROVE  PInv'
<1>. DEFINE Kept == RowsFollow' /\ Unread'
<1>1. Types'
  BY TypesStep DEF PInv
<1>2. ASSUME ReplayEvent PROVE Kept
  BY <1>2, ReplayStep
<1>3. ASSUME Commit PROVE Kept
  BY <1>3, CommitProjects
<1>4. ASSUME ~ReplayEvent, ~Commit PROVE Kept
  <2>1. UNCHANGED <<log, cursor, rows>>
    BY <1>4, OtherProjects
  <2>2. \A m : Readable(m)' = Readable(m)
    <3>1. \A m : {j \in DOMAIN log' : j > m /\ log'[j].type # "retired"} =
                 {j \in DOMAIN log : j > m /\ log[j].type # "retired"}
      BY <2>1
    <3>. QED
      BY <3>1 DEF Readable
  <2>3. RowsFollow'
    BY <2>1, <2>2 DEF PInv, RowsFollow
  <2>4. ASSUME NextProjector PROVE Unread'
    BY <2>4, NextProjectorStep
  <2>5. ASSUME StartWorker PROVE Unread'
    BY <2>5, StartWorkerStep
  <2>6. ASSUME Crash PROVE Unread'
    <3>1. pc' = "boot" /\ replay' = [projector |-> 1, left |-> ReadLimit]
      BY <2>6 DEF Crash
    <3>2. \A k \in DOMAIN ProjectorOrder : ~(k < 1) /\ ProjectorOrder[k] \in Projector
      BY EngineAssumption DEF Projector
    <3>. QED
      BY <2>1, <2>2, <3>1, <3>2 DEF PInv, Unread
  <2>7. ASSUME ~Startup, ~Crash PROVE Unread'
    <3>1. (pc # "boot" /\ pc' # "boot") \/ UNCHANGED <<pc, replay>>
      BY <2>7, OtherRuns
    <3>. QED
      BY <2>1, <2>2, <3>1 DEF PInv, Unread
  <2>8. Unread'
    BY <1>4, <2>4, <2>5, <2>6, <2>7 DEF Startup
  <2>. QED
    BY <2>3, <2>8
<1>. QED
  BY <1>1, <1>2, <1>3, <1>4 DEF PInv

\* A new server finds each projector caught up, or one read behind.
LEMMA InitPInv ==
    ASSUME FitsOneRead, Init
    PROVE  PInv
<1>1. Types
  BY InitType DEF Init, Types, HasCommand, OutboxInLog
<1>2. PICK new \in SUBSET Behind, all \in Ascending(Readable(0)) :
        /\ cursor = [p \in Projector |-> IF p \in new THEN 0 ELSE Len(log)]
        /\ rows = [p \in Projector |-> IF p \in new THEN <<>> ELSE all]
  BY DEF Init
<1>3. /\ TypeOK
      /\ Len(log) \in Nat /\ DOMAIN log = 1..Len(log)
      /\ Readable(0) \in SUBSET (1..Len(log)) /\ Readable(Len(log)) = {}
  BY <1>1, ReadableType, ReadableSplit DEF Types
<1>4. ReadLimit \in Nat /\ Cardinality({}) = 0
  BY EngineAssumption, FS_EmptySet
<1>5. ASSUME NEW p \in Projector
      PROVE  /\ rows[p] \in Ascending({i \in Readable(0) : i <= cursor[p]})
             /\ Cardinality(Readable(cursor[p])) <= ReadLimit
  <2>1. CASE p \in new
    <3>1. rows[p] = <<>> /\ cursor[p] = 0
      BY <2>1, <1>2
    <3>2. {i \in Readable(0) : i <= 0} = {}
      BY <1>3
    <3>3. <<>> \in Ascending({})
      BY <1>4 DEF Ascending
    <3>4. Readable(0) = {i \in DOMAIN log : log[i].type # "retired"}
      BY <1>3 DEF Readable
    <3>5. Cardinality(Readable(0)) <= ReadLimit
      <4>1. log \in Histories /\ Behind # {}
        BY <2>1, <1>2 DEF Init
      <4>. QED
        BY <3>4, <4>1 DEF FitsOneRead
    <3>. QED
      BY <3>1, <3>2, <3>3, <3>5
  <2>2. CASE p \notin new
    <3>1. rows[p] = all /\ cursor[p] = Len(log)
      BY <2>2, <1>2
    <3>2. {i \in Readable(0) : i <= Len(log)} = Readable(0)
      BY <1>3
    <3>3. all \in Ascending(Readable(0))
      BY <1>2
    <3>4. rows[p] \in Ascending({i \in Readable(0) : i <= cursor[p]})
      BY <3>1, <3>2, <3>3
    <3>5. Readable(cursor[p]) = {}
      BY <3>1, <1>3
    <3>. QED
      BY <3>4, <3>5, <1>4
  <2>. QED
    BY <2>1, <2>2
<1>6. RowsFollow
  BY <1>5 DEF RowsFollow
<1>7. Unread
  <2>1. pc = "boot" /\ replay = [projector |-> 1, left |-> ReadLimit]
    BY DEF Init
  <2>2. \A k \in DOMAIN ProjectorOrder : ~(k < 1) /\ ProjectorOrder[k] \in Projector
    BY EngineAssumption DEF Projector
  <2>3. replay.projector = 1 /\ replay.left = ReadLimit
    BY <2>1
  <2>4. \A k \in DOMAIN ProjectorOrder :
          Cardinality(Readable(cursor[ProjectorOrder[k]])) <= replay.left
    BY <2>2, <2>3, <1>5
  <2>5. \A k \in DOMAIN ProjectorOrder : ~(k < replay.projector)
    BY <2>2, <2>3
  <2>6. \A p \in Projector : Cardinality(Readable(cursor[p])) <= ReadLimit
    BY <1>5
  <2>7. replay.projector # 0 /\ pc = "boot"
    BY <2>1
  <2>. QED
    BY ONLY <2>4, <2>5, <2>6, <2>7 DEF Unread
<1>. QED
  BY <1>1, <1>6, <1>7 DEF PInv

\* Once the worker runs, each projector has applied every event there is, each
\* once and in order, through crashes and upgrades that add a projector, provided
\* a new projector can read the log in one read and no append escapes a rollback
\* (ProjectionPipeline.ts: bootstrapProjector, projectEvent).
THEOREM SpecProjectionsExact ==
    ASSUME "escape" \notin Faults, FitsOneRead
    PROVE  Spec => []ProjectionsExact
<1>1. Init => PInv
  BY InitPInv
<1>2. PInv /\ [Next]_vars => PInv'
  BY PInvStep
<1>3. PInv => ProjectionsExact
  <2>. SUFFICES ASSUME PInv, pc # "boot", NEW p \in Projector
                PROVE  rows[p] \in Ascending(Readable(0))
    BY DEF ProjectionsExact
  <2>1. TypeOK
    BY DEF PInv, Types
  <2>2. PICK n \in Nat : n = cursor[p]
    BY <2>1 DEF TypeOK
  <2>3. Readable(n) = {} /\ rows[p] \in Ascending({i \in Readable(0) : i <= n})
    BY <2>2 DEF PInv, Unread, RowsFollow
  <2>. QED
    BY <2>1, <2>3, ReadableSplit
<1>. QED
  BY <1>1, <1>2, <1>3, PTL DEF Spec

-----------------------------------------------------------------------------
(* The read model and the subscribers *)

\* One read reaches every event of a batch.
BatchesFit == \A c \in Command : Len(Batch(c)) <= ReadLimit

\* There is one way to enumerate consecutive numbers.
LEMMA Consecutive ==
    ASSUME NEW n \in Nat, NEW m \in Nat, n <= m, NEW s \in Ascending((n + 1)..m)
    PROVE  s = Numbers(n, m)
<1>. DEFINE d == m - n
<1>1. Cardinality((n + 1)..m) = d /\ d \in Nat
  <2>1. n + 1 \in Int /\ m \in Int /\ (IF n + 1 > m THEN 0 ELSE m - (n + 1) + 1) = d
    OBVIOUS
  <2>2. d \in Nat
    OBVIOUS
  <2>. HIDE DEF d
  <2>3. Cardinality((n + 1)..m) = d
    BY <2>1, FS_Interval
  <2>. QED
    BY <2>2, <2>3
<1>2. s \in [1..d -> (n + 1)..m] /\ \A i, j \in 1..d : i < j => s[i] < s[j]
  BY <1>1 DEF Ascending
<1>3. \A i \in 1..d : s[i] \in Nat /\ n + 1 <= s[i] /\ s[i] <= n + d
  BY <1>2
<1>. HIDE DEF d
<1>4. \A i \in 1..d : s[i] >= n + i
  <2>. DEFINE Low == {i \in 1..d : s[i] < n + i}
  <2>. SUFFICES ASSUME Low # {} PROVE FALSE
    BY <1>3
  <2>1. Low \in SUBSET Nat
    BY <1>1
  <2>2. PICK i \in Low : \A j \in Low : i <= j
    <3>. HIDE DEF Low
    <3>. QED
      BY <2>1, LeastNumber
  <2>3. i \in 1..d /\ s[i] < n + i /\ i # 1
    BY <1>1, <1>3
  <2>4. i - 1 \in 1..d /\ i - 1 < i /\ i - 1 \notin Low
    BY <1>1, <2>2, <2>3
  <2>5. s[i - 1] >= n + (i - 1) /\ s[i - 1] < s[i]
    BY <1>2, <1>3, <2>3, <2>4
  <2>. QED
    BY <1>3, <2>3, <2>4, <2>5
<1>5. \A i \in 1..d : s[i] <= n + i
  <2>. DEFINE High == {i \in 1..d : s[i] > n + i}
  <2>. SUFFICES ASSUME High # {} PROVE FALSE
    BY <1>3
  <2>1. High \in SUBSET (1..d)
    OBVIOUS
  <2>2. PICK i \in High : \A j \in High : j <= i
    <3>. HIDE DEF High
    <3>. QED
      BY <1>1, <2>1, GreatestNumber
  <2>3. i \in 1..d /\ s[i] > n + i /\ i # d
    BY <1>1, <1>3
  <2>4. i + 1 \in 1..d /\ i < i + 1 /\ i + 1 \notin High
    BY <1>1, <2>2, <2>3
  <2>5. s[i + 1] <= n + (i + 1) /\ s[i] < s[i + 1]
    BY <1>2, <1>3, <2>3, <2>4
  <2>. QED
    BY <1>3, <2>3, <2>4, <2>5
<1>6. \A i \in 1..d : s[i] = n + i
  <2>1. ASSUME NEW i \in 1..d
        PROVE  s[i] = n + i
    <3>1. s[i] \in Nat /\ s[i] >= n + i /\ s[i] <= n + i /\ i \in Nat
      BY <1>1, <1>3, <1>4, <1>5
    <3>. QED
      BY <3>1
  <2>. QED
    BY <2>1
<1>7. s = [i \in 1..d |-> n + i]
  BY <1>2, <1>6
<1>. QED
  BY <1>7 DEF Numbers, d

\* Sequences of one length with the same elements are the same.
LEMMA SameSequence ==
    ASSUME NEW s \in Seq(Nat), NEW t \in Seq(Nat), Len(s) = Len(t),
           \A i \in 1..Len(s) : s[i] = t[i]
    PROVE  s = t
OBVIOUS

\* The numbers up to k and those after k.
LEMMA NumbersJoin ==
    ASSUME NEW n \in Nat, NEW k \in Nat, NEW m \in Nat, n <= k, k <= m
    PROVE  Numbers(n, k) \o Numbers(k, m) = Numbers(n, m)
<1>. DEFINE a == Numbers(n, k)
            b == Numbers(k, m)
            c == Numbers(n, m)
<1>1. /\ a \in Seq(Nat) /\ Len(a) = k - n /\ \A i \in 1..(k - n) : a[i] = n + i
      /\ b \in Seq(Nat) /\ Len(b) = m - k /\ \A i \in 1..(m - k) : b[i] = k + i
      /\ c \in Seq(Nat) /\ Len(c) = m - n /\ \A i \in 1..(m - n) : c[i] = n + i
  <2>1. n <= m
    OBVIOUS
  <2>. QED
    BY <2>1, NumbersAt
<1>. HIDE DEF a, b, c
<1>2. /\ a \o b \in Seq(Nat) /\ Len(a \o b) = m - n
      /\ \A i \in 1..(k - n) : (a \o b)[i] = a[i]
      /\ \A i \in 1..(m - k) : (a \o b)[(k - n) + i] = b[i]
  BY <1>1
<1>3. ASSUME NEW i \in 1..(m - n)
      PROVE  (a \o b)[i] = c[i]
  <2>1. CASE i \in 1..(k - n)
    BY <2>1, <1>1, <1>2
  <2>2. CASE i \notin 1..(k - n)
    <3>1. PICK j \in 1..(m - k) : i = (k - n) + j
      <4>1. i - (k - n) \in 1..(m - k) /\ i = (k - n) + (i - (k - n))
        BY <2>2
      <4>. QED
        BY <4>1
    <3>2. (a \o b)[i] = k + j /\ c[i] = n + ((k - n) + j)
      BY <3>1, <1>1, <1>2
    <3>. QED
      BY <3>2
  <2>. QED
    BY <2>1, <2>2
<1>4. a \o b = c
  <2>. DEFINE ab == a \o b
  <2>1. ab \in Seq(Nat) /\ c \in Seq(Nat) /\ Len(ab) = Len(c)
    BY <1>1, <1>2
  <2>2. \A i \in 1..Len(ab) : ab[i] = c[i]
    BY <1>2, <1>3
  <2>. HIDE DEF ab
  <2>3. ab = c
    BY <2>1, <2>2, SameSequence
  <2>. QED
    BY <2>3 DEF ab
<1>. QED
  BY <1>4 DEF a, b, c

\* No numbers follow n up to n.
LEMMA NumbersNone ==
    ASSUME NEW n \in Nat
    PROVE  Numbers(n, n) = <<>>
<1>1. Numbers(n, n) \in Seq(Nat) /\ Len(Numbers(n, n)) = n - n
  BY NumbersAt
<1>. QED
  BY <1>1

\* Moving the first of one sequence to the end of another.
LEMMA MoveHead ==
    ASSUME NEW s \in Seq(Nat), NEW t \in Seq(Nat), t # <<>>
    PROVE  Append(s, Head(t)) \o Tail(t) = s \o t
OBVIOUS

\* An element above the others is the greatest.
LEMMA GreatestIs ==
    ASSUME NEW S \in SUBSET Nat, NEW x \in S, \A y \in S : y <= x
    PROVE  Greatest(S) = x
<1>1. \A z \in S : (\A y \in S : y <= z) => z = x
  <2>1. ASSUME NEW z \in S, \A y \in S : y <= z
        PROVE  z = x
    <3>1. x <= z /\ z <= x /\ x \in Nat /\ z \in Nat
      BY <2>1
    <3>. QED
      BY <3>1
  <2>. QED
    BY <2>1
<1>. QED
  BY <1>1 DEF Greatest

\* The readable events that a read model has seen.
SeenTo(n) == {i \in Readable(0) : i <= n}

\* The read model is the projection of a prefix of the log.
ModelIsPrefix == model = Projected(EmptyReadModel, log, SeenTo(model.sequence))

\* The projection of the whole log has seen everything.
LEMMA ProjectionSeesAll ==
    ASSUME TypeOK, NEW m, m = Projected(EmptyReadModel, log, Readable(0))
    PROVE  m.sequence \in Nat /\ Readable(m.sequence) = {} /\ SeenTo(m.sequence) = Readable(0)
<1>1. /\ Len(log) \in Nat /\ DOMAIN log = 1..Len(log)
      /\ Readable(0) \in SUBSET (1..Len(log))
  BY ReadableType
<1>2. CASE Readable(0) = {}
  <2>1. m.sequence = 0
    BY <1>2 DEF Projected, EmptyReadModel
  <2>. QED
    BY <2>1, <1>2 DEF SeenTo
<1>3. CASE Readable(0) # {}
  <2>1. m.sequence = Greatest(Readable(0))
    BY <1>3 DEF Projected
  <2>2. PICK x \in Readable(0) : \A y \in Readable(0) : y <= x
    BY <1>1, <1>3, GreatestNumber
  <2>3. Readable(0) \in SUBSET Nat
    BY <1>1
  <2>4. m.sequence = x
    BY <2>1, <2>2, <2>3, GreatestIs
  <2>5. x \in Nat
    BY <2>3
  <2>6. \A i \in Readable(x) : i \in Readable(0) /\ i > x
    BY <1>1, <2>5 DEF Readable
  <2>7. Readable(x) = {}
    <3>1. ASSUME NEW i \in Readable(x)
          PROVE  FALSE
      <4>1. i \in Nat /\ i <= x /\ i > x
        BY <2>2, <2>3, <2>6
      <4>. QED
        BY <4>1, <2>5
    <3>. QED
      BY <3>1
  <2>8. SeenTo(x) = Readable(0)
    BY <2>2 DEF SeenTo
  <2>. QED
    BY <2>4, <2>5, <2>7, <2>8
<1>. QED
  BY <1>2, <1>3

\* A read model that is the projection of a prefix has seen nothing past the log.
LEMMA PrefixBound ==
    ASSUME TypeOK, ModelIsPrefix
    PROVE  model.sequence \in Nat /\ model.sequence <= Len(log)
<1>1. /\ Len(log) \in Nat /\ SeenTo(model.sequence) \in SUBSET (1..Len(log))
  BY ReadableType DEF SeenTo
<1>2. model.sequence \in Nat
  BY DEF TypeOK
<1>3. CASE SeenTo(model.sequence) = {}
  BY <1>3, <1>1 DEF ModelIsPrefix, Projected, EmptyReadModel
<1>4. CASE SeenTo(model.sequence) # {}
  <2>1. model.sequence = Greatest(SeenTo(model.sequence))
    BY <1>4 DEF ModelIsPrefix, Projected
  <2>2. Greatest(SeenTo(model.sequence)) \in SeenTo(model.sequence)
    BY <1>1, <1>4, GreatestType
  <2>. QED
    BY <1>1, <1>2, <2>1, <2>2
<1>. QED
  BY <1>2, <1>3, <1>4

\* Adopting the rest of the log makes the read model current.
LEMMA AdoptRest ==
    ASSUME TypeOK, ModelIsPrefix
    PROVE  Projected(model, log, Readable(model.sequence)) =
             Projected(EmptyReadModel, log, Readable(0))
<1>. DEFINE S == SeenTo(model.sequence)
            R == Readable(model.sequence)
            A == Readable(0)
<1>1. model.sequence \in Nat /\ model.sequence <= Len(log)
  BY PrefixBound
<1>2. /\ Len(log) \in Nat /\ A \in SUBSET (1..Len(log)) /\ R \in SUBSET (1..Len(log))
      /\ \A i \in R : i > model.sequence
  BY <1>1, ReadableType
<1>3. A = S \cup R /\ (R = {} => S = A)
  BY <1>1, ReadableSplit DEF SeenTo
<1>4. \A i \in S : i <= model.sequence
  BY DEF SeenTo
<1>5. model = Projected(EmptyReadModel, log, S)
  BY DEF ModelIsPrefix
<1>. HIDE DEF S, R, A
<1>6. model.known = CreatedBy(log, S)
  <2>1. CASE S = {}
    BY <2>1, <1>5 DEF Projected, EmptyReadModel, CreatedBy
  <2>2. CASE S # {}
    BY <2>2, <1>5 DEF Projected, EmptyReadModel
  <2>. QED
    BY <2>1, <2>2
<1>7. CASE R = {}
  <2>1. Projected(model, log, R) = model
    BY <1>7 DEF Projected
  <2>. QED
    BY <2>1, <1>3, <1>5, <1>7 DEF R, A
<1>8. CASE R # {}
  <2>1. PICK x \in R : \A y \in R : y <= x
    BY <1>2, <1>8, GreatestNumber
  <2>2. R \in SUBSET Nat /\ A \in SUBSET Nat /\ x \in A
    BY <1>2, <1>3
  <2>3. \A y \in A : y <= x
    BY <1>1, <1>2, <1>3, <1>4, <2>1, <2>2
  <2>4. Greatest(R) = x
    BY <2>1, <2>2, GreatestIs
  <2>5. Greatest(A) = x
    BY <2>2, <2>3, GreatestIs
  <2>6. model.known \cup CreatedBy(log, R) = CreatedBy(log, A)
    BY <1>3, <1>6, CreatedByUnion
  <2>7. A # {}
    BY <2>2
  <2>8. Projected(model, log, R) = [sequence |-> x, known |-> CreatedBy(log, A)]
    BY <1>8, <2>4, <2>6 DEF Projected
  <2>9. Projected(EmptyReadModel, log, A) = [sequence |-> x, known |-> CreatedBy(log, A)]
    BY <2>5, <2>7 DEF Projected, EmptyReadModel
  <2>. QED
    BY <2>8, <2>9 DEF R, A
<1>. QED
  BY <1>7, <1>8 DEF R, A

\* A read model stays the projection of a prefix when the log grows.
LEMMA PrefixGrows ==
    ASSUME TypeOK, ModelIsPrefix, UNCHANGED model, NEW n, Gains(n)
    PROVE  /\ ModelIsPrefix'
           /\ Readable(model.sequence)' =
                Readable(model.sequence) \cup (Len(log) + 1)..Len(log')
<1>1. PICK q \in Nat : q = model.sequence /\ q <= Len(log)
  BY PrefixBound
<1>2. model'.sequence = q
  BY <1>1
<1>3. /\ Len(log) \in Nat /\ Len(log') \in Nat /\ DOMAIN log = 1..Len(log)
      /\ Readable(0) \in SUBSET (1..Len(log))
      /\ \A i \in 1..Len(log) : log'[i] = log[i]
  BY ReadableType DEF Gains
<1>4. Readable(0)' = Readable(0) \cup (Len(log) + 1)..Len(log')
  <2>1. 0 \in Nat /\ 0 <= Len(log)
    BY <1>3
  <2>. QED
    BY <2>1, ReadableGains
<1>5. Readable(q)' = Readable(q) \cup (Len(log) + 1)..Len(log')
  BY <1>1, ReadableGains
<1>6. {i \in Readable(0)' : i <= q} = {i \in Readable(0) : i <= q}
  <2>1. \A i \in (Len(log) + 1)..Len(log') : ~(i <= q)
    BY <1>1, <1>3
  <2>. QED
    BY <2>1, <1>4
<1>. DEFINE S == {i \in Readable(0) : i <= q}
<1>7. CreatedBy(log', S) = CreatedBy(log, S)
  <2>1. \A i \in S : log[i] = log'[i]
    BY <1>3
  <2>. QED
    BY <2>1, CreatedByAgree
<1>8. Projected(EmptyReadModel, log', S) = Projected(EmptyReadModel, log, S)
  BY <1>7 DEF Projected
<1>9. ModelIsPrefix'
  <2>1. model = Projected(EmptyReadModel, log, S)
    BY <1>1 DEF ModelIsPrefix, SeenTo
  <2>2. SeenTo(model.sequence)' = S
    BY <1>2, <1>6 DEF SeenTo
  <2>3. EmptyReadModel' = EmptyReadModel
    BY DEF EmptyReadModel
  <2>. QED
    BY <2>1, <2>2, <2>3, <1>8 DEF ModelIsPrefix, Projected
<1>10. Readable(model.sequence)' = Readable(q)'
  BY <1>2 DEF Readable
<1>. QED
  BY <1>1, <1>5, <1>9, <1>10


\* n is how far subscribers have been told; the rest is in one read's reach.
Fresh(n) ==
    /\ published = Numbers(boot, n)
    /\ Readable(model.sequence) = (n + 1)..Len(log)
    /\ Len(log) - n <= ReadLimit

\* The worker and its subscribers have everything the log has.
Told ==
    /\ Readable(model.sequence) = {}
    /\ published \o outbox = Numbers(boot, Len(log))

\* What memory and the subscribers lack is what the command in hand has appended.
MemoryFollows ==
    /\ pc = "boot" => published = <<>>
    /\ pc # "boot" => ModelIsPrefix /\ boot <= Len(log)
    /\ pc \notin {"adopt", "publish"} => outbox = <<>>
    /\ pc \in {"decide", "failed"} => start = model.sequence
    /\ pc \in {"idle", "decide", "publish", "refused"} => Told
    /\ pc = "adopt" => \E n \in boot..Len(log) : Fresh(n) /\ outbox = Numbers(n, Len(log))
    /\ pc = "failed" => \E n \in boot..Len(log) : Fresh(n)

MInv == Types /\ MemoryFollows

\* The same log and read model, and the same events published and to publish.
LEMMA MemorySame ==
    ASSUME MInv, UNCHANGED <<log, model, boot, published, outbox>>
    PROVE  /\ ModelIsPrefix' <=> ModelIsPrefix
           /\ Told' <=> Told
           /\ boot' <= Len(log') <=> boot <= Len(log)
<1>1. \A m : Readable(m)' = Readable(m)
  <2>1. \A m : {j \in DOMAIN log' : j > m /\ log'[j].type # "retired"} =
               {j \in DOMAIN log : j > m /\ log[j].type # "retired"}
    OBVIOUS
  <2>. QED
    BY <2>1 DEF Readable
<1>2. ModelIsPrefix' <=> ModelIsPrefix
  BY DEF ModelIsPrefix, SeenTo, Readable, EmptyReadModel
<1>3. Told' <=> Told
  BY <1>1 DEF Told
<1>. QED
  BY <1>2, <1>3

\* The worker starts with the projection of the log, and nobody to tell.
LEMMA StartRemembers ==
    ASSUME MInv, StartWorker
    PROVE  MemoryFollows'
<1>. USE DEF MInv, Types
<1>1. /\ model' = Projected(EmptyReadModel, log, Readable(0))
      /\ boot' = Len(log) /\ pc' = "idle" /\ UNCHANGED <<log, published, outbox>>
      /\ published = <<>> /\ outbox = <<>> /\ Len(log) \in Nat
  BY DEF StartWorker, database, MemoryFollows, TypeOK
<1>2. PICK m : m = model'
  OBVIOUS
<1>3. m.sequence \in Nat /\ Readable(m.sequence) = {} /\ SeenTo(m.sequence) = Readable(0)
  BY <1>1, <1>2, ProjectionSeesAll
<1>4. \A k : Readable(k)' = Readable(k)
  <2>1. \A k : {j \in DOMAIN log' : j > k /\ log'[j].type # "retired"} =
               {j \in DOMAIN log : j > k /\ log[j].type # "retired"}
    BY <1>1
  <2>. QED
    BY <2>1 DEF Readable
<1>5. ModelIsPrefix'
  <2>1. SeenTo(model.sequence)' = Readable(0)
    <3>1. {i \in Readable(0)' : i <= m.sequence} = {i \in Readable(0) : i <= m.sequence}
      BY <1>4
    <3>. QED
      BY <3>1, <1>2, <1>3 DEF SeenTo
  <2>2. m = Projected(EmptyReadModel, log, Readable(0))
    BY <1>1, <1>2
  <2>3. Projected(EmptyReadModel, log', Readable(0)) = Projected(EmptyReadModel, log, Readable(0))
    BY <1>1
  <2>. QED
    BY <2>1, <2>2, <2>3, <1>2 DEF ModelIsPrefix, EmptyReadModel, Projected
<1>6. Told'
  <2>1. Numbers(Len(log), Len(log)) = <<>>
    BY <1>1, NumbersNone
  <2>2. published' \o outbox' = <<>> \o <<>> /\ Numbers(boot', Len(log')) = <<>>
    BY <1>1, <2>1
  <2>3. published' \o outbox' = Numbers(boot', Len(log'))
    BY <2>2
  <2>4. Readable(model.sequence)' = {}
    BY <1>2, <1>3, <1>4
  <2>. QED
    BY <2>3, <2>4 DEF Told
<1>7. boot' <= Len(log')
  BY <1>1
<1>. QED
  BY <1>1, <1>5, <1>6, <1>7 DEF MemoryFollows

\* A commit's events, and those that escape an abort, are still to be adopted.
LEMMA TransactionRemembers ==
    ASSUME BatchesFit, MInv, Commit \/ Abort
    PROVE  MemoryFollows'
<1>. USE DEF MInv, Types
<1>1. current \in Command /\ Gains(Len(Batch(current)))
  BY TransactionGains
<1>2. /\ pc = "decide" /\ UNCHANGED <<model, start, boot, published>>
      /\ outbox = <<>> /\ start = model.sequence /\ Told /\ ModelIsPrefix /\ boot <= Len(log)
  BY DEF Commit, Abort, Fail, MemoryFollows
<1>3. PICK n \in Nat : n = Len(log)
  BY DEF TypeOK
<1>4. boot \in Nat /\ n \in boot..Len(log') /\ Len(log') - n <= ReadLimit
  <2>1. Len(Batch(current)) \in 1..2 /\ Len(Batch(current)) <= ReadLimit
    BY <1>1, BatchType DEF BatchesFit
  <2>2. boot \in Nat /\ ReadLimit \in Nat
    BY EngineAssumption DEF TypeOK
  <2>3. /\ Len(log') \in Nat /\ Len(log) <= Len(log')
        /\ Len(log') - Len(log) <= Len(Batch(current))
    BY <1>1 DEF Gains
  <2>. QED
    BY <2>1, <2>2, <2>3, <1>2, <1>3
<1>5. published = Numbers(boot, n)
  <2>1. published \o <<>> = published
    BY DEF TypeOK
  <2>. QED
    BY <2>1, <1>2, <1>3 DEF Told
<1>6. ModelIsPrefix' /\ Readable(model.sequence)' = (n + 1)..Len(log')
  <2>1. Readable(model.sequence) = {}
    BY <1>2 DEF Told
  <2>2. PICK k : Gains(k)
    BY <1>1
  <2>3. /\ ModelIsPrefix'
        /\ Readable(model.sequence)' = Readable(model.sequence) \cup (Len(log) + 1)..Len(log')
    BY <1>2, <2>2, PrefixGrows
  <2>. QED
    BY <2>1, <2>3, <1>3
<1>7. Fresh(n)'
  BY <1>2, <1>4, <1>5, <1>6 DEF Fresh
<1>8. boot' <= Len(log')
  BY <1>2, <1>4
<1>9. \E k \in (boot..Len(log))' : Fresh(k)'
  BY <1>2, <1>4, <1>7
<1>10. CASE Commit
  <2>1. pc' = "adopt" /\ outbox' = Numbers(n, Len(log'))
    BY <1>10, <1>3 DEF Commit, Appended
  <2>. QED
    BY <2>1, <1>2, <1>4, <1>6, <1>7, <1>8 DEF MemoryFollows
<1>11. CASE Abort
  <2>1. pc' = "failed" /\ outbox' = <<>>
    BY <1>11, <1>2 DEF Abort, Fail
  <2>2. start' = model'.sequence
    BY <1>2
  <2>. QED
    BY <2>1, <2>2, <1>6, <1>8, <1>9 DEF MemoryFollows
<1>. QED
  BY <1>10, <1>11

\* What reconciliation reads is all that was appended.
LEMMA ReconcilesAll ==
    ASSUME TypeOK, NEW n \in Nat, Readable(start) = (n + 1)..Len(log), n <= Len(log),
           Len(log) - n <= ReadLimit
    PROVE  ToReconcile = Readable(start)
<1>. DEFINE R == Readable(start)
<1>1. Len(log) \in Nat /\ R \in SUBSET (1..Len(log)) /\ ReadLimit \in Nat
  <2>1. start \in Nat
    BY DEF TypeOK
  <2>. QED
    BY <2>1, ReadableType, EngineAssumption
<1>2. IsFiniteSet(R) /\ Cardinality(R) \in Nat
  BY <1>1, SequenceNumbersFinite
<1>3. Cardinality(R) <= ReadLimit
  <2>1. Cardinality((n + 1)..Len(log)) = Len(log) - n
    <3>. DEFINE m == Len(log)
    <3>1. n + 1 \in Int /\ m \in Int /\ (IF n + 1 > m THEN 0 ELSE m - (n + 1) + 1) = m - n
      BY <1>1
    <3>. HIDE DEF m
    <3>2. Cardinality((n + 1)..m) = m - n
      BY <3>1, FS_Interval
    <3>. QED
      BY <3>2 DEF m
  <2>. QED
    BY <2>1
<1>. HIDE DEF R
<1>4. ASSUME NEW i \in R
      PROVE  Cardinality({j \in R : j < i}) < ReadLimit
  <2>. DEFINE S == {j \in R : j < i}
  <2>1. S \in SUBSET (R \ {i})
    BY <1>1
  <2>2. IsFiniteSet(R \ {i}) /\ Cardinality(R \ {i}) = Cardinality(R) - 1
    BY <1>2, FS_RemoveElement
  <2>. HIDE DEF S
  <2>3. IsFiniteSet(S) /\ Cardinality(S) <= Cardinality(R \ {i})
    BY <2>1, <2>2, FS_Subset
  <2>4. Cardinality(S) \in Nat
    BY <2>3, FS_CardinalityType
  <2>5. Cardinality(S) < ReadLimit
    BY <2>2, <2>3, <2>4, <1>1, <1>2, <1>3
  <2>. QED
    BY <2>5 DEF S
<1>5. ToReconcile = {i \in R : Cardinality({j \in R : j < i}) < ReadLimit}
  BY DEF ToReconcile, R
<1>. QED
  BY <1>4, <1>5 DEF R

\* Adopting what was appended brings memory and subscribers up to the log.
LEMMA AdoptionRemembers ==
    ASSUME "reconcile" \notin Faults, MInv, Adopt \/ Reconcile
    PROVE  MemoryFollows'
<1>. USE DEF MInv, Types
<1>1. PICK n \in boot..Len(log) : Fresh(n) /\ (pc = "adopt" => outbox = Numbers(n, Len(log)))
  BY DEF Adopt, Reconcile, MemoryFollows
<1>2. /\ boot \in Nat /\ Len(log) \in Nat /\ n \in Nat /\ n <= Len(log) /\ boot <= n
      /\ ModelIsPrefix
  <2>1. boot \in Nat /\ Len(log) \in Nat
    BY DEF TypeOK
  <2>2. ModelIsPrefix
    BY DEF MemoryFollows, Adopt, Reconcile
  <2>. QED
    BY <2>1, <2>2
<1>3. /\ pc' = "publish" /\ UNCHANGED <<log, boot, published>>
  BY DEF Adopt, Reconcile, database
<1>4. model' = Projected(model, log, Readable(model.sequence)) /\ outbox' = Numbers(n, Len(log))
  <2>1. Readable(model.sequence) = (n + 1)..Len(log)
    BY <1>1 DEF Fresh
  <2>2. CASE Adopt
    <3>1. outbox = Numbers(n, Len(log)) /\ UNCHANGED outbox
      BY <2>2, <1>1 DEF Adopt
    <3>2. {Numbers(n, Len(log))[i] : i \in DOMAIN Numbers(n, Len(log))} = (n + 1)..Len(log)
      BY <1>2, NumbersType
    <3>3. {outbox[i] : i \in DOMAIN outbox} = (n + 1)..Len(log)
      BY <3>1, <3>2
    <3>. QED
      BY <2>1, <2>2, <3>1, <3>3 DEF Adopt
  <2>3. CASE Reconcile
    <3>1. start = model.sequence
      BY <2>3 DEF Reconcile, MemoryFollows
    <3>2. Readable(start) = (n + 1)..Len(log) /\ Len(log) - n <= ReadLimit
      BY <3>1, <2>1, <1>1 DEF Fresh
    <3>3. ToReconcile = Readable(start)
      BY <3>2, <1>2, ReconcilesAll
    <3>4. model' = Projected(model, log, ToReconcile) /\ outbox' \in Ascending(ToReconcile)
      BY <2>3 DEF Reconcile
    <3>5. outbox' \in Ascending((n + 1)..Len(log))
      BY <3>2, <3>3, <3>4
    <3>6. outbox' = Numbers(n, Len(log))
      BY <3>5, <1>2, Consecutive
    <3>. QED
      BY <3>1, <3>3, <3>4, <3>6
  <2>. QED
    BY <2>2, <2>3
<1>5. model' = Projected(EmptyReadModel, log, Readable(0))
  BY <1>2, <1>4, AdoptRest
<1>6. PICK m : m = model'
  OBVIOUS
<1>7. m.sequence \in Nat /\ Readable(m.sequence) = {} /\ SeenTo(m.sequence) = Readable(0)
  BY <1>5, <1>6, ProjectionSeesAll
<1>8. \A k : Readable(k)' = Readable(k)
  <2>1. \A k : {j \in DOMAIN log' : j > k /\ log'[j].type # "retired"} =
               {j \in DOMAIN log : j > k /\ log[j].type # "retired"}
    BY <1>3
  <2>. QED
    BY <2>1 DEF Readable
<1>9. ModelIsPrefix'
  <2>1. SeenTo(model.sequence)' = Readable(0)
    <3>1. {i \in Readable(0)' : i <= m.sequence} = {i \in Readable(0) : i <= m.sequence}
      BY <1>8
    <3>. QED
      BY <3>1, <1>6, <1>7 DEF SeenTo
  <2>2. m = Projected(EmptyReadModel, log, Readable(0))
    BY <1>5, <1>6
  <2>3. Projected(EmptyReadModel, log', Readable(0)) = Projected(EmptyReadModel, log, Readable(0))
    BY <1>3
  <2>. QED
    BY <2>1, <2>2, <2>3, <1>6 DEF ModelIsPrefix, EmptyReadModel, Projected
<1>10. Told'
  <2>1. published' \o outbox' = Numbers(boot', Len(log'))
    <3>1. published = Numbers(boot, n)
      BY <1>1 DEF Fresh
    <3>2. Numbers(boot, n) \o Numbers(n, Len(log)) = Numbers(boot, Len(log))
      BY <1>2, NumbersJoin
    <3>. QED
      BY <3>1, <3>2, <1>3, <1>4
  <2>2. Readable(model.sequence)' = {}
    BY <1>6, <1>7, <1>8
  <2>. QED
    BY <2>1, <2>2 DEF Told
<1>11. boot' <= Len(log')
  BY <1>2, <1>3
<1>. QED
  BY <1>3, <1>9, <1>10, <1>11 DEF MemoryFollows

\* A failure that appends nothing leaves nothing to reconcile.
LEMMA FailureRemembers ==
    ASSUME MInv, LookupFails \/ Reject
    PROVE  MemoryFollows'
<1>. USE DEF MInv, Types
<1>1. /\ pc = "decide" /\ pc' = "failed"
      /\ UNCHANGED <<log, model, start, boot, published, outbox>>
  BY DEF LookupFails, Reject, Fail
<1>2. /\ ModelIsPrefix /\ boot <= Len(log) /\ outbox = <<>> /\ start = model.sequence /\ Told
  BY <1>1 DEF MemoryFollows
<1>3. ModelIsPrefix' /\ boot' <= Len(log') /\ Told'
  BY <1>1, <1>2, MemorySame
<1>4. boot \in Nat /\ Len(log) \in Nat /\ ReadLimit \in Nat
  BY EngineAssumption DEF TypeOK
<1>5. Fresh(Len(log))'
  <2>1. published' = Numbers(boot', Len(log'))
    <3>1. published \o <<>> = published
      BY DEF TypeOK
    <3>. QED
      BY <3>1, <1>1, <1>2 DEF Told
  <2>2. (Len(log) + 1)..Len(log) = {} /\ Len(log) - Len(log) <= ReadLimit
    BY <1>4
  <2>3. Readable(model.sequence)' = {}
    BY <1>3 DEF Told
  <2>. QED
    BY <2>1, <2>2, <2>3, <1>1 DEF Fresh
<1>6. Len(log') \in boot'..Len(log')
  BY <1>1, <1>2, <1>4
<1>7. \E n \in boot'..Len(log') : Fresh(n)'
  <2>1. PICK n : n = Len(log')
    OBVIOUS
  <2>2. Fresh(n)'
    BY <2>1, <1>1, <1>5 DEF Fresh
  <2>. QED
    BY <2>1, <2>2, <1>6
<1>. QED
  BY <1>1, <1>2, <1>3, <1>7 DEF MemoryFollows

\* Publishing moves an event from what is to be published to what was.
LEMMA PublishRemembers ==
    ASSUME MInv, Publish
    PROVE  MemoryFollows'
<1>. USE DEF MInv, Types
<1>1. /\ pc = "publish" /\ UNCHANGED <<pc, log, model, boot>>
      /\ outbox # <<>> /\ published' = Append(published, Head(outbox)) /\ outbox' = Tail(outbox)
  BY DEF Publish, database
<1>2. ModelIsPrefix /\ boot <= Len(log) /\ Told
  BY <1>1 DEF MemoryFollows
<1>3. published' \o outbox' = published \o outbox
  BY <1>1, MoveHead DEF TypeOK
<1>4. Told'
  BY <1>1, <1>2, <1>3 DEF Told, Readable
<1>5. ModelIsPrefix'
  BY <1>1, <1>2 DEF ModelIsPrefix, SeenTo, Readable, EmptyReadModel
<1>. QED
  BY <1>1, <1>2, <1>4, <1>5 DEF MemoryFollows

\* Every step keeps memory and subscribers in step with the log.
LEMMA MInvStep ==
    ASSUME "reconcile" \notin Faults, BatchesFit, MInv, [Next]_vars
    PROVE  MInv'
<1>. DEFINE Kept == MemoryFollows'
<1>1. Types'
  BY TypesStep DEF MInv
<1>2. ASSUME StartWorker PROVE Kept
  BY <1>2, StartRemembers
<1>3. ASSUME Commit \/ Abort PROVE Kept
  BY <1>3, TransactionRemembers
<1>4. ASSUME Adopt \/ Reconcile PROVE Kept
  BY <1>4, AdoptionRemembers
<1>5. ASSUME LookupFails \/ Reject PROVE Kept
  BY <1>5, FailureRemembers
<1>6. ASSUME Publish PROVE Kept
  BY <1>6, PublishRemembers
<1>7. ASSUME Crash PROVE Kept
  <2>1. pc' = "boot" /\ published' = <<>> /\ outbox' = <<>>
    BY <1>7 DEF Crash
  <2>. QED
    BY <2>1 DEF MemoryFollows
<1>8. ASSUME ReplayEvent \/ NextProjector PROVE Kept
  <2>1. pc = "boot" /\ UNCHANGED <<pc, published, outbox>>
    BY <1>8 DEF ReplayEvent, NextProjector
  <2>. QED
    BY <2>1 DEF MInv, MemoryFollows
<1>9. ASSUME \/ Take \/ AnswerAgain \/ AnswerAccepted \/ AnswerStorageError \/ RecordRefusal
             \/ AnswerRefused
      PROVE  Kept
  <2>1. /\ UNCHANGED <<log, model, boot, published, outbox>>
        /\ pc \in {"idle", "decide", "publish", "refused"} /\ outbox = <<>>
        /\ pc' \in {"idle", "decide", "refused"}
        /\ pc' = "decide" => start' = model'.sequence
    BY <1>9 DEF Take, AnswerAgain, AnswerAccepted, AnswerStorageError, RecordRefusal,
       AnswerRefused, Done, database, MInv, MemoryFollows
  <2>2. ModelIsPrefix' /\ boot' <= Len(log') /\ Told'
    BY <2>1, MemorySame DEF MInv, MemoryFollows
  <2>. QED
    BY <2>1, <2>2 DEF MemoryFollows
<1>10. ASSUME (\E c \in Command : Dispatch(c)) \/ UNCHANGED vars PROVE Kept
  <2>1. UNCHANGED <<log, model, pc, start, boot, published, outbox>>
    BY <1>10 DEF Dispatch, database, vars
  <2>2. /\ ModelIsPrefix' <=> ModelIsPrefix
        /\ Told' <=> Told
        /\ boot' <= Len(log') <=> boot <= Len(log)
    BY <2>1, MemorySame
  <2>3. \A n : Fresh(n)' <=> Fresh(n)
    BY <2>1 DEF Fresh, Readable
  <2>. QED
    BY <2>1, <2>2, <2>3 DEF MInv, MemoryFollows
<1>11. Kept
  BY <1>2, <1>3, <1>4, <1>5, <1>6, <1>7, <1>8, <1>9, <1>10 DEF Next, Worker, Startup
<1>. QED
  BY <1>1, <1>11 DEF MInv

\* After every dispatch, also one that failed although its events were stored, the
\* read model in memory is the projection of the log and subscribers are told each
\* event since the start once and in order, as long as reconciliation itself does not
\* fail (OrchestrationEngine.ts: reconcileReadModelAfterDispatchFailure).
THEOREM SpecCaughtUp ==
    ASSUME "reconcile" \notin Faults, BatchesFit
    PROVE  Spec => []CaughtUp
<1>1. Init => MInv
  <2>1. Init => Types
    BY InitType DEF Init, Types, HasCommand, OutboxInLog
  <2>. QED
    BY <2>1 DEF Init, MInv, MemoryFollows
<1>2. MInv /\ [Next]_vars => MInv'
  BY MInvStep
<1>3. MInv => CaughtUp
  <2>. SUFFICES ASSUME MInv PROVE ModelCurrent /\ EveryEventPublished
    BY DEF CaughtUp
  <2>1. TypeOK /\ MemoryFollows
    BY DEF MInv, Types
  <2>2. ASSUME pc \in {"idle", "decide"}
        PROVE  model = Projected(EmptyReadModel, log, Readable(0))
    <3>1. ModelIsPrefix /\ Readable(model.sequence) = {}
      BY <2>1, <2>2 DEF MemoryFollows, Told
    <3>2. Projected(model, log, Readable(model.sequence)) = model
      BY <3>1 DEF Projected
    <3>. QED
      BY <3>1, <3>2, <2>1, AdoptRest
  <2>3. ASSUME pc = "adopt"
        PROVE  published \o outbox = Numbers(boot, Len(log))
    <3>1. PICK n \in boot..Len(log) : Fresh(n) /\ outbox = Numbers(n, Len(log))
      BY <2>1, <2>3 DEF MemoryFollows
    <3>2. boot \in Nat /\ Len(log) \in Nat
      BY <2>1 DEF TypeOK
    <3>3. n \in Nat /\ boot <= n /\ n <= Len(log)
      BY <3>2
    <3>4. Numbers(boot, n) \o Numbers(n, Len(log)) = Numbers(boot, Len(log))
      BY <3>2, <3>3, NumbersJoin
    <3>. QED
      BY <3>1, <3>4 DEF Fresh
  <2>4. pc \in {"idle", "decide", "publish", "refused"} =>
          published \o outbox = Numbers(boot, Len(log))
    BY <2>1 DEF MemoryFollows, Told
  <2>5. pc \in {"boot", "idle", "decide", "adopt", "failed", "publish", "refused"}
    BY <2>1 DEF TypeOK
  <2>. QED
    BY <2>2, <2>3, <2>4, <2>5 DEF ModelCurrent, EveryEventPublished
<1>. QED
  BY <1>1, <1>2, <1>3, PTL DEF Spec

================================================================================
