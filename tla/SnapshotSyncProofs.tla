-------------------------- MODULE SnapshotSyncProofs --------------------------
(* No request of the web client is left without a carrier and no event of the      *)
(* server is forgotten by its store, for any number of threads, events, moves,     *)
(* lost connections, faults and writes, and any length of the outbound queue.  The *)
(* first part is what the router, the transport and the server's reads expect of   *)
(* each other (SyncInv); the second what each event is waiting for (SyncIInv).     *)
EXTENDS SnapshotSync, SequenceTheorems, WellFoundedInduction, TLAPS

-----------------------------------------------------------------------------
(* The transport. *)

Bodies == {"getSnapshot", "terminal", "command"}
Messages == [id : Nat, tracked : BOOLEAN, key : {NoKey, "resize"}, body : Bodies]
Transports == [socket : {"connecting", "open", "closing", "down"}, nextId : Nat,
               pending : SUBSET Nat, queue : SUBSET Messages, wire : SUBSET Messages,
               asked : SUBSET Nat]

\* Ids are given once, and a message whose answer is awaited is a request.
TransportOK(t) ==
    /\ t \in Transports
    /\ \A id \in t.pending : id < t.nextId
    /\ \A m \in t.queue \cup t.wire :
          /\ m.id < t.nextId
          /\ m.tracked => m.key = NoKey
          /\ m.id \in t.pending => m.tracked

\* A non-empty set of numbers has a least.
LEMMA LeastNumber ==
    ASSUME NEW S \in SUBSET Nat, S # {}
    PROVE  \E m \in S : \A k \in S : m <= k
<1>. DEFINE R == {ss \in Nat \X Nat : ss[1] < ss[2]}
<1>1. IsWellFoundedOn(R, Nat)
  BY NatLessThanWellFounded DEF OpToRel
<1>2. \A k, m \in Nat : k < m => <<k, m>> \in R
  OBVIOUS
<1>. HIDE DEF R
<1>3. PICK m \in S : \A k \in S : ~(<<k, m>> \in R)
  BY <1>1, WFMin
<1>4. ASSUME NEW k \in S
      PROVE  m <= k
  <2>1. k \in Nat /\ m \in Nat
    OBVIOUS
  <2>2. ~(k < m)
    BY <2>1, <1>2, <1>3
  <2>. QED
    BY <2>1, <2>2
<1>. QED
  BY <1>4

\* The oldest of some messages is one of them.
LEMMA OldestIsOne ==
    ASSUME NEW ms \in SUBSET Messages, ms # {}
    PROVE  Oldest(ms) \in ms /\ \A other \in ms : Oldest(ms).id <= other.id
<1>. DEFINE ids == {m.id : m \in ms}
<1>1. ids \in SUBSET Nat /\ ids # {}
  BY DEF Messages
<1>2. PICK id \in ids : \A k \in ids : id <= k
  BY <1>1, LeastNumber
<1>3. \E m \in ms : \A other \in ms : m.id <= other.id
  BY <1>2
<1>. QED
  BY <1>3 DEF Oldest

\* What a transport that asked differs in.
Asks(t, u, m) ==
    /\ TransportOK(u)
    /\ u.socket = t.socket /\ u.nextId = t.nextId + 1
    /\ t.pending \subseteq u.pending /\ u.pending \subseteq t.pending \cup {t.nextId}
    /\ u.queue \cup u.wire \subseteq t.queue \cup t.wire \cup {m}
    /\ t.socket = "open" /\ m.tracked => t.nextId \in u.pending
    /\ t.socket # "open" => u.wire = t.wire
    /\ PendingIsCarried(t) => PendingIsCarried(u)

\* And one that queued a message.
Queues(t, u, m) ==
    /\ u \in Transports
    /\ u.socket = t.socket /\ u.nextId = t.nextId /\ u.wire = t.wire /\ u.asked = t.asked
    /\ u.queue \subseteq t.queue \cup {m}
    /\ \A q \in t.queue : q.tracked => q \in u.queue
    /\ \/ u.pending = t.pending /\ m \in u.queue
       \/ u.pending = t.pending \ {m.id}

\* A message that waits for a connection: only an untracked one, or the new one, is dropped.
LEMMA EnqueueFacts ==
    ASSUME NEW t, t \in Transports, NEW m \in Messages, m.tracked => m.key = NoKey,
           \A q \in t.queue : q.tracked => q.key = NoKey
    PROVE  Queues(t, EnqueueOutboundMessage(t, m), m)
<1>. USE DEF Queues
<1>. DEFINE queue == Coalesced(t.queue, m)
            untracked == {q \in queue : ~q.tracked}
            u == EnqueueOutboundMessage(t, m)
<1>1. queue \subseteq t.queue /\ \A q \in t.queue : q.tracked => q \in queue
  BY DEF Coalesced
<1>2. untracked # {} => Oldest(untracked) \in untracked
  BY <1>1, OldestIsOne DEF Transports
<1>. HIDE DEF queue
<1>3. \/ u = [t EXCEPT !.queue = queue \cup {m}]
      \/ untracked # {} /\ u = [t EXCEPT !.queue = (queue \ {Oldest(untracked)}) \cup {m}]
      \/ u = [t EXCEPT !.queue = queue, !.pending = @ \ {m.id}]
  BY DEF EnqueueOutboundMessage, queue
<1>. HIDE DEF u
<1>4. CASE u = [t EXCEPT !.queue = queue \cup {m}]
  BY <1>1, <1>4 DEF Transports, u
<1>5. CASE untracked # {} /\ u = [t EXCEPT !.queue = (queue \ {Oldest(untracked)}) \cup {m}]
  BY <1>1, <1>2, <1>5 DEF Transports, u
<1>6. CASE u = [t EXCEPT !.queue = queue, !.pending = @ \ {m.id}]
  BY <1>1, <1>6 DEF Transports, u
<1>. QED
  BY <1>3, <1>4, <1>5, <1>6

\* A message sent, with its id awaited if it is a request.
LEMMA SendFacts ==
    ASSUME NEW t, TransportOK(t), NEW body \in Bodies, NEW key \in {NoKey, "resize"},
           NEW tracked \in BOOLEAN, tracked => key = NoKey,
           NEW m, m = Message(t.nextId, tracked, key, body),
           NEW v, v = [t EXCEPT !.nextId = @ + 1,
                                !.pending = IF tracked THEN @ \cup {t.nextId} ELSE @]
    PROVE  Asks(t, Send(v, m), m)
<1>. DEFINE u == Send(v, m)
<1>. SUFFICES Asks(t, u, m)
  OBVIOUS
<1>1. /\ m \in Messages /\ m.id = t.nextId /\ m.tracked = tracked /\ m.key = key
      /\ t.nextId \in Nat
  BY DEF Message, Messages, TransportOK, Transports
<1>2. /\ v \in Transports /\ v.socket = t.socket /\ v.nextId = t.nextId + 1
      /\ v.pending = IF tracked THEN t.pending \cup {t.nextId} ELSE t.pending
      /\ v.queue = t.queue /\ v.wire = t.wire /\ v.asked = t.asked
  <2>. DEFINE pending == IF tracked THEN t.pending \cup {t.nextId} ELSE t.pending
  <2>1. t \in Transports /\ pending \in SUBSET Nat /\ t.nextId + 1 \in Nat
    BY DEF TransportOK, Transports
  <2>2. v = [t EXCEPT !.nextId = t.nextId + 1, !.pending = pending]
    OBVIOUS
  <2>. HIDE DEF pending
  <2>3. /\ v \in Transports /\ v.socket = t.socket /\ v.nextId = t.nextId + 1
        /\ v.pending = pending /\ v.queue = t.queue /\ v.wire = t.wire /\ v.asked = t.asked
    BY <2>1, <2>2 DEF Transports
  <2>. QED
    BY <2>3 DEF pending
<1>3. CASE t.socket = "open"
  <2>1. u = Put(v, {m})
    BY <1>2, <1>3 DEF Send
  <2>2. /\ u \in Transports /\ u.socket = "open" /\ u.nextId = t.nextId + 1
        /\ u.pending = v.pending /\ u.queue = t.queue /\ u.wire = t.wire \cup {m}
        /\ u.asked = IF tracked THEN t.asked \cup {t.nextId} ELSE t.asked
    <3>1. {q.id : q \in {sent \in {m} : sent.tracked}} = IF tracked THEN {t.nextId} ELSE {}
      BY <1>1
    <3>2. u = [v EXCEPT !.wire = @ \cup {m}, !.asked = @ \cup (IF tracked THEN {t.nextId} ELSE {})]
      BY <2>1, <3>1 DEF Put
    <3>3. v.wire \cup {m} \in SUBSET Messages
          /\ v.asked \cup (IF tracked THEN {t.nextId} ELSE {}) \in SUBSET Nat
      BY <1>1, <1>2 DEF Transports
    <3>. HIDE DEF u
    <3>. QED
      BY <1>2, <1>3, <3>2, <3>3 DEF Transports
  <2>3. TransportOK(u)
    BY <1>1, <1>2, <2>2 DEF TransportOK, Transports, Messages
  <2>. QED
    BY <1>1, <1>2, <1>3, <2>2, <2>3 DEF Asks, PendingIsCarried, Queued
<1>4. CASE t.socket # "open"
  <2>1. u = EnqueueOutboundMessage(v, m)
    BY <1>2, <1>4 DEF Send
  <2>2. /\ u \in Transports
        /\ u.socket = v.socket /\ u.nextId = v.nextId /\ u.wire = v.wire /\ u.asked = v.asked
        /\ u.queue \subseteq v.queue \cup {m}
        /\ \A q \in v.queue : q.tracked => q \in u.queue
        /\ \/ u.pending = v.pending /\ m \in u.queue
           \/ u.pending = v.pending \ {m.id}
    <3>1. \A q \in v.queue : q.tracked => q.key = NoKey
      BY <1>2 DEF TransportOK
    <3>2. m.tracked => m.key = NoKey
      BY <1>1
    <3>3. v \in Transports /\ m \in Messages
      BY <1>1, <1>2
    <3>4. Queues(v, u, m)
      BY ONLY <2>1, <3>1, <3>2, <3>3, EnqueueFacts
    <3>. QED
      BY <3>4 DEF Queues
  <2>. HIDE DEF u
  <2>3. t.pending \subseteq u.pending /\ u.pending \subseteq t.pending \cup {t.nextId}
    BY <1>1, <1>2, <2>2 DEF TransportOK, Transports
  <2>4. TransportOK(u)
    <3>1. \A id \in u.pending : id < u.nextId
      BY <1>1, <1>2, <2>2, <2>3 DEF TransportOK, Transports
    <3>2. ASSUME NEW q \in u.queue \cup u.wire
          PROVE  q.id < u.nextId /\ (q.tracked => q.key = NoKey) /\ (q.id \in u.pending => q.tracked)
      <4>1. CASE q \in t.queue \cup t.wire
        BY <1>1, <1>2, <2>2, <2>3, <4>1 DEF TransportOK, Transports, Messages
      <4>2. CASE q = m
        BY <1>1, <1>2, <2>2, <2>3, <4>2 DEF TransportOK, Transports, Messages
      <4>. QED
        BY <1>2, <2>2, <4>1, <4>2
    <3>. QED
      BY <2>2, <3>1, <3>2 DEF TransportOK
  <2>5. ASSUME PendingIsCarried(t) PROVE PendingIsCarried(u)
    <3>. SUFFICES ASSUME t.socket # "closing", NEW id \in u.pending
                  PROVE  id \in Queued(u) \cup u.asked
      BY <1>2, <2>2 DEF PendingIsCarried
    <3>1. CASE id \in t.pending
      <4>1. id \in Queued(t) \cup t.asked
        BY <2>5, <3>1 DEF PendingIsCarried
      <4>2. ASSUME NEW q \in t.queue, q.id = id PROVE q \in u.queue
        BY <1>2, <2>2, <3>1, <4>2 DEF TransportOK
      <4>. QED
        BY <1>2, <2>2, <4>1, <4>2 DEF Queued
    <3>2. CASE id = t.nextId /\ id \notin t.pending
      <4>1. m \in u.queue
        BY <1>1, <1>2, <2>2, <3>2
      <4>. QED
        BY <1>1, <3>2, <4>1 DEF Queued
    <3>. QED
      BY <2>3, <3>1, <3>2
  <2>. QED
    BY <1>2, <1>4, <2>2, <2>3, <2>4, <2>5 DEF Asks
<1>. QED
  BY <1>3, <1>4

\* Keystrokes and requests of a client.
LEMMA RequestFacts ==
    ASSUME NEW t, TransportOK(t), NEW body \in Bodies
    PROVE  Asks(t, Request(t, body), Message(t.nextId, TRUE, NoKey, body))
<1>. DEFINE v == [t EXCEPT !.nextId = @ + 1, !.pending = @ \cup {t.nextId}]
<1>1. v = [t EXCEPT !.nextId = @ + 1, !.pending = IF TRUE THEN @ \cup {t.nextId} ELSE @]
  OBVIOUS
<1>2. Asks(t, Send(v, Message(t.nextId, TRUE, NoKey, body)), Message(t.nextId, TRUE, NoKey, body))
  BY <1>1, SendFacts
<1>. QED
  BY <1>2 DEF Request

LEMMA FireAndForgetFacts ==
    ASSUME NEW t, TransportOK(t), NEW body \in Bodies, NEW key \in {NoKey, "resize"}
    PROVE  Asks(t, FireAndForget(t, key, body), Message(t.nextId, FALSE, key, body))
<1>. DEFINE v == [t EXCEPT !.nextId = @ + 1]
<1>1. v = [t EXCEPT !.nextId = @ + 1, !.pending = IF FALSE THEN @ \cup {t.nextId} ELSE @]
  BY DEF TransportOK, Transports
<1>2. Asks(t, Send(v, Message(t.nextId, FALSE, key, body)), Message(t.nextId, FALSE, key, body))
  BY <1>1, SendFacts
<1>. QED
  BY <1>2 DEF FireAndForget

\* A connection that opens carries every request that is awaited.
LEMMA OpenedFacts ==
    ASSUME NEW t, TransportOK(t), t.socket = "connecting", PendingIsCarried(t)
    PROVE  LET u == Opened(t) IN
           /\ TransportOK(u) /\ PendingIsCarried(u)
           /\ u.socket = "open" /\ u.nextId = t.nextId /\ u.pending = t.pending
           /\ u.queue = {} /\ u.wire \subseteq t.queue \cup t.wire
<1>. DEFINE v == [t EXCEPT !.socket = "open"]
            w == [v EXCEPT !.queue = {}]
            wanted == Wanted(v)
            ids == {m.id : m \in {sent \in wanted : sent.tracked}}
            u == Opened(t)
<1>1. /\ v \in Transports /\ v.queue = t.queue /\ v.pending = t.pending /\ v.wire = t.wire
      /\ v.nextId = t.nextId /\ v.asked = t.asked /\ v.socket = "open"
  BY DEF TransportOK, Transports
<1>2. wanted \subseteq t.queue /\ \A m \in t.queue : m.id \in t.pending => m \in wanted
  BY <1>1 DEF Wanted
<1>3. t.queue \subseteq Messages /\ ids \in SUBSET Nat
  <2>1. t.queue \subseteq Messages
    BY DEF TransportOK, Transports
  <2>2. \A m \in wanted : m.id \in Nat
    BY <1>2, <2>1 DEF Messages
  <2>. QED
    BY <2>1, <2>2
<1>4. u = [w EXCEPT !.wire = @ \cup wanted, !.asked = @ \cup ids]
  BY DEF Opened, FlushOutboundQueue, Put
<1>. HIDE DEF v, wanted, ids, u
<1>5. /\ w \in Transports /\ w.queue = {} /\ w.pending = t.pending /\ w.wire = t.wire
      /\ w.nextId = t.nextId /\ w.asked = t.asked /\ w.socket = "open"
  BY <1>1 DEF Transports
<1>. HIDE DEF w
<1>6. /\ u \in Transports /\ u.queue = {} /\ u.pending = t.pending /\ u.wire = t.wire \cup wanted
      /\ u.nextId = t.nextId /\ u.asked = t.asked \cup ids /\ u.socket = "open"
  BY <1>2, <1>3, <1>4, <1>5 DEF Transports
<1>7. TransportOK(u)
  BY <1>2, <1>6 DEF TransportOK
<1>8. PendingIsCarried(u)
  <2>. SUFFICES ASSUME NEW id \in t.pending PROVE id \in t.asked \cup ids
    BY <1>6 DEF PendingIsCarried
  <2>1. id \in Queued(t) \cup t.asked
    BY DEF PendingIsCarried
  <2>2. ASSUME NEW m \in t.queue, m.id = id PROVE id \in ids
    BY <1>2, <2>2 DEF TransportOK, ids
  <2>. QED
    BY <2>1, <2>2 DEF Queued
<1>9. u.wire \subseteq t.queue \cup t.wire
  BY <1>2, <1>6
<1>. QED
  BY <1>6, <1>7, <1>8, <1>9 DEF u

\* A connection that is lost takes what it carried with it.
LEMMA DroppedFacts ==
    ASSUME NEW t, TransportOK(t)
    PROVE  LET u == Dropped(t) IN
           /\ TransportOK(u) /\ PendingIsCarried(u)
           /\ u.socket = "closing" /\ u.nextId = t.nextId /\ u.pending = t.pending
           /\ u.wire = {} /\ u.queue = t.queue
BY DEF Dropped, TransportOK, Transports, PendingIsCarried

LEMMA ClosedFacts ==
    ASSUME NEW t, TransportOK(t)
    PROVE  LET u == Closed(t) IN
           /\ TransportOK(u) /\ PendingIsCarried(u)
           /\ u.socket = "down" /\ u.nextId = t.nextId /\ u.pending = {}
           /\ u.wire = t.wire /\ u.queue = {}
BY DEF Closed, TransportOK, Transports, PendingIsCarried

LEMMA ReconnectedFacts ==
    ASSUME NEW t, TransportOK(t), PendingIsCarried(t), t.socket # "closing"
    PROVE  LET u == Reconnected(t) IN
           /\ TransportOK(u) /\ PendingIsCarried(u)
           /\ u.socket = "connecting" /\ u.nextId = t.nextId /\ u.pending = t.pending
           /\ u.wire = t.wire /\ u.queue = t.queue
BY DEF Reconnected, TransportOK, Transports, PendingIsCarried, Queued

\* What a transport that no longer awaits a request differs in.
Forgets(t, u, id) ==
    /\ TransportOK(u) /\ (PendingIsCarried(t) => PendingIsCarried(u))
    /\ u.socket = t.socket /\ u.nextId = t.nextId /\ u.pending = t.pending \ {id}
    /\ u.wire = t.wire /\ u.queue \subseteq t.queue

LEMMA TimeOutFacts ==
    ASSUME NEW t, TransportOK(t), NEW id
    PROVE  Forgets(t, TimeOut(t, id), id)
<1>. DEFINE u == TimeOut(t, id)
<1>1. /\ u \in Transports /\ u.socket = t.socket /\ u.nextId = t.nextId
      /\ u.pending = t.pending \ {id} /\ u.wire = t.wire /\ u.asked = t.asked
      /\ u.queue = {m \in t.queue : m.id # id}
  BY DEF TimeOut, RemoveQueuedMessage, TransportOK, Transports
<1>. HIDE DEF u
<1>2. TransportOK(u)
  BY <1>1 DEF TransportOK
<1>3. PendingIsCarried(t) => PendingIsCarried(u)
  BY <1>1 DEF PendingIsCarried, Queued
<1>4. Forgets(t, u, id)
  BY <1>1, <1>2, <1>3 DEF Forgets
<1>. QED
  BY <1>4 DEF u

LEMMA AnsweredFacts ==
    ASSUME NEW t, TransportOK(t), NEW id
    PROVE  Forgets(t, Answered(t, id), id)
<1>. DEFINE u == Answered(t, id)
<1>1. /\ u \in Transports /\ u.socket = t.socket /\ u.nextId = t.nextId
      /\ u.pending = t.pending \ {id} /\ u.wire = t.wire /\ u.asked = t.asked \ {id}
      /\ u.queue = t.queue
  BY DEF Answered, TransportOK, Transports
<1>. HIDE DEF u
<1>2. TransportOK(u)
  BY <1>1 DEF TransportOK
<1>3. PendingIsCarried(t) => PendingIsCarried(u)
  BY <1>1 DEF PendingIsCarried, Queued
<1>4. Forgets(t, u, id)
  BY <1>1, <1>2, <1>3 DEF Forgets
<1>. QED
  BY <1>4 DEF u

-----------------------------------------------------------------------------
(* The router and the server: what is where. *)

Brought == [type : {"welcome", "event"}, n : Nat]
           \cup [type : {"snapshot", "answer"}, id : Nat, n : Nat]
Fields == {"events", "moves", "drops", "faults", "writes"}

TypeOK ==
    /\ log \in Seq([on : Threads \cup {Project}, what : Kinds]) /\ published \in 0 .. Len(log)
    /\ \A id \in DOMAIN reads : reads[id] = None \/ reads[id] \in 0 .. Len(log)
    /\ inbox \in Seq(Brought)
    /\ TransportOK(transport)
    /\ latest \in Nat
    /\ sync \in [request : Nat \cup {None}, again : BOOLEAN]
    /\ throttled \in BOOLEAN /\ settling \in BOOLEAN /\ welcomed \in BOOLEAN
    /\ deferred \subseteq Threads
    /\ route \in Routes
    /\ view = None \/ view \in 0 .. Len(log)
    /\ archived \cup guarded \subseteq Threads \cup {Project}
    /\ excused \in Nat
    /\ left \in [Fields -> Nat]

\* A connection brings its welcome, and then the events in their order up to what was
\* pushed, with the answers to requests between them.
Fits(m) ==
    \/ m = Welcome
    \/ m.type = "event" /\ m = Push(m.n) /\ m.n \in 1 .. published
    \/ /\ m.type = "snapshot" /\ m = Snapshot(m.id, m.n) /\ m.n \in 0 .. Len(log)
       /\ m.id \in Nat /\ m.id < transport.nextId
    \/ m.type = "answer" /\ m = Answer(m.id) /\ m.id \in Nat /\ m.id < transport.nextId

InboxOK ==
    /\ \A i \in DOMAIN inbox : Fits(inbox[i])
    /\ \A i \in DOMAIN inbox : inbox[i].type = "welcome" => i = 1 /\ ~welcomed
    /\ inbox # <<>> /\ ~welcomed => inbox[1] = Welcome
    /\ \A i, j \in DOMAIN inbox :
          i < j /\ inbox[i].type = "event" /\ inbox[j].type = "event" => inbox[i].n < inbox[j].n
    /\ \A i \in DOMAIN inbox : inbox[i].type = "event" =>
          \A k \in inbox[i].n .. published : \E j \in DOMAIN inbox : inbox[j] = Push(k)

\* Nothing comes or is worked on but for a connection that is open.
Connected ==
    /\ transport.socket # "open" =>
          inbox = <<>> /\ transport.wire = {} /\ DOMAIN reads = {} /\ ~welcomed
    /\ transport.socket = "open" => welcomed \/ inbox # <<>>

\* There is one fetch at a time: what is on its way of any other is not awaited.
Ours(id) == id \in transport.pending => id = sync.request
OneFetch ==
    /\ \A m \in transport.queue \cup transport.wire : m.body = "getSnapshot" => Ours(m.id)
    /\ \A id \in DOMAIN reads : id \in Nat /\ id < transport.nextId /\ Ours(id)
    /\ \A i \in DOMAIN inbox : inbox[i].type = "snapshot" => Ours(inbox[i].id)
    /\ sync.request = None => ~sync.again
    /\ sync.request # None => sync.request < transport.nextId

SyncInv == TypeOK /\ InboxOK /\ Connected /\ OneFetch /\ PendingIsCarriedHere

\* A message more, and a message less.
LEMMA InboxAppended ==
    ASSUME inbox \in Seq(Brought), NEW m \in Brought, inbox' = Append(inbox, m)
    PROVE  /\ inbox' \in Seq(Brought) /\ inbox' # <<>>
           /\ DOMAIN inbox = 1 .. Len(inbox) /\ DOMAIN inbox' = 1 .. Len(inbox) + 1
           /\ Len(inbox) \in Nat
           /\ \A i \in DOMAIN inbox : inbox'[i] = inbox[i]
           /\ inbox'[Len(inbox) + 1] = m
OBVIOUS

LEMMA InboxTail ==
    ASSUME inbox \in Seq(Brought), inbox # <<>>, inbox' = Tail(inbox)
    PROVE  /\ inbox' \in Seq(Brought)
           /\ DOMAIN inbox = 1 .. Len(inbox) /\ DOMAIN inbox' = 1 .. Len(inbox) - 1
           /\ Len(inbox) \in Nat \ {0}
           /\ Head(inbox) = inbox[1] /\ 1 \in DOMAIN inbox
           /\ \A i \in DOMAIN inbox' : i + 1 \in DOMAIN inbox /\ inbox'[i] = inbox[i + 1]
           /\ \A i \in DOMAIN inbox : i > 1 => i - 1 \in DOMAIN inbox' /\ inbox'[i - 1] = inbox[i]
OBVIOUS

\* The invariant of the inbox, when it stays,
LEMMA InboxStays ==
    ASSUME TypeOK, InboxOK, inbox' = inbox, published' = published, welcomed' = welcomed,
           Len(log') \in Nat, Len(log) <= Len(log'),
           transport'.nextId \in Nat, transport.nextId <= transport'.nextId
    PROVE  InboxOK'
<1>1. \A m : Fits(m) => Fits(m)'
  BY DEF Fits, TypeOK, TransportOK, Transports, Push, Snapshot, Answer, Welcome
<1>. QED
  BY <1>1 DEF InboxOK, Push, Welcome

\* when an answer is added,
LEMMA InboxAnswered ==
    ASSUME TypeOK, InboxOK, Connected, transport.socket = "open",
           NEW id \in Nat, id < transport.nextId, NEW n \in 0 .. Len(log),
           NEW m \in {Answer(id), Snapshot(id, n)}, inbox' = Append(inbox, m),
           published' = published, welcomed' = welcomed, log' = log,
           transport'.nextId = transport.nextId
    PROVE  inbox' \in Seq(Brought) /\ InboxOK' /\ inbox' # <<>>
<1>1. /\ m \in Brought /\ m.type \in {"answer", "snapshot"} /\ Fits(m)' /\ m.type # "event"
      /\ m.type # "welcome"
  BY DEF Answer, Snapshot, Brought, Fits, TypeOK
<1>2. /\ inbox' \in Seq(Brought) /\ inbox' # <<>>
      /\ DOMAIN inbox = 1 .. Len(inbox) /\ DOMAIN inbox' = 1 .. Len(inbox) + 1
      /\ Len(inbox) \in Nat
      /\ \A i \in DOMAIN inbox : inbox'[i] = inbox[i]
      /\ inbox'[Len(inbox) + 1] = m
  BY <1>1, InboxAppended DEF TypeOK
<1>3. \A i \in DOMAIN inbox : Fits(inbox[i])'
  <2>1. \A i \in DOMAIN inbox : Fits(inbox[i])
    BY DEF InboxOK
  <2>. QED
    BY <1>2, <2>1 DEF Fits, Push, Snapshot, Answer, Welcome
<1>4. \A i \in DOMAIN inbox' : i \in DOMAIN inbox \/ inbox'[i] = m
  BY <1>2
<1>5. \A i \in DOMAIN inbox' : Fits(inbox[i])'
  BY <1>1, <1>2, <1>3, <1>4
<1>6. \A i \in DOMAIN inbox' : inbox'[i].type \in {"welcome", "event"} =>
         i \in DOMAIN inbox /\ inbox'[i] = inbox[i]
  BY <1>1, <1>2, <1>4
<1>7. ~welcomed => inbox # <<>> /\ inbox'[1] = inbox[1]
  BY <1>2 DEF Connected
<1>8. \A k : (\E j \in DOMAIN inbox : inbox[j] = Push(k)) => \E j \in DOMAIN inbox' : inbox'[j] = Push(k)
  BY <1>2
<1>9. InboxOK'
  <2>1. \A i \in DOMAIN inbox' : inbox'[i].type = "welcome" => i = 1 /\ ~welcomed
    BY <1>6 DEF InboxOK
  <2>2. inbox' # <<>> /\ ~welcomed' => inbox'[1] = Welcome
    BY <1>7 DEF InboxOK
  <2>3. \A i, j \in DOMAIN inbox' :
          i < j /\ inbox'[i].type = "event" /\ inbox'[j].type = "event" => inbox'[i].n < inbox'[j].n
    BY <1>6 DEF InboxOK
  <2>4. ASSUME NEW i \in DOMAIN inbox', inbox'[i].type = "event", NEW k \in inbox'[i].n .. published
        PROVE  \E j \in DOMAIN inbox' : inbox'[j] = Push(k)
    BY <1>6, <1>8, <2>4 DEF InboxOK
  <2>. QED
    BY <1>5, <2>1, <2>2, <2>3, <2>4 DEF InboxOK, Push, Welcome
<1>. QED
  BY <1>2, <1>9

\* when the next event is,
LEMMA InboxPushed ==
    ASSUME TypeOK, InboxOK, Connected, transport.socket = "open", published < Len(log),
           inbox' = Append(inbox, Push(published + 1)),
           published' = published + 1, welcomed' = welcomed, log' = log,
           transport' = transport
    PROVE  inbox' \in Seq(Brought) /\ InboxOK' /\ inbox' # <<>>
<1>. SUFFICES ASSUME NEW m, m = Push(published + 1)
              PROVE  inbox' \in Seq(Brought) /\ InboxOK' /\ inbox' # <<>>
  OBVIOUS
<1>1. /\ m \in Brought /\ m.type = "event" /\ m.n = published + 1 /\ Fits(m)'
  BY DEF Push, Brought, Fits, TypeOK
<1>2. /\ inbox' \in Seq(Brought) /\ inbox' # <<>>
      /\ DOMAIN inbox = 1 .. Len(inbox) /\ DOMAIN inbox' = 1 .. Len(inbox) + 1
      /\ Len(inbox) \in Nat
      /\ \A i \in DOMAIN inbox : inbox'[i] = inbox[i]
      /\ inbox'[Len(inbox) + 1] = m
  BY <1>1, InboxAppended DEF TypeOK
<1>3. \A i \in DOMAIN inbox : Fits(inbox[i])'
  <2>1. \A i \in DOMAIN inbox : Fits(inbox[i])
    BY DEF InboxOK
  <2>. QED
    BY <1>2, <2>1 DEF Fits, Push, Snapshot, Answer, Welcome, TypeOK
<1>4. \A i \in DOMAIN inbox' : i \in DOMAIN inbox \/ (inbox'[i] = m /\ i = Len(inbox) + 1)
  BY <1>2
<1>5. \A i \in DOMAIN inbox' : Fits(inbox[i])'
  BY <1>1, <1>2, <1>3, <1>4
<1>6. \A i \in DOMAIN inbox : inbox[i].type = "event" => inbox[i].n \in 1 .. published
  BY DEF InboxOK, Fits, Welcome, Snapshot, Answer
<1>7. \A i \in DOMAIN inbox' : inbox'[i].type = "welcome" => i = 1 /\ ~welcomed
  BY <1>1, <1>2, <1>4 DEF InboxOK
<1>8. inbox' # <<>> /\ ~welcomed' => inbox'[1] = Welcome
  BY <1>2 DEF InboxOK, Connected
<1>9. \A i, j \in DOMAIN inbox' :
          i < j /\ inbox'[i].type = "event" /\ inbox'[j].type = "event" => inbox'[i].n < inbox'[j].n
  BY <1>1, <1>2, <1>4, <1>6 DEF InboxOK, TypeOK
<1>10. ASSUME NEW i \in DOMAIN inbox', inbox'[i].type = "event", NEW k \in inbox'[i].n .. published + 1
       PROVE  \E j \in DOMAIN inbox' : inbox'[j] = Push(k)
  <2>1. CASE k = published + 1
    BY <1>2, <2>1
  <2>2. CASE k # published + 1
    <3>1. i \in DOMAIN inbox /\ inbox[i].type = "event" /\ k \in inbox[i].n .. published
      BY <1>1, <1>2, <1>4, <1>6, <1>10, <2>2 DEF TypeOK
    <3>. QED
      BY <1>2, <3>1 DEF InboxOK
  <2>. QED
    BY <2>1, <2>2
<1>11. InboxOK'
  BY <1>5, <1>7, <1>8, <1>9, <1>10 DEF InboxOK, Push, Welcome
<1>. QED
  BY <1>2, <1>11

\* and when its head is handled.
LEMMA InboxHandled ==
    ASSUME TypeOK, InboxOK, inbox # <<>>, inbox' = Tail(inbox), log' = log,
           published' = published, welcomed' = (welcomed \/ Head(inbox).type = "welcome"),
           transport'.nextId \in Nat, transport.nextId <= transport'.nextId
    PROVE  /\ inbox' \in Seq(Brought) /\ InboxOK' /\ welcomed'
           /\ Head(inbox).type = "welcome" <=> ~welcomed
<1>1. /\ inbox' \in Seq(Brought)
      /\ DOMAIN inbox = 1 .. Len(inbox) /\ DOMAIN inbox' = 1 .. Len(inbox) - 1
      /\ Len(inbox) \in Nat \ {0}
      /\ Head(inbox) = inbox[1] /\ 1 \in DOMAIN inbox
      /\ \A i \in DOMAIN inbox' : i + 1 \in DOMAIN inbox /\ inbox'[i] = inbox[i + 1]
      /\ \A i \in DOMAIN inbox : i > 1 => i - 1 \in DOMAIN inbox' /\ inbox'[i - 1] = inbox[i]
  BY InboxTail DEF TypeOK
<1>2. Head(inbox).type = "welcome" <=> ~welcomed
  BY <1>1 DEF InboxOK, Welcome
<1>3. welcomed'
  BY <1>2 DEF TypeOK
<1>4. \A m : Fits(m) => Fits(m)'
  BY DEF Fits, TypeOK, TransportOK, Transports, Push, Snapshot, Answer, Welcome
<1>5. \A i \in DOMAIN inbox' : Fits(inbox[i])'
  BY <1>1, <1>4 DEF InboxOK
<1>6. \A i \in DOMAIN inbox' : inbox'[i].type # "welcome"
  BY <1>1 DEF InboxOK
<1>7. \A i, j \in DOMAIN inbox' :
          i < j /\ inbox'[i].type = "event" /\ inbox'[j].type = "event" => inbox'[i].n < inbox'[j].n
  BY <1>1 DEF InboxOK
<1>8. ASSUME NEW i \in DOMAIN inbox', inbox'[i].type = "event", NEW k \in inbox'[i].n .. published
      PROVE  \E j \in DOMAIN inbox' : inbox'[j] = Push(k)
  <2>1. i + 1 \in DOMAIN inbox /\ inbox[i + 1].type = "event" /\ k \in inbox[i + 1].n .. published
    BY <1>1, <1>8
  <2>2. inbox[i + 1].n \in 1 .. published
    BY <2>1 DEF InboxOK, Fits, Welcome, Snapshot, Answer
  <2>3. PICK j \in DOMAIN inbox : inbox[j] = Push(k)
    BY <2>1 DEF InboxOK
  <2>4. j > 1
    <3>1. CASE j = 1
      <4>1. inbox[1].type = "event" /\ inbox[1].n = k
        BY <2>3, <3>1 DEF Push
      <4>2. 1 < i + 1
        BY <1>1, <2>1
      <4>3. inbox[1].n < inbox[i + 1].n
        BY <1>1, <2>1, <4>1, <4>2 DEF InboxOK
      <4>. QED
        BY <2>1, <2>2, <4>1, <4>3 DEF TypeOK
    <3>. QED
      BY <1>1, <2>3, <3>1
  <2>. QED
    BY <1>1, <2>3, <2>4
<1>9. InboxOK'
  BY <1>3, <1>5, <1>6, <1>7, <1>8 DEF InboxOK, Push, Welcome
<1>. QED
  BY <1>1, <1>2, <1>3, <1>9

-----------------------------------------------------------------------------
(* Fetching. *)

\* What the fetch in flight may answer: what was read for it.
Possible(r) ==
    /\ sync.request # None
    /\ \/ sync.request \in DOMAIN reads /\ reads[sync.request] = r
       \/ \E i \in DOMAIN inbox : inbox[i] = Snapshot(sync.request, r)

InboxShrinks == \A i \in DOMAIN inbox' : \E j \in DOMAIN inbox : inbox'[i] = inbox[j]

\* A fetch that starts when no other is awaited has not been read for.
LEMMA FetchStarts ==
    ASSUME NEW t, TransportOK(t),
           \A m \in t.queue \cup t.wire : m.body = "getSnapshot" => m.id \notin t.pending,
           \A id \in DOMAIN reads' : id \in Nat /\ id < t.nextId /\ id \notin t.pending,
           \A i \in DOMAIN inbox' : inbox'[i].type = "snapshot" =>
               /\ inbox'[i].id \in Nat /\ inbox'[i].id < t.nextId
               /\ inbox'[i].id \notin t.pending,
           transport' = Request(t, "getSnapshot"),
           sync' = IF t.nextId \in transport'.pending
                   THEN [request |-> t.nextId, again |-> FALSE] ELSE NotSyncing
    PROVE  /\ Asks(t, transport', Message(t.nextId, TRUE, NoKey, "getSnapshot"))
           /\ sync' \in [request : Nat \cup {None}, again : BOOLEAN] /\ ~sync'.again
           /\ OneFetch'
           /\ t.socket = "open" => sync'.request = t.nextId /\ sync'.request # None
           /\ \A r : ~Possible(r)'
<1>. SUFFICES ASSUME NEW m, m = Message(t.nextId, TRUE, NoKey, "getSnapshot")
              PROVE  /\ Asks(t, transport', m)
                     /\ sync' \in [request : Nat \cup {None}, again : BOOLEAN] /\ ~sync'.again
                     /\ OneFetch'
                     /\ t.socket = "open" => sync'.request = t.nextId /\ sync'.request # None
                     /\ \A r : ~Possible(r)'
  OBVIOUS
<1>1. t.nextId \in Nat /\ m.id = t.nextId /\ m.tracked /\ t.pending \subseteq Nat
  BY DEF TransportOK, Transports, Message
<1>2. Asks(t, transport', m)
  BY RequestFacts DEF Bodies
<1>3. /\ sync' \in [request : Nat \cup {None}, again : BOOLEAN] /\ ~sync'.again
      /\ sync'.request = IF t.nextId \in transport'.pending THEN t.nextId ELSE None
  BY <1>1 DEF NotSyncing
<1>4. \A id \in Nat : id < t.nextId /\ id \notin t.pending => id \notin transport'.pending
  BY <1>1, <1>2 DEF Asks
<1>5. \A q \in transport'.queue \cup transport'.wire : q.body = "getSnapshot" => Ours(q.id)'
  <2>. SUFFICES ASSUME NEW q \in transport'.queue \cup transport'.wire, q.body = "getSnapshot",
                       q.id \in transport'.pending
                PROVE  q.id = sync'.request
    BY DEF Ours
  <2>1. CASE q = m
    BY <1>1, <1>3, <2>1
  <2>2. CASE q \in t.queue \cup t.wire
    <3>1. q.id \in Nat /\ q.id < t.nextId /\ q.id \notin t.pending
      BY <2>2 DEF TransportOK, Transports, Messages
    <3>. QED
      BY <1>4, <3>1
  <2>. QED
    BY <1>2, <2>1, <2>2 DEF Asks
<1>6. \A id \in DOMAIN reads' : id \in Nat /\ id < transport'.nextId /\ Ours(id)'
  BY <1>1, <1>2, <1>4 DEF Asks, Ours
<1>7. \A i \in DOMAIN inbox' : inbox'[i].type = "snapshot" => Ours(inbox[i].id)'
  BY <1>4 DEF Ours
<1>8. sync'.request # None => sync'.request < transport'.nextId
  BY <1>1, <1>2, <1>3 DEF Asks
<1>9. OneFetch'
  BY <1>3, <1>5, <1>6, <1>7, <1>8 DEF OneFetch
<1>10. t.socket = "open" => sync'.request = t.nextId /\ sync'.request # None
  BY <1>1, <1>2, <1>3, NoneAssumption DEF Asks
<1>11. ASSUME NEW r, Possible(r)' PROVE FALSE
  <2>1. sync'.request = t.nextId
    BY <1>3, <1>11 DEF Possible
  <2>2. t.nextId \notin DOMAIN reads'
    BY <1>1
  <2>3. \A i \in DOMAIN inbox' : inbox'[i] # Snapshot(t.nextId, r)
    BY <1>1 DEF Snapshot
  <2>. QED
    BY <1>11, <2>1, <2>2, <2>3 DEF Possible
<1>. QED
  BY <1>2, <1>3, <1>9, <1>10, <1>11

\* When no fetch is in flight, no snapshot is awaited.
LEMMA NoneAwaited ==
    ASSUME SyncInv, sync.request = None
    PROVE  /\ \A m \in transport.queue \cup transport.wire :
                 m.body = "getSnapshot" => m.id \notin transport.pending
           /\ \A id \in DOMAIN reads :
                 id \in Nat /\ id < transport.nextId /\ id \notin transport.pending
           /\ \A i \in DOMAIN inbox : inbox[i].type = "snapshot" =>
                 /\ inbox[i].id \in Nat /\ inbox[i].id < transport.nextId
                 /\ inbox[i].id \notin transport.pending
<1>1. transport.pending \subseteq Nat
  BY DEF SyncInv, TypeOK, TransportOK, Transports
<1>2. \A id : Ours(id) => id \notin transport.pending
  BY <1>1, NoneAssumption DEF Ours
<1>3. \A i \in DOMAIN inbox : inbox[i].type = "snapshot" =>
          inbox[i].id \in Nat /\ inbox[i].id < transport.nextId
  BY DEF SyncInv, InboxOK, Fits, Welcome, Push, Answer
<1>. QED
  BY <1>2, <1>3 DEF SyncInv, OneFetch

\* syncSnapshot, whatever its caller does besides.
LEMMA StartSyncFacts ==
    ASSUME SyncInv, StartSync(transport), reads' = reads, InboxShrinks
    PROVE  /\ TransportOK(transport') /\ PendingIsCarriedHere'
           /\ sync' \in [request : Nat \cup {None}, again : BOOLEAN]
           /\ transport'.socket = transport.socket
           /\ transport.nextId <= transport'.nextId /\ transport'.nextId \in Nat
           /\ transport.socket # "open" => transport'.wire = transport.wire
           /\ OneFetch'
           /\ transport.socket = "open" =>
                 sync'.request # None /\ (sync'.again \/ \A r : ~Possible(r)')
           /\ \A r : Possible(r)' => Possible(r)
<1>1. CASE sync.request # None
  <2>1. transport' = transport /\ sync' = [sync EXCEPT !.again = TRUE]
    BY <1>1 DEF StartSync
  <2>2. /\ sync' \in [request : Nat \cup {None}, again : BOOLEAN]
        /\ sync'.request = sync.request /\ sync'.again
    BY <2>1 DEF SyncInv, TypeOK
  <2>3. OneFetch'
    BY <1>1, <2>1, <2>2 DEF SyncInv, OneFetch, Ours, InboxShrinks
  <2>4. \A r : Possible(r)' => Possible(r)
    BY <2>1, <2>2 DEF Possible, InboxShrinks, Snapshot
  <2>. QED
    BY <1>1, <2>1, <2>2, <2>3, <2>4
        DEF SyncInv, TypeOK, TransportOK, Transports, PendingIsCarriedHere
<1>2. CASE sync.request = None
  <2>. DEFINE t == transport
  <2>1. /\ transport' = Request(transport, "getSnapshot")
        /\ sync' = IF transport.nextId \in transport'.pending
                   THEN [request |-> transport.nextId, again |-> FALSE] ELSE NotSyncing
    BY <1>2 DEF StartSync
  <2>2. TransportOK(transport)
    BY DEF SyncInv, TypeOK
  <2>3. /\ \A m \in transport.queue \cup transport.wire :
              m.body = "getSnapshot" => m.id \notin transport.pending
        /\ \A id \in DOMAIN reads' :
              id \in Nat /\ id < transport.nextId /\ id \notin transport.pending
        /\ \A i \in DOMAIN inbox' : inbox'[i].type = "snapshot" =>
              /\ inbox'[i].id \in Nat /\ inbox'[i].id < transport.nextId
              /\ inbox'[i].id \notin transport.pending
    BY <1>2, NoneAwaited DEF InboxShrinks
  <2>4. /\ Asks(transport, transport', Message(transport.nextId, TRUE, NoKey, "getSnapshot"))
        /\ sync' \in [request : Nat \cup {None}, again : BOOLEAN] /\ ~sync'.again
        /\ OneFetch'
        /\ transport.socket = "open" => sync'.request = transport.nextId /\ sync'.request # None
        /\ \A r : ~Possible(r)'
    BY <2>1, <2>2, <2>3, FetchStarts
  <2>5. PendingIsCarriedHere'
    BY <2>4 DEF Asks, SyncInv, PendingIsCarriedHere
  <2>. QED
    BY <2>2, <2>4, <2>5 DEF Asks, TransportOK, Transports
<1>. QED
  BY <1>1, <1>2

\* The events that no push will bring any more, and the others.
LEMMA HeardFacts ==
    ASSUME TypeOK, InboxOK
    PROVE  /\ Heard \in 0 .. published /\ Heard \in Nat
           /\ \A k \in 1 .. published : k <= Heard \/ \E i \in DOMAIN inbox : inbox[i] = Push(k)
           /\ \A i \in DOMAIN inbox : inbox[i].type = "event" => inbox[i].n > Heard
<1>1. \A i \in DOMAIN inbox : inbox[i].type = "event" => inbox[i].n \in 1 .. published
  BY DEF InboxOK, Fits, Welcome, Snapshot, Answer
<1>2. published \in Nat
  BY DEF TypeOK
<1>3. CASE \E i \in DOMAIN inbox : inbox[i].type = "event"
  <2>. DEFINE S == {inbox[i].n : i \in {j \in DOMAIN inbox : inbox[j].type = "event"}}
              First(n) == /\ \E i \in DOMAIN inbox : inbox[i] = Push(n + 1)
                          /\ \A i \in DOMAIN inbox : inbox[i].type = "event" => inbox[i].n > n
  <2>1. S \in SUBSET Nat /\ S # {}
    BY <1>1, <1>3
  <2>2. PICK least \in S : \A k \in S : least <= k
    BY <2>1, LeastNumber
  <2>3. PICK i \in DOMAIN inbox : inbox[i].type = "event" /\ inbox[i].n = least
    BY <2>2
  <2>4. least \in 1 .. published /\ inbox[i] = Push(least)
    BY <1>1, <2>3 DEF InboxOK, Fits, Welcome, Snapshot, Answer
  <2>5. First(least - 1) /\ least - 1 \in 0 .. published
    <3>1. \A j \in DOMAIN inbox : inbox[j].type = "event" => inbox[j].n >= least
      BY <1>1, <2>2, <2>4
    <3>. QED
      BY <1>1, <1>2, <2>4, <3>1
  <2>6. Heard \in 0 .. published /\ First(Heard)
    BY <1>3, <2>5 DEF Heard
  <2>7. PICK j \in DOMAIN inbox : inbox[j] = Push(Heard + 1)
    BY <2>6
  <2>8. ASSUME NEW k \in 1 .. published, ~(k <= Heard)
        PROVE  \E l \in DOMAIN inbox : inbox[l] = Push(k)
    <3>1. inbox[j].type = "event" /\ k \in inbox[j].n .. published
      BY <1>2, <2>6, <2>7, <2>8 DEF Push
    <3>. QED
      BY <3>1 DEF InboxOK
  <2>. QED
    BY <1>2, <2>6, <2>8
<1>4. CASE ~\E i \in DOMAIN inbox : inbox[i].type = "event"
  BY <1>2, <1>4 DEF Heard
<1>. QED
  BY <1>3, <1>4

\* A use leaves budgets.
LEMMA UseType ==
    ASSUME TypeOK, NEW what \in Fields, left[what] > 0, Use(what)
    PROVE  left' \in [Fields -> Nat]
BY DEF TypeOK, Use, Fields

\* The fetch in flight stays what it is, while requests are sent and read and answers come.
LEMMA OneFetchStays ==
    ASSUME SyncInv, sync' = sync,
           transport'.nextId \in Nat, transport.nextId <= transport'.nextId,
           \A m \in transport'.queue \cup transport'.wire :
               m \in transport.queue \cup transport.wire \/ m.body # "getSnapshot",
           \A id \in transport'.pending : id \in transport.pending \/ id >= transport.nextId,
           \A id \in DOMAIN reads' : id \in DOMAIN reads \/
               \E m \in transport.wire : m.body = "getSnapshot" /\ m.id = id,
           \A i \in DOMAIN inbox' : inbox'[i].type = "snapshot" =>
               inbox'[i].id \in DOMAIN reads \/ \E j \in DOMAIN inbox : inbox'[i] = inbox[j]
    PROVE  OneFetch'
<1>1. /\ transport.nextId \in Nat
      /\ \A m \in transport.queue \cup transport.wire : m.id \in Nat /\ m.id < transport.nextId
  BY DEF SyncInv, TypeOK, TransportOK, Transports, Messages
<1>2. \A id \in Nat : id < transport.nextId /\ Ours(id) => Ours(id)'
  BY <1>1 DEF Ours
<1>3. \A i \in DOMAIN inbox : inbox[i].type = "snapshot" =>
          inbox[i].id \in Nat /\ inbox[i].id < transport.nextId
  BY DEF SyncInv, InboxOK, Fits, Welcome, Push, Answer
<1>4. \A m \in transport'.queue \cup transport'.wire : m.body = "getSnapshot" => Ours(m.id)'
  BY <1>1, <1>2 DEF SyncInv, OneFetch
<1>5. \A id \in DOMAIN reads' : id \in Nat /\ id < transport'.nextId /\ Ours(id)'
  BY <1>1, <1>2 DEF SyncInv, OneFetch
<1>6. \A i \in DOMAIN inbox' : inbox'[i].type = "snapshot" => Ours(inbox[i].id)'
  BY <1>1, <1>2, <1>3 DEF SyncInv, OneFetch
<1>7. sync'.request # None => sync'.request < transport'.nextId
  BY <1>1 DEF SyncInv, OneFetch, TypeOK
<1>. QED
  BY <1>4, <1>5, <1>6, <1>7 DEF SyncInv, OneFetch

-----------------------------------------------------------------------------
(* Every step keeps what is where. *)

LEMMA InitSync == Init => SyncInv
<1>. SUFFICES ASSUME Init PROVE SyncInv
  OBVIOUS
<1>1. TransportOK(transport) /\ PendingIsCarried(transport)
  BY DEF Init, NewTransport, TransportOK, Transports, PendingIsCarried
<1>2. log \in Seq([on : Threads \cup {Project}, what : Kinds]) /\ Len(log) \in Nat
  <2>. DEFINE Events == [on : Threads \cup {Project}, what : Kinds]
  <2>1. log \in Pasts /\ Pasts \subseteq Seq(Events)
    BY PastsAssumption DEF Init
  <2>. HIDE DEF Events
  <2>2. log \in Seq(Events) /\ Len(log) \in Nat
    BY <2>1
  <2>. QED
    BY <2>2 DEF Events
<1>3. TypeOK
  <2>1. left \in [Fields -> Nat]
    <3>1. left \in [events : Nat, moves : Nat, drops : Nat, faults : Nat, writes : Nat]
      BY BudgetsAssumption DEF Init
    <3>. QED
      BY <3>1 DEF Fields
  <2>2. sync \in [request : Nat \cup {None}, again : BOOLEAN] /\ inbox \in Seq(Brought)
    BY DEF Init
  <2>3. published \in 0 .. Len(log)
    BY <1>2 DEF Init
  <2>4. /\ latest = 0 /\ throttled = FALSE /\ settling = TRUE /\ welcomed = FALSE /\ deferred = {}
        /\ route \in Routes /\ view = None /\ archived = {} /\ guarded = {} /\ excused = 0
        /\ DOMAIN reads = {}
    BY DEF Init
  <2>. QED
    BY <1>1, <1>2, <2>1, <2>2, <2>3, <2>4 DEF TypeOK
<1>4. InboxOK /\ Connected
  BY <1>1 DEF Init, InboxOK, Connected, NewTransport
<1>5. OneFetch
  BY DEF Init, OneFetch, NewTransport
<1>. QED
  BY <1>1, <1>3, <1>4, <1>5 DEF SyncInv, PendingIsCarriedHere

LEMMA CommitSync ==
    ASSUME SyncInv, Commit
    PROVE  SyncInv' /\ Len(log') = Len(log) + 1 /\ \A i \in 1 .. Len(log) : log'[i] = log[i]
<1>1. PICK e : e \in [on : Threads \cup {Project}, what : Kinds] /\ log' = Append(log, e)
  BY DEF Commit
<1>2. /\ published' = published /\ reads' = reads /\ inbox' = inbox /\ transport' = transport
      /\ UNCHANGED client /\ route' = route /\ settling' = settling
  BY DEF Commit
<1>3. /\ log' \in Seq([on : Threads \cup {Project}, what : Kinds]) /\ Len(log) \in Nat
      /\ Len(log') = Len(log) + 1 /\ \A i \in 1 .. Len(log) : log'[i] = log[i]
  BY <1>1 DEF SyncInv, TypeOK
<1>4. left' \in [Fields -> Nat]
  BY UseType DEF Commit, Fields, SyncInv
<1>5. TypeOK'
  BY <1>2, <1>3, <1>4 DEF SyncInv, TypeOK, client
<1>6. InboxOK'
  BY <1>2, <1>3, InboxStays DEF SyncInv, TypeOK, client, TransportOK, Transports
<1>7. Connected' /\ OneFetch' /\ PendingIsCarriedHere'
  BY <1>2 DEF SyncInv, Connected, OneFetch, Ours, PendingIsCarriedHere, client
<1>. QED
  BY <1>3, <1>5, <1>6, <1>7 DEF SyncInv

LEMMA PublishSync ==
    ASSUME SyncInv, Publish
    PROVE  SyncInv'
<1>1. /\ log' = log /\ reads' = reads /\ transport' = transport /\ UNCHANGED client
      /\ route' = route /\ settling' = settling /\ left' = left
      /\ published < Len(log) /\ published' = published + 1
  BY DEF Publish
<1>2. CASE transport.socket = "open"
  <2>1. inbox' \in Seq(Brought) /\ InboxOK' /\ inbox' # <<>>
    BY <1>1, <1>2, InboxPushed DEF Publish, SyncInv, client
  <2>2. TypeOK'
    BY <1>1, <2>1 DEF SyncInv, TypeOK, client
  <2>3. Connected' /\ PendingIsCarriedHere'
    BY <1>1, <1>2, <2>1 DEF SyncInv, Connected, PendingIsCarriedHere
  <2>4. \A i \in DOMAIN inbox' : inbox'[i].type = "snapshot" => \E j \in DOMAIN inbox : inbox'[i] = inbox[j]
    <3>1. Push(published + 1) \in Brought /\ Push(published + 1).type # "snapshot"
      BY DEF Push, Brought, SyncInv, TypeOK
    <3>2. inbox' = Append(inbox, Push(published + 1))
      BY <1>2 DEF Publish
    <3>. QED
      BY <3>1, <3>2, InboxAppended DEF SyncInv, TypeOK
  <2>5. OneFetch'
    BY <1>1, <2>4, OneFetchStays DEF SyncInv, TypeOK, TransportOK, Transports, client
  <2>. QED
    BY <2>1, <2>2, <2>3, <2>5 DEF SyncInv
<1>3. CASE transport.socket # "open"
  <2>1. inbox' = inbox /\ inbox = <<>> /\ ~welcomed
    BY <1>3 DEF Publish, SyncInv, Connected
  <2>2. TypeOK' /\ InboxOK'
    BY <1>1, <2>1 DEF SyncInv, TypeOK, InboxOK, client
  <2>3. Connected' /\ PendingIsCarriedHere' /\ OneFetch'
    BY <1>1, <2>1 DEF SyncInv, Connected, PendingIsCarriedHere, OneFetch, Ours, client
  <2>. QED
    BY <2>2, <2>3 DEF SyncInv
<1>. QED
  BY <1>2, <1>3

LEMMA RouteRequestSync ==
    ASSUME SyncInv, RouteRequest
    PROVE  SyncInv'
<1>. SUFFICES ASSUME NEW m, m = Oldest(transport.wire) PROVE SyncInv'
  OBVIOUS
<1>1. /\ log' = log /\ published' = published /\ UNCHANGED client
      /\ route' = route /\ settling' = settling /\ left' = left
      /\ transport.wire # {}
      /\ reads' = IF m.body = "getSnapshot"
                  THEN [id \in DOMAIN reads \cup {m.id} |-> IF id = m.id THEN None ELSE reads[id]]
                  ELSE reads
      /\ inbox' = IF m.body = "command" THEN Append(inbox, Answer(m.id)) ELSE inbox
      /\ transport' = [transport EXCEPT !.wire = @ \ {m}]
  BY DEF RouteRequest
<1>2. m \in transport.wire /\ m.id \in Nat /\ m.id < transport.nextId
  BY <1>1, OldestIsOne DEF SyncInv, TypeOK, TransportOK, Transports, Messages
<1>3. transport.socket = "open"
  BY <1>1 DEF SyncInv, Connected
<1>4. /\ TransportOK(transport') /\ transport'.socket = transport.socket
      /\ transport'.nextId = transport.nextId /\ transport'.pending = transport.pending
      /\ transport'.queue = transport.queue /\ transport'.wire = transport.wire \ {m}
      /\ transport'.asked = transport.asked
  <2>1. transport \in Transports /\ transport.wire \ {m} \in SUBSET Messages
    BY DEF SyncInv, TypeOK, TransportOK, Transports
  <2>2. /\ transport' \in Transports /\ transport'.socket = transport.socket
        /\ transport'.nextId = transport.nextId /\ transport'.pending = transport.pending
        /\ transport'.queue = transport.queue /\ transport'.wire = transport.wire \ {m}
        /\ transport'.asked = transport.asked
    BY <1>1, <2>1 DEF Transports
  <2>. QED
    BY <2>2 DEF SyncInv, TypeOK, TransportOK
<1>5. \A id \in DOMAIN reads' :
         \/ id \in DOMAIN reads /\ reads'[id] = reads[id]
         \/ id = m.id /\ m.body = "getSnapshot" /\ reads'[id] = None
  BY <1>1
<1>6. inbox' \in Seq(Brought) /\ InboxOK' /\ (inbox' # <<>> \/ inbox' = inbox)
  <2>1. CASE m.body = "command"
    <3>1. inbox' = Append(inbox, Answer(m.id)) /\ 0 \in 0 .. Len(log)
      BY <1>1, <2>1 DEF SyncInv, TypeOK
    <3>. QED
      BY <1>1, <1>2, <1>3, <1>4, <3>1, InboxAnswered DEF SyncInv, client
  <2>2. CASE m.body # "command"
    BY <1>1, <1>4, <2>2, InboxStays DEF SyncInv, TypeOK, TransportOK, Transports, client
  <2>. QED
    BY <2>1, <2>2
<1>7. \A i \in DOMAIN inbox' : inbox'[i].type = "snapshot" => \E j \in DOMAIN inbox : inbox'[i] = inbox[j]
  <2>1. Answer(m.id) \in Brought /\ Answer(m.id).type # "snapshot"
    BY <1>2 DEF Answer, Brought
  <2>. QED
    BY <1>1, <2>1, InboxAppended DEF SyncInv, TypeOK
<1>8. OneFetch'
  BY <1>1, <1>2, <1>4, <1>5, <1>7, OneFetchStays DEF SyncInv, TypeOK, TransportOK, Transports, client
<1>9. TypeOK'
  BY <1>1, <1>4, <1>5, <1>6 DEF SyncInv, TypeOK, client
<1>10. Connected' /\ PendingIsCarriedHere'
  BY <1>1, <1>3, <1>4, <1>6
     DEF SyncInv, Connected, PendingIsCarriedHere, PendingIsCarried, Queued, client
<1>. QED
  BY <1>6, <1>8, <1>9, <1>10 DEF SyncInv

LEMMA ReadSnapshotSync ==
    ASSUME SyncInv, ReadSnapshot
    PROVE  SyncInv' /\ \E id \in DOMAIN reads : /\ reads[id] = None
                                                /\ reads' = [reads EXCEPT ![id] = Len(log)]
<1>1. PICK id \in DOMAIN reads : reads[id] = None /\ reads' = [reads EXCEPT ![id] = Len(log)]
  BY DEF ReadSnapshot
<1>2. /\ log' = log /\ published' = published /\ inbox' = inbox /\ transport' = transport
      /\ UNCHANGED client /\ route' = route /\ settling' = settling /\ left' = left
  BY DEF ReadSnapshot
<1>3. /\ DOMAIN reads' = DOMAIN reads
      /\ \A i \in DOMAIN reads : reads'[i] = IF i = id THEN Len(log) ELSE reads[i]
  BY <1>1
<1>4. Len(log) \in 0 .. Len(log)
  BY DEF SyncInv, TypeOK
<1>5. TypeOK'
  BY <1>2, <1>3, <1>4 DEF SyncInv, TypeOK, client
<1>6. InboxOK'
  BY <1>2, InboxStays DEF SyncInv, TypeOK, TransportOK, Transports, client
<1>7. Connected' /\ OneFetch' /\ PendingIsCarriedHere'
  BY <1>2, <1>3 DEF SyncInv, Connected, OneFetch, Ours, PendingIsCarriedHere, client
<1>. QED
  BY <1>1, <1>5, <1>6, <1>7 DEF SyncInv

\* A read is answered, by what was read or by an error.
LEMMA ReadAnswered ==
    ASSUME SyncInv, NEW id \in DOMAIN reads, NEW n \in 0 .. Len(log),
           NEW m \in {Answer(id), Snapshot(id, n)},
           inbox' = Append(inbox, m), reads' = [i \in DOMAIN reads \ {id} |-> reads[i]],
           UNCHANGED <<log, published, transport, client, route, settling>>,
           left' \in [Fields -> Nat]
    PROVE  SyncInv'
<1>1. /\ log' = log /\ published' = published /\ transport' = transport
      /\ UNCHANGED client /\ route' = route /\ settling' = settling
  OBVIOUS
<1>2. transport.socket = "open" /\ id \in Nat /\ id < transport.nextId
  BY DEF SyncInv, Connected, OneFetch
<1>3. inbox' \in Seq(Brought) /\ InboxOK' /\ inbox' # <<>>
  BY <1>1, <1>2, InboxAnswered DEF SyncInv, client
<1>4. DOMAIN reads' \subseteq DOMAIN reads /\ \A i \in DOMAIN reads' : reads'[i] = reads[i]
  OBVIOUS
<1>5. TypeOK'
  BY <1>1, <1>3, <1>4 DEF SyncInv, TypeOK, client
<1>6. \A i \in DOMAIN inbox' : inbox'[i].type = "snapshot" =>
          inbox'[i].id \in DOMAIN reads \/ \E j \in DOMAIN inbox : inbox'[i] = inbox[j]
  <2>1. m \in Brought /\ m.id = id
    BY <1>2 DEF Answer, Snapshot, Brought, SyncInv, TypeOK
  <2>. QED
    BY <2>1, InboxAppended DEF SyncInv, TypeOK
<1>7. OneFetch'
  BY <1>1, <1>4, <1>6, OneFetchStays DEF SyncInv, TypeOK, TransportOK, Transports, client
<1>8. Connected' /\ PendingIsCarriedHere'
  BY <1>1, <1>2, <1>3 DEF SyncInv, Connected, PendingIsCarriedHere
<1>. QED
  BY <1>3, <1>5, <1>7, <1>8 DEF SyncInv

LEMMA RespondSync ==
    ASSUME SyncInv, Respond
    PROVE  SyncInv'
<1>1. PICK id \in DOMAIN reads :
         /\ reads[id] # None /\ inbox' = Append(inbox, Snapshot(id, reads[id]))
         /\ reads' = [i \in DOMAIN reads \ {id} |-> reads[i]]
  BY DEF Respond
<1>2. reads[id] \in 0 .. Len(log) /\ left \in [Fields -> Nat]
  BY <1>1 DEF SyncInv, TypeOK
<1>3. UNCHANGED <<log, published, transport, client, route, settling>> /\ left' = left
  BY DEF Respond
<1>. QED
  BY <1>1, <1>2, <1>3, ReadAnswered

LEMMA ReadFailsSync ==
    ASSUME SyncInv, ReadFails
    PROVE  SyncInv'
<1>1. PICK id \in DOMAIN reads :
         /\ inbox' = Append(inbox, Answer(id))
         /\ reads' = [i \in DOMAIN reads \ {id} |-> reads[i]]
  BY DEF ReadFails
<1>2. 0 \in 0 .. Len(log)
  BY DEF SyncInv, TypeOK
<1>3. UNCHANGED <<log, published, transport, client, route, settling>>
  BY DEF ReadFails
<1>4. left' \in [Fields -> Nat]
  BY UseType DEF ReadFails, Fields, SyncInv
<1>. QED
  BY <1>1, <1>2, <1>3, <1>4, ReadAnswered

\* What a handled message leaves behind it.
LEMMA InboxLessened ==
    ASSUME inbox \in Seq(Brought), inbox # <<>>, inbox' = Tail(inbox)
    PROVE  InboxShrinks
BY InboxTail DEF InboxShrinks

\* The steps of the router: how it is put together from its parts.
LEMMA RouterSync ==
    ASSUME SyncInv, log' = log, published' = published, reads' = reads,
           inbox' \in Seq(Brought), InboxOK', OneFetch', PendingIsCarriedHere',
           TransportOK(transport'), transport'.socket = transport.socket,
           transport.socket # "open" => transport'.wire = transport.wire,
           inbox' # inbox => welcomed', welcomed => welcomed',
           welcomed' => transport.socket = "open",
           transport.socket # "open" => inbox' = inbox,
           welcomed' \in BOOLEAN, throttled' \in BOOLEAN, settling' \in BOOLEAN,
           sync' \in [request : Nat \cup {None}, again : BOOLEAN],
           latest' \in Nat, deferred' \subseteq Threads, route' \in Routes,
           view' = None \/ view' \in 0 .. Len(log),
           archived' \cup guarded' \subseteq Threads \cup {Project}, excused' \in Nat, left' \in [Fields -> Nat]
    PROVE  SyncInv'
<1>1. TypeOK'
  BY DEF SyncInv, TypeOK
<1>2. Connected'
  BY DEF SyncInv, Connected
<1>. QED
  BY <1>1, <1>2 DEF SyncInv

LEMMA EventsAre ==
    ASSUME TypeOK
    PROVE  /\ Len(log) \in Nat
           /\ \A i \in 1 .. Len(log) : log[i] \in [on : Threads \cup {Project}, what : Kinds]
<1>. DEFINE Events == [on : Threads \cup {Project}, what : Kinds]
<1>1. log \in Seq(Events)
  BY DEF TypeOK
<1>. HIDE DEF Events
<1>2. Len(log) \in Nat /\ \A i \in 1 .. Len(log) : log[i] \in Events
  BY <1>1
<1>. QED
  BY <1>2 DEF Events

LEMMA CreatedAre ==
    ASSUME TypeOK, NEW n \in 0 .. Len(log)
    PROVE  Created(n) \subseteq Threads \cup {Project} /\ ArchivedAfter(n) \subseteq Created(n)
<1>1. \A i \in 1 .. n : log[i].on \in Threads \cup {Project}
  BY EventsAre DEF TypeOK
<1>2. OldThreads \subseteq Threads
  BY ThreadsAssumption
<1>3. ASSUME NEW t \in Created(n) PROVE t \in Threads \cup {Project}
  <2>1. t \in OldThreads \/ \E i \in 1 .. n : t = log[i].on
    BY <1>3 DEF Created
  <2>. QED
    BY <1>1, <1>2, <2>1
<1>4. ArchivedAfter(n) \subseteq Created(n)
  BY DEF ArchivedAfter
<1>. QED
  BY <1>3, <1>4

\* The fetch in flight fails, if its answer is awaited no longer.
LEMMA SyncFailedFacts ==
    ASSUME SyncInv, NEW t, NEW id, Forgets(transport, t, id), SyncFailed(t), reads' = reads,
           InboxShrinks
    PROVE  /\ TransportOK(transport') /\ PendingIsCarriedHere' /\ OneFetch'
           /\ transport'.socket = transport.socket /\ transport'.nextId = transport.nextId
           /\ transport'.wire = transport.wire /\ transport.nextId \in Nat
           /\ sync' \in [request : Nat \cup {None}, again : BOOLEAN]
           /\ excused' \in Nat
           /\ \/ sync' = sync /\ excused' = excused
              \/ sync'.request = None /\ ~sync'.again /\ excused' = Heard
           /\ \A r : Possible(r)' => Possible(r)
<1>1. transport' = t
  BY DEF SyncFailed
<1>2. /\ TransportOK(t) /\ PendingIsCarriedHere' /\ t.socket = transport.socket
      /\ t.nextId = transport.nextId /\ t.wire = transport.wire /\ t.queue \subseteq transport.queue
      /\ t.pending \subseteq transport.pending /\ transport.nextId \in Nat
      /\ transport.pending \subseteq Nat
  BY <1>1 DEF Forgets, SyncInv, PendingIsCarriedHere, TypeOK, TransportOK, Transports
<1>3. Heard \in Nat
  BY HeardFacts DEF SyncInv
<1>4. /\ sync' = IF sync.request \in t.pending THEN sync ELSE NotSyncing
      /\ excused' = IF sync' # sync THEN Heard ELSE excused
  BY DEF SyncFailed
<1>5. CASE sync' = sync
  <2>1. /\ \A m \in transport'.queue \cup transport'.wire : m \in transport.queue \cup transport.wire
        /\ \A i \in transport'.pending : i \in transport.pending
        /\ transport'.nextId \in Nat /\ transport.nextId <= transport'.nextId
    BY <1>1, <1>2
  <2>2. OneFetch'
    BY <1>5, <2>1, OneFetchStays DEF InboxShrinks
  <2>3. \A r : Possible(r)' => Possible(r)
    BY <1>5 DEF Possible, InboxShrinks, Snapshot
  <2>. QED
    BY <1>1, <1>2, <1>4, <1>5, <2>2, <2>3 DEF SyncInv, TypeOK
<1>6. CASE sync' # sync
  <2>1. sync.request \notin t.pending /\ sync' = NotSyncing /\ excused' = Heard
    BY <1>4, <1>6
  <2>2. /\ sync' \in [request : Nat \cup {None}, again : BOOLEAN] /\ sync'.request = None
        /\ ~sync'.again
    BY <2>1 DEF NotSyncing
  <2>3. \A i : Ours(i) => Ours(i)'
    BY <1>1, <1>2, <2>1 DEF Ours
  <2>4. OneFetch'
    BY <1>1, <1>2, <2>2, <2>3 DEF SyncInv, OneFetch, InboxShrinks
  <2>5. \A r : ~Possible(r)'
    BY <2>2 DEF Possible
  <2>. QED
    BY <1>1, <1>2, <1>3, <2>1, <2>2, <2>4, <2>5
<1>. QED
  BY <1>5, <1>6

\* A snapshot that is awaited answers the fetch in flight, and the next one has not been read.
LEMMA SnapshotFacts ==
    ASSUME SyncInv, HandleSnapshot, NEW m, m = Head(inbox)
    PROVE  /\ transport.socket = "open" /\ welcomed /\ InboxShrinks
           /\ m = Snapshot(m.id, m.n) /\ m.n \in 0 .. Len(log)
           /\ TransportOK(transport') /\ PendingIsCarriedHere' /\ OneFetch'
           /\ transport'.socket = transport.socket
           /\ transport.nextId <= transport'.nextId /\ transport'.nextId \in Nat
           /\ sync' \in [request : Nat \cup {None}, again : BOOLEAN]
           /\ m.id \in transport.pending =>
                 /\ sync.request = m.id /\ Possible(m.n)
                 /\ sync.again => sync'.request # None
                 /\ \A r : ~Possible(r)'
           /\ m.id \notin transport.pending =>
                 sync' = sync /\ \A r : Possible(r)' => Possible(r)
<1>1. /\ inbox # <<>> /\ m.type = "snapshot" /\ inbox' = Tail(inbox) /\ reads' = reads
  BY DEF HandleSnapshot, server
<1>2. inbox \in Seq(Brought) /\ m = inbox[1] /\ 1 \in DOMAIN inbox /\ InboxShrinks
  BY <1>1, InboxTail, InboxLessened DEF SyncInv, TypeOK
<1>3. /\ m = Snapshot(m.id, m.n) /\ m.n \in 0 .. Len(log) /\ m.id \in Nat
      /\ m.id < transport.nextId
  BY <1>1, <1>2 DEF SyncInv, InboxOK, Fits, Welcome
<1>4. transport.socket = "open" /\ welcomed
  <2>1. transport.socket = "open"
    BY <1>1 DEF SyncInv, Connected
  <2>2. ~welcomed => m = Welcome
    BY <1>1, <1>2 DEF SyncInv, InboxOK
  <2>. QED
    BY <1>1, <2>1, <2>2 DEF Welcome
<1>. DEFINE t == Answered(transport, m.id)
<1>5. Forgets(transport, t, m.id)
  BY AnsweredFacts DEF SyncInv, TypeOK
<1>. HIDE DEF t
<1>6. /\ TransportOK(t) /\ PendingIsCarried(t) /\ t.socket = "open" /\ t.nextId = transport.nextId
      /\ t.pending = transport.pending \ {m.id} /\ t.wire = transport.wire
      /\ t.queue \subseteq transport.queue /\ t.nextId \in Nat
      /\ transport.pending \subseteq Nat
  BY <1>4, <1>5 DEF Forgets, SyncInv, PendingIsCarriedHere, TypeOK, TransportOK, Transports
<1>7. CASE m.id \in transport.pending
  <2>1. sync.request = m.id /\ sync.request # None
    BY <1>1, <1>2, <1>3, <1>7, NoneAssumption DEF SyncInv, OneFetch, Ours
  <2>2. Possible(m.n)
    BY <1>2, <1>3, <2>1 DEF Possible
  <2>3. \A i : Ours(i) => i \notin t.pending
    BY <1>6, <2>1 DEF Ours
  <2>4. /\ \A q \in t.queue \cup t.wire : q.body = "getSnapshot" => q.id \notin t.pending
        /\ \A id \in DOMAIN reads' : id \in Nat /\ id < t.nextId /\ id \notin t.pending
    BY <1>1, <1>6, <2>3 DEF SyncInv, OneFetch
  <2>5. \A i \in DOMAIN inbox' : inbox'[i].type = "snapshot" =>
            /\ inbox'[i].id \in Nat /\ inbox'[i].id < t.nextId
            /\ inbox'[i].id \notin t.pending
    <3>1. \A i \in DOMAIN inbox : inbox[i].type = "snapshot" =>
             inbox[i].id \in Nat /\ inbox[i].id < transport.nextId
      BY DEF SyncInv, InboxOK, Fits, Welcome, Push, Answer
    <3>. QED
      BY <1>2, <1>6, <2>3, <3>1 DEF SyncInv, OneFetch, InboxShrinks
  <2>6. CASE sync.again
    <3>1. /\ transport' = Request(t, "getSnapshot")
          /\ sync' = IF t.nextId \in transport'.pending
                     THEN [request |-> t.nextId, again |-> FALSE] ELSE NotSyncing
      BY <1>7, <2>6 DEF HandleSnapshot, t
    <3>2. /\ Asks(t, transport', Message(t.nextId, TRUE, NoKey, "getSnapshot"))
          /\ sync' \in [request : Nat \cup {None}, again : BOOLEAN] /\ ~sync'.again
          /\ OneFetch'
          /\ t.socket = "open" => sync'.request = t.nextId /\ sync'.request # None
          /\ \A r : ~Possible(r)'
      BY <1>6, <2>4, <2>5, <3>1, FetchStarts
    <3>. QED
      BY <1>2, <1>3, <1>4, <1>6, <1>7, <2>1, <2>2, <3>2 DEF Asks, PendingIsCarriedHere
  <2>7. CASE ~sync.again
    <3>1. transport' = t /\ sync' = NotSyncing
      BY <1>7, <2>7 DEF HandleSnapshot, t
    <3>2. /\ sync' \in [request : Nat \cup {None}, again : BOOLEAN] /\ sync'.request = None
          /\ ~sync'.again
      BY <3>1 DEF NotSyncing
    <3>3. OneFetch'
      BY <1>6, <2>4, <2>5, <3>1, <3>2 DEF OneFetch, Ours
    <3>. QED
      BY <1>2, <1>3, <1>4, <1>6, <1>7, <2>1, <2>2, <2>7, <3>1, <3>2, <3>3
         DEF PendingIsCarriedHere, Possible
  <2>. QED
    BY <2>6, <2>7
<1>8. CASE m.id \notin transport.pending
  <2>1. transport' = t /\ sync' = sync
    BY <1>8 DEF HandleSnapshot, t
  <2>2. OneFetch'
    <3>1. \A i \in transport'.pending : i \in transport.pending
      BY <1>6, <2>1
    <3>2. \A q \in transport'.queue \cup transport'.wire : q \in transport.queue \cup transport.wire
      BY <1>6, <2>1
    <3>3. transport'.nextId \in Nat /\ transport.nextId <= transport'.nextId
      BY <1>6, <2>1
    <3>. QED
      BY <1>1, <1>2, <2>1, <3>1, <3>2, <3>3, OneFetchStays DEF InboxShrinks
  <2>3. \A r : Possible(r)' => Possible(r)
    BY <1>1, <1>2, <2>1 DEF Possible, InboxShrinks, Snapshot
  <2>. QED
    BY <1>2, <1>3, <1>4, <1>6, <1>8, <2>1, <2>2, <2>3 DEF SyncInv, TypeOK, PendingIsCarriedHere
<1>. QED
  BY <1>7, <1>8

LEMMA HandleSnapshotSync ==
    ASSUME SyncInv, HandleSnapshot
    PROVE  SyncInv'
<1>. SUFFICES ASSUME NEW m, m = Head(inbox) PROVE SyncInv'
  OBVIOUS
<1>1. /\ inbox # <<>> /\ inbox' = Tail(inbox) /\ m.type = "snapshot"
      /\ log' = log /\ published' = published /\ reads' = reads
      /\ throttled' = throttled /\ deferred' = deferred /\ route' = route /\ settling' = settling
      /\ welcomed' = welcomed /\ excused' = excused /\ left' = left
  BY DEF HandleSnapshot, server
<1>2. /\ transport.socket = "open" /\ welcomed /\ InboxShrinks /\ m.n \in 0 .. Len(log)
      /\ TransportOK(transport') /\ PendingIsCarriedHere' /\ OneFetch'
      /\ transport'.socket = transport.socket
      /\ transport.nextId <= transport'.nextId /\ transport'.nextId \in Nat
      /\ sync' \in [request : Nat \cup {None}, again : BOOLEAN]
  BY SnapshotFacts
<1>3. inbox' \in Seq(Brought) /\ InboxOK'
  BY <1>1, <1>2, InboxHandled DEF SyncInv
<1>4. /\ view' = None \/ view' \in 0 .. Len(log)
      /\ latest' \in Nat
      /\ archived' \cup guarded' \subseteq Threads \cup {Project}
  <2>1. CASE m.id \in transport.pending
    <3>1. /\ latest' = (IF m.n > latest THEN m.n ELSE latest) /\ SyncServerReadModel(m.n)
      BY <2>1 DEF HandleSnapshot
    <3>2. ArchivedAfter(m.n) \subseteq Threads \cup {Project}
      BY <1>2, CreatedAre DEF SyncInv
    <3>3. view' = m.n /\ guarded' \subseteq guarded /\ archived' \subseteq ArchivedAfter(m.n) \cup archived
      BY <3>1 DEF SyncServerReadModel
    <3>4. m.n \in Nat
      BY <1>2 DEF SyncInv, TypeOK
    <3>. QED
      BY <1>2, <3>1, <3>2, <3>3, <3>4 DEF SyncInv, TypeOK
  <2>2. CASE m.id \notin transport.pending
    <3>1. UNCHANGED <<latest, view, archived, guarded>>
      BY <2>2 DEF HandleSnapshot
    <3>. QED
      BY <3>1 DEF SyncInv, TypeOK
  <2>. QED
    BY <2>1, <2>2
<1>. QED
  BY <1>1, <1>2, <1>3, <1>4, RouterSync DEF SyncInv, TypeOK

LEMMA HandleAnswerSync ==
    ASSUME SyncInv, HandleAnswer
    PROVE  SyncInv' /\ InboxShrinks
<1>. DEFINE t == Answered(transport, Head(inbox).id)
<1>1. /\ inbox # <<>> /\ inbox' = Tail(inbox) /\ Head(inbox).type = "answer" /\ SyncFailed(t)
      /\ log' = log /\ published' = published /\ reads' = reads
      /\ UNCHANGED <<latest, throttled, deferred, view, archived, guarded, welcomed, ignored, route,
                     settling, left>>
  BY DEF HandleAnswer, server
<1>2. InboxShrinks
  BY <1>1, InboxLessened DEF SyncInv, TypeOK
<1>3. Forgets(transport, t, Head(inbox).id)
  BY AnsweredFacts DEF SyncInv, TypeOK
<1>. HIDE DEF t
<1>4. /\ TransportOK(transport') /\ PendingIsCarriedHere' /\ OneFetch'
      /\ transport'.socket = transport.socket /\ transport'.nextId = transport.nextId
      /\ transport'.wire = transport.wire /\ transport.nextId \in Nat
      /\ sync' \in [request : Nat \cup {None}, again : BOOLEAN] /\ excused' \in Nat
  BY <1>1, <1>2, <1>3, SyncFailedFacts
<1>5. inbox' \in Seq(Brought) /\ InboxOK' /\ welcomed
  <2>1. welcomed' = (welcomed \/ Head(inbox).type = "welcome")
    BY <1>1 DEF SyncInv, TypeOK
  <2>. QED
    BY <1>1, <1>4, <2>1, InboxHandled DEF SyncInv
<1>6. transport.socket = "open"
  BY <1>1 DEF SyncInv, Connected
<1>. QED
  BY <1>1, <1>2, <1>4, <1>5, <1>6, RouterSync DEF SyncInv, TypeOK

\* What leaves the inbox and the transport's ids alone.
LEMMA InboxKept ==
    ASSUME SyncInv, inbox' = inbox, published' = published, welcomed' = welcomed, log' = log,
           transport'.nextId \in Nat, transport.nextId <= transport'.nextId
    PROVE  /\ inbox' \in Seq(Brought) /\ InboxOK' /\ InboxShrinks
           /\ welcomed' => transport.socket = "open"
<1>1. Len(log') \in Nat /\ Len(log) <= Len(log')
  BY DEF SyncInv, TypeOK
<1>2. InboxOK'
  BY <1>1, InboxStays DEF SyncInv
<1>. QED
  BY <1>2 DEF SyncInv, TypeOK, Connected, InboxShrinks

LEMMA RequestTimesOutSync ==
    ASSUME SyncInv, RequestTimesOut
    PROVE  SyncInv'
<1>1. PICK id \in transport.pending : SyncFailed(TimeOut(transport, id))
  BY DEF RequestTimesOut
<1>. DEFINE t == TimeOut(transport, id)
<1>2. /\ log' = log /\ published' = published /\ reads' = reads /\ inbox' = inbox
      /\ UNCHANGED <<latest, throttled, deferred, view, archived, guarded, welcomed, ignored, route,
                     settling>>
      /\ SyncFailed(t)
  BY <1>1 DEF RequestTimesOut, server
<1>3. left' \in [Fields -> Nat]
  BY UseType DEF RequestTimesOut, Fields, SyncInv
<1>4. Forgets(transport, t, id) /\ InboxShrinks
  BY <1>2, TimeOutFacts DEF SyncInv, TypeOK, InboxShrinks
<1>. HIDE DEF t
<1>5. /\ TransportOK(transport') /\ PendingIsCarriedHere' /\ OneFetch'
      /\ transport'.socket = transport.socket /\ transport'.nextId = transport.nextId
      /\ transport'.wire = transport.wire /\ transport.nextId \in Nat
      /\ sync' \in [request : Nat \cup {None}, again : BOOLEAN] /\ excused' \in Nat
  BY <1>2, <1>4, SyncFailedFacts
<1>6. inbox' \in Seq(Brought) /\ InboxOK' /\ (welcomed' => transport.socket = "open")
  BY <1>2, <1>5, InboxKept
<1>. QED
  BY <1>2, <1>3, <1>5, <1>6, RouterSync DEF SyncInv, TypeOK

LEMMA FlushThrottledSync ==
    ASSUME SyncInv, FlushThrottled
    PROVE  SyncInv'
<1>1. /\ log' = log /\ published' = published /\ reads' = reads /\ inbox' = inbox
      /\ UNCHANGED <<latest, deferred, view, archived, guarded, welcomed, excused, ignored, route,
                     settling, left>>
      /\ StartSync(transport) /\ throttled' = FALSE
  BY DEF FlushThrottled, server
<1>2. /\ TransportOK(transport') /\ PendingIsCarriedHere' /\ OneFetch'
      /\ sync' \in [request : Nat \cup {None}, again : BOOLEAN]
      /\ transport'.socket = transport.socket
      /\ transport.nextId <= transport'.nextId /\ transport'.nextId \in Nat
      /\ transport.socket # "open" => transport'.wire = transport.wire
  BY <1>1, StartSyncFacts DEF InboxShrinks
<1>3. inbox' \in Seq(Brought) /\ InboxOK' /\ (welcomed' => transport.socket = "open")
  BY <1>1, <1>2, InboxKept
<1>. QED
  BY <1>1, <1>2, <1>3, RouterSync DEF SyncInv, TypeOK

LEMMA HandlePushSync ==
    ASSUME SyncInv, HandlePush, NEW n, n = Head(inbox).n
    PROVE  /\ SyncInv' /\ InboxShrinks /\ welcomed
           /\ Head(inbox) = Push(n) /\ n \in 1 .. published /\ transport.socket = "open"
<1>1. /\ inbox # <<>> /\ inbox' = Tail(inbox) /\ Head(inbox).type = "event"
      /\ log' = log /\ published' = published /\ reads' = reads /\ transport' = transport
      /\ UNCHANGED <<sync, view, welcomed, excused, route, settling, left>>
  BY DEF HandlePush, server
<1>2. Head(inbox) = inbox[1] /\ 1 \in DOMAIN inbox /\ InboxShrinks
  BY <1>1, InboxTail, InboxLessened DEF SyncInv, TypeOK
<1>3. Head(inbox) = Push(n) /\ n \in 1 .. published
  BY <1>1, <1>2 DEF SyncInv, InboxOK, Fits, Welcome, Snapshot, Answer
<1>4. transport.socket = "open"
  BY <1>1 DEF SyncInv, Connected
<1>5. inbox' \in Seq(Brought) /\ InboxOK' /\ welcomed
  BY <1>1, InboxHandled DEF SyncInv, TypeOK, TransportOK, Transports
<1>6. log[n] \in [on : Threads \cup {Project}, what : Kinds]
  BY <1>3, EventsAre DEF SyncInv, TypeOK
<1>7. /\ latest' \in Nat /\ throttled' \in BOOLEAN /\ deferred' \subseteq Threads
      /\ archived' \cup guarded' \subseteq Threads \cup {Project}
  <2>1. CASE n <= latest
    BY <2>1 DEF HandlePush, SyncInv, TypeOK
  <2>2. CASE ~(n <= latest)
    <3>. DEFINE e == log[n]
    <3>1. HandleEvent(n)
      BY <2>2 DEF HandlePush
    <3>2. latest' = n
      BY <3>1 DEF HandleEvent
    <3>3. archived' \subseteq archived \cup {log[n].on} /\ guarded' \subseteq guarded \cup {log[n].on}
      BY <3>1 DEF HandleEvent
    <3>4. \/ deferred' \subseteq deferred /\ throttled' \in {throttled, TRUE}
          \/ log[n].on \notin {route, Project} /\ deferred' = deferred \cup {log[n].on} /\ throttled' = throttled
      BY <3>1 DEF HandleEvent
    <3>5. /\ n \in Nat /\ log[n].on \in Threads \cup {Project}
          /\ log[n].on \notin {route, Project} => log[n].on \in Threads
      BY <1>3, <1>6 DEF SyncInv, TypeOK
    <3>6. /\ deferred \subseteq Threads /\ throttled \in BOOLEAN
          /\ archived \cup guarded \subseteq Threads \cup {Project}
      BY DEF SyncInv, TypeOK
    <3>. QED
      BY <3>2, <3>3, <3>4, <3>5, <3>6
  <2>. QED
    BY <2>1, <2>2
<1>8. OneFetch' /\ PendingIsCarriedHere'
  <2>1. OneFetch'
    BY <1>1, <1>2 DEF SyncInv, OneFetch, Ours, InboxShrinks
  <2>. QED
    BY <1>1, <2>1 DEF SyncInv, PendingIsCarriedHere
<1>9. SyncInv'
  BY <1>1, <1>4, <1>5, <1>7, <1>8, RouterSync DEF SyncInv, TypeOK
<1>. QED
  BY <1>2, <1>3, <1>4, <1>5, <1>9

LEMMA HandleWelcomeSync ==
    ASSUME SyncInv, HandleWelcome
    PROVE  SyncInv' /\ InboxShrinks /\ transport.socket = "open"
<1>1. /\ inbox # <<>> /\ inbox' = Tail(inbox) /\ Head(inbox).type = "welcome"
      /\ log' = log /\ published' = published /\ reads' = reads
      /\ latest' = 0 /\ deferred' = {} /\ welcomed' = TRUE /\ StartSync(transport)
      /\ UNCHANGED <<throttled, view, archived, guarded, excused, ignored, route, settling, left>>
  BY DEF HandleWelcome, server
<1>2. InboxShrinks
  BY <1>1, InboxLessened DEF SyncInv, TypeOK
<1>3. /\ TransportOK(transport') /\ PendingIsCarriedHere' /\ OneFetch'
      /\ sync' \in [request : Nat \cup {None}, again : BOOLEAN]
      /\ transport'.socket = transport.socket
      /\ transport.nextId <= transport'.nextId /\ transport'.nextId \in Nat
  BY <1>1, <1>2, StartSyncFacts
<1>4. inbox' \in Seq(Brought) /\ InboxOK'
  BY <1>1, <1>3, InboxHandled DEF SyncInv, TypeOK
<1>5. transport.socket = "open"
  BY <1>1 DEF SyncInv, Connected
<1>6. SyncInv'
  BY <1>1, <1>3, <1>4, <1>5, RouterSync DEF SyncInv, TypeOK
<1>. QED
  BY <1>2, <1>5, <1>6

LEMMA GuardExpiresSync ==
    ASSUME SyncInv, GuardExpires
    PROVE  SyncInv'
<1>1. /\ log' = log /\ published' = published /\ reads' = reads /\ inbox' = inbox
      /\ transport' = transport /\ guarded' = {}
      /\ UNCHANGED <<latest, sync, throttled, deferred, view, archived, welcomed, excused, ignored,
                     route, settling, left>>
  BY DEF GuardExpires, server
<1>2. inbox' \in Seq(Brought) /\ InboxOK' /\ (welcomed' => transport.socket = "open")
  BY <1>1, InboxKept DEF SyncInv, TypeOK, TransportOK, Transports
<1>3. OneFetch' /\ PendingIsCarriedHere'
  BY <1>1 DEF SyncInv, OneFetch, Ours, PendingIsCarriedHere
<1>. QED
  BY <1>1, <1>2, <1>3, RouterSync DEF SyncInv, TypeOK

LEMMA NavigateSync ==
    ASSUME SyncInv, Navigate
    PROVE  SyncInv'
<1>1. /\ log' = log /\ published' = published /\ reads' = reads /\ inbox' = inbox
      /\ transport' = transport /\ UNCHANGED client /\ settling' = TRUE /\ route' \in Routes
  BY DEF Navigate, server
<1>2. inbox' \in Seq(Brought) /\ InboxOK' /\ (welcomed' => transport.socket = "open")
  BY <1>1, InboxKept DEF SyncInv, TypeOK, TransportOK, Transports, client
<1>3. OneFetch' /\ PendingIsCarriedHere'
  BY <1>1 DEF SyncInv, OneFetch, Ours, PendingIsCarriedHere, client
<1>4. left' \in [Fields -> Nat]
  BY UseType DEF Navigate, Fields, SyncInv
<1>. QED
  BY <1>1, <1>2, <1>3, <1>4, RouterSync DEF SyncInv, TypeOK, client

LEMMA RouteEffectSync ==
    ASSUME SyncInv, RouteEffect
    PROVE  SyncInv'
<1>1. /\ log' = log /\ published' = published /\ reads' = reads /\ inbox' = inbox
      /\ settling' = FALSE
      /\ UNCHANGED <<latest, view, archived, guarded, welcomed, route, left>>
  BY DEF RouteEffect, server
<1>2. /\ TransportOK(transport') /\ PendingIsCarriedHere' /\ OneFetch'
      /\ sync' \in [request : Nat \cup {None}, again : BOOLEAN]
      /\ transport'.socket = transport.socket
      /\ transport.nextId <= transport'.nextId /\ transport'.nextId \in Nat
      /\ transport.socket # "open" => transport'.wire = transport.wire
      /\ deferred' \subseteq deferred /\ throttled' \in BOOLEAN /\ excused' \in Nat
  <2>0. TransportOK(transport) /\ PendingIsCarriedHere /\ transport.nextId \in Nat
    BY DEF SyncInv, TypeOK, TransportOK, Transports
  <2>1. CASE ShowsPaused
    <3>1. /\ throttled' = FALSE /\ transport' = transport /\ deferred' \subseteq deferred
          /\ sync' = [sync EXCEPT !.again = FALSE]
          /\ excused' \in {Heard, excused}
      BY <2>1 DEF RouteEffect
    <3>2. /\ sync' \in [request : Nat \cup {None}, again : BOOLEAN]
          /\ sync'.request = sync.request /\ ~sync'.again
      BY <3>1 DEF SyncInv, TypeOK
    <3>3. Heard \in Nat /\ excused \in Nat
      BY HeardFacts DEF SyncInv, TypeOK
    <3>4. OneFetch'
      BY <1>1, <3>1, <3>2 DEF SyncInv, OneFetch, Ours
    <3>5. PendingIsCarriedHere' /\ TransportOK(transport')
      BY <2>0, <3>1 DEF PendingIsCarriedHere
    <3>6. transport.nextId <= transport'.nextId /\ transport'.nextId \in Nat
      BY <2>0, <3>1
    <3>7. throttled' \in BOOLEAN /\ excused' \in Nat
      BY <3>1, <3>3
    <3>. QED
      BY <3>1, <3>2, <3>4, <3>5, <3>6, <3>7
  <2>2. CASE ~ShowsPaused /\ route \in deferred
    <3>1. StartSync(transport) /\ deferred' \subseteq deferred /\ UNCHANGED <<throttled, excused>>
      BY <2>2 DEF RouteEffect
    <3>2. InboxShrinks
      BY <1>1 DEF InboxShrinks
    <3>. QED
      BY <1>1, <3>1, <3>2, StartSyncFacts DEF SyncInv, TypeOK
  <2>3. CASE ~ShowsPaused /\ route \notin deferred
    <3>1. UNCHANGED <<throttled, sync, deferred, excused, transport>>
      BY <2>3 DEF RouteEffect
    <3>2. OneFetch'
      BY <1>1, <3>1 DEF SyncInv, OneFetch, Ours
    <3>. QED
      BY <2>0, <3>1, <3>2 DEF SyncInv, TypeOK, PendingIsCarriedHere
  <2>. QED
    BY <2>1, <2>2, <2>3
<1>3. inbox' \in Seq(Brought) /\ InboxOK' /\ (welcomed' => transport.socket = "open")
  BY <1>1, <1>2, InboxKept
<1>. QED
  BY <1>1, <1>2, <1>3, RouterSync DEF SyncInv, TypeOK

LEMMA SendOtherSync ==
    ASSUME SyncInv, SendOther
    PROVE  SyncInv'
<1>1. /\ log' = log /\ published' = published /\ reads' = reads /\ inbox' = inbox
      /\ UNCHANGED client /\ route' = route /\ settling' = settling
  BY DEF SendOther, server
<1>2. left' \in [Fields -> Nat]
  BY UseType DEF SendOther, Fields, SyncInv
<1>3. PICK m : m.body # "getSnapshot" /\ Asks(transport, transport', m)
  <2>1. CASE \E key \in {NoKey, "resize"} : transport' = FireAndForget(transport, key, "terminal")
    <3>1. PICK key \in {NoKey, "resize"} : transport' = FireAndForget(transport, key, "terminal")
      BY <2>1
    <3>2. Asks(transport, transport', Message(transport.nextId, FALSE, key, "terminal"))
      BY <3>1, FireAndForgetFacts DEF SyncInv, TypeOK, Bodies
    <3>. QED
      BY <3>2 DEF Message
  <2>2. CASE transport' = Request(transport, "command")
    <3>1. Asks(transport, transport', Message(transport.nextId, TRUE, NoKey, "command"))
      BY <2>2, RequestFacts DEF SyncInv, TypeOK, Bodies
    <3>. QED
      BY <3>1 DEF Message
  <2>. QED
    BY <2>1, <2>2 DEF SendOther
<1>4. transport.nextId \in Nat
  BY DEF SyncInv, TypeOK, TransportOK, Transports
<1>5. /\ \A q \in transport'.queue \cup transport'.wire :
            q \in transport.queue \cup transport.wire \/ q.body # "getSnapshot"
      /\ \A id \in transport'.pending : id \in transport.pending \/ id >= transport.nextId
      /\ transport'.nextId \in Nat /\ transport.nextId <= transport'.nextId
      /\ transport'.socket = transport.socket /\ TransportOK(transport')
      /\ transport.socket # "open" => transport'.wire = transport.wire
  BY <1>3, <1>4 DEF Asks
<1>6. OneFetch'
  BY <1>1, <1>5, OneFetchStays DEF client
<1>7. PendingIsCarriedHere'
  BY <1>3 DEF Asks, SyncInv, PendingIsCarriedHere
<1>8. inbox' \in Seq(Brought) /\ InboxOK' /\ (welcomed' => transport.socket = "open")
  BY <1>1, <1>5, InboxKept DEF client
<1>. QED
  BY <1>1, <1>2, <1>5, <1>6, <1>7, <1>8, RouterSync DEF SyncInv, TypeOK, client

\* A connection that is lost, or that opens: nothing is on its way but the welcome.
LEMMA ConnectionSync ==
    ASSUME SyncInv, log' = log, published' = published,
           UNCHANGED <<latest, throttled, deferred, view, archived, guarded, route, settling, excused>>,
           inbox' = <<>> \/ (transport'.socket = "open" /\ inbox' = <<Welcome>>),
           transport'.socket = "open" => inbox' # <<>>,
           reads' = [id \in {} |-> None] \/ (reads' = reads /\ DOMAIN reads = {}), ~welcomed',
           welcomed' \in BOOLEAN,
           TransportOK(transport'), PendingIsCarriedHere',
           transport'.wire \cup transport'.queue \subseteq transport.wire \cup transport.queue,
           transport'.socket # "open" => transport'.wire = {},
           transport'.pending \subseteq transport.pending,
           transport'.nextId = transport.nextId, transport.nextId \in Nat,
           \/ sync' = sync
           \/ sync' = NotSyncing /\ transport'.pending = {},
           left' \in [Fields -> Nat]
    PROVE  SyncInv'
<1>1. inbox' \in Seq(Brought) /\ \A i \in DOMAIN inbox' : i = 1 /\ inbox'[i] = Welcome
  <2>1. Welcome \in Brought
    BY DEF Welcome, Brought
  <2>2. CASE inbox' = <<>>
    BY <2>2
  <2>3. CASE inbox' = <<Welcome>>
    BY <2>1, <2>3
  <2>. QED
    BY <2>2, <2>3
<1>2. DOMAIN reads' = {}
  OBVIOUS
<1>3. /\ sync' \in [request : Nat \cup {None}, again : BOOLEAN]
      /\ sync'.request = None => ~sync'.again
      /\ sync'.request # None => sync'.request < transport'.nextId
  <2>1. CASE sync' = sync
    BY <2>1 DEF SyncInv, TypeOK, OneFetch
  <2>2. CASE sync' = NotSyncing
    BY <2>2 DEF NotSyncing
  <2>. QED
    BY <2>1, <2>2
<1>4. TypeOK'
  BY <1>1, <1>2, <1>3 DEF SyncInv, TypeOK
<1>5. InboxOK'
  <2>1. \A i \in DOMAIN inbox' : Fits(inbox[i])'
    BY <1>1 DEF Fits
  <2>2. inbox' # <<>> => inbox'[1] = Welcome
    OBVIOUS
  <2>. QED
    BY <1>1, <2>1, <2>2 DEF InboxOK, Welcome
<1>6. Connected'
  BY <1>2 DEF Connected
<1>7. \A id \in transport'.pending : Ours(id) => Ours(id)'
  BY DEF Ours
<1>8. \A id : Ours(id) => Ours(id)'
  BY <1>7 DEF Ours
<1>9. OneFetch'
  BY <1>1, <1>2, <1>3, <1>8 DEF SyncInv, OneFetch, Welcome
<1>. QED
  BY <1>4, <1>5, <1>6, <1>9 DEF SyncInv

LEMMA OpenSync ==
    ASSUME SyncInv, Open
    PROVE  SyncInv'
<1>1. /\ log' = log /\ published' = published /\ reads' = reads /\ inbox' = <<Welcome>>
      /\ UNCHANGED client /\ route' = route /\ settling' = settling /\ left' = left
      /\ transport.socket = "connecting" /\ transport' = Opened(transport)
  BY DEF Open, server
<1>2. /\ TransportOK(transport') /\ PendingIsCarried(transport')
      /\ transport'.socket = "open" /\ transport'.nextId = transport.nextId
      /\ transport'.pending = transport.pending
      /\ transport'.queue = {} /\ transport'.wire \subseteq transport.queue \cup transport.wire
  BY <1>1, OpenedFacts DEF SyncInv, TypeOK, PendingIsCarriedHere
<1>3. DOMAIN reads = {} /\ ~welcomed /\ transport.nextId \in Nat
  BY <1>1 DEF SyncInv, Connected, TypeOK, TransportOK, Transports
<1>. QED
  BY <1>1, <1>2, <1>3, ConnectionSync DEF SyncInv, TypeOK, client, PendingIsCarriedHere

LEMMA DropSync ==
    ASSUME SyncInv, Drop
    PROVE  SyncInv'
<1>1. /\ log' = log /\ published' = published /\ inbox' = <<>> /\ welcomed' = FALSE
      /\ reads' = [id \in {} |-> None] /\ transport' = Dropped(transport)
      /\ UNCHANGED <<latest, throttled, deferred, view, archived, guarded, route, settling, excused>>
      /\ sync' = sync
  BY DEF Drop, ConnectionIsLost
<1>2. left' \in [Fields -> Nat]
  BY UseType DEF Drop, Fields, SyncInv
<1>3. /\ TransportOK(transport') /\ PendingIsCarried(transport')
      /\ transport'.socket = "closing" /\ transport'.nextId = transport.nextId
      /\ transport'.pending = transport.pending
      /\ transport'.wire = {} /\ transport'.queue = transport.queue /\ transport.nextId \in Nat
  BY <1>1, DroppedFacts DEF SyncInv, TypeOK, TransportOK, Transports
<1>. QED
  BY <1>1, <1>2, <1>3, ConnectionSync DEF PendingIsCarriedHere

\* A socket that closes, with what was awaited.
LEMMA ClosesSync ==
    ASSUME SyncInv, NEW socket \in {"closing", "connecting"},
           ConnectionIsLost(socket, Closed(transport)), sync' = NotSyncing, excused' = excused,
           left' \in [Fields -> Nat]
    PROVE  SyncInv'
<1>1. /\ log' = log /\ published' = published /\ inbox' = <<>> /\ welcomed' = FALSE
      /\ reads' = [id \in {} |-> None] /\ transport' = Closed(transport)
      /\ UNCHANGED <<latest, throttled, deferred, view, archived, guarded, route, settling>>
      /\ transport.socket = socket
  BY DEF ConnectionIsLost
<1>2. /\ TransportOK(transport') /\ PendingIsCarried(transport')
      /\ transport'.socket = "down" /\ transport'.nextId = transport.nextId
      /\ transport'.pending = {} /\ transport'.wire = transport.wire
      /\ transport'.queue = {} /\ transport.nextId \in Nat
  BY <1>1, ClosedFacts DEF SyncInv, TypeOK, TransportOK, Transports
<1>3. transport.wire = {}
  BY <1>1 DEF SyncInv, Connected
<1>. QED
  BY <1>1, <1>2, <1>3, ConnectionSync DEF PendingIsCarriedHere

LEMMA CloseSync ==
    ASSUME SyncInv, Close
    PROVE  SyncInv'
<1>1. left' \in [Fields -> Nat]
  BY DEF Close, SyncInv, TypeOK
<1>. QED
  BY <1>1, ClosesSync DEF Close

LEMMA ConnectFailsSync ==
    ASSUME SyncInv, ConnectFails
    PROVE  SyncInv'
<1>1. left' \in [Fields -> Nat]
  BY UseType DEF ConnectFails, Fields, SyncInv
<1>. QED
  BY <1>1, ClosesSync DEF ConnectFails

LEMMA ReconnectSync ==
    ASSUME SyncInv, Reconnect
    PROVE  SyncInv'
<1>1. /\ log' = log /\ published' = published /\ inbox' = inbox /\ reads' = reads
      /\ transport.socket = "down" /\ transport' = Reconnected(transport)
      /\ UNCHANGED client /\ route' = route /\ settling' = settling /\ left' = left
  BY DEF Reconnect, server
<1>2. /\ TransportOK(transport') /\ PendingIsCarried(transport')
      /\ transport'.socket = "connecting" /\ transport'.nextId = transport.nextId
      /\ transport'.pending = transport.pending
      /\ transport'.wire = transport.wire /\ transport'.queue = transport.queue
      /\ transport.nextId \in Nat
  BY <1>1, ReconnectedFacts DEF SyncInv, TypeOK, TransportOK, Transports, PendingIsCarriedHere
<1>3. inbox = <<>> /\ transport.wire = {} /\ DOMAIN reads = {} /\ ~welcomed /\ welcomed \in BOOLEAN
  BY <1>1 DEF SyncInv, Connected, TypeOK
<1>. QED
  BY <1>1, <1>2, <1>3, ConnectionSync DEF SyncInv, TypeOK, client, PendingIsCarriedHere

LEMMA StutterSync ==
    ASSUME SyncInv, UNCHANGED vars
    PROVE  SyncInv'
<1>1. /\ log' = log /\ published' = published /\ inbox' = inbox /\ reads' = reads
      /\ transport' = transport /\ UNCHANGED client /\ route' = route /\ settling' = settling
      /\ left' = left
  BY DEF vars, server
<1>2. inbox' \in Seq(Brought) /\ InboxOK' /\ (welcomed' => transport.socket = "open")
  BY <1>1, InboxKept DEF SyncInv, TypeOK, TransportOK, Transports, client
<1>3. OneFetch' /\ PendingIsCarriedHere'
  BY <1>1 DEF SyncInv, OneFetch, Ours, PendingIsCarriedHere, client
<1>. QED
  BY <1>1, <1>2, <1>3, RouterSync DEF SyncInv, TypeOK, client

LEMMA NextSync ==
    ASSUME SyncInv, [Next]_vars
    PROVE  SyncInv'
BY CommitSync, PublishSync, RouteRequestSync, ReadSnapshotSync, RespondSync, ReadFailsSync,
   HandleSnapshotSync, HandleAnswerSync, RequestTimesOutSync, FlushThrottledSync, HandlePushSync,
   HandleWelcomeSync, GuardExpiresSync, NavigateSync, RouteEffectSync, SendOtherSync, OpenSync,
   DropSync, CloseSync, ConnectFailsSync, ReconnectSync, StutterSync DEF Next, System

-----------------------------------------------------------------------------
(* What the archived threads, the skipped events and the events not reflected are *)
(* kept by.                                                                       *)

Upcoming(n) == \E i \in DOMAIN inbox : inbox[i] = Push(n)
Flags(n) == log[n].what \in {"archived", "unarchived"}
Held(t) == t \in Threads \cap Known \cap archived
Hidden(t) == Held(t) \/ (t \in Threads /\ Gone(t))
\* The threads a snapshot hides.
Off(r) == ArchivedAfter(r) \cup Deleted(r)
Waits(n) == log[n].on \in deferred /\ (log[n].on # route \/ settling)

\* An event needs nothing of the answer to the fetch in flight.
Awaited(n) == n \in ignored \/ n <= excused \/ Upcoming(n) \/ throttled \/ sync.again \/ Waits(n)

\* No answer to the fetch in flight is older than the store, and of a thread with later
\* events it leaves hidden what the store has archived: unless the thread's flag is
\* guarded or the event is fetched besides, the answer has it archived, or deleted.
Answers ==
    \A r \in Nat : Possible(r) =>
        /\ view # None => view <= r
        /\ \A n \in r + 1 .. published : Flags(n) => Upcoming(n) \/ log[n].on \in guarded
        /\ \A n \in r + 1 .. published : Held(log[n].on) =>
              Awaited(n) \/ log[n].on \in guarded \cup Off(r)

\* What is skipped as old when it comes is in the store.
Skipped == welcomed => \A n \in 1 .. latest : Upcoming(n) \/ n > published => Reflected(n)

\* EventsAccountedFor, with a thread the store does not know as no excuse.
Kept(n) ==
    \/ Reflected(n) \/ n <= excused \/ n \in ignored
    \/ Upcoming(n)
    \/ throttled \/ Fetching(n)
    \/ Hidden(log[n].on)
    \/ Waits(n)
AllKept == welcomed => \A n \in 1 .. published : Kept(n)

SyncIInv == SyncInv /\ Answers /\ Skipped /\ AllKept

\* Fetching(n) is about what may be answered.
LEMMA FetchingMeans ==
    ASSUME SyncInv, NEW n \in Nat, Fetching(n)
    PROVE  sync.request # None /\ (sync.again \/ \A r \in Nat : Possible(r) => r >= n)
<1>. SUFFICES ASSUME ~sync.again, NEW r \in Nat, Possible(r) PROVE r >= n
  BY DEF Fetching
<1>1. CASE sync.request \in DOMAIN reads /\ reads[sync.request] = r
  BY <1>1, NoneAssumption DEF Fetching
<1>2. CASE \E i \in DOMAIN inbox : inbox[i] = Snapshot(sync.request, r)
  BY <1>2 DEF Fetching, Snapshot
<1>. QED
  BY <1>1, <1>2 DEF Possible

LEMMA FetchingFrom ==
    ASSUME TypeOK', InboxOK', NEW n \in Nat, sync'.request # None,
           sync'.again \/ \A r \in Nat : Possible(r)' => r >= n
    PROVE  Fetching(n)'
<1>1. CASE sync'.again
  BY <1>1 DEF Fetching
<1>2. CASE \A r \in Nat : Possible(r)' => r >= n
  <2>1. Len(log') \in Nat /\ 0 .. Len(log') \subseteq Nat
    BY DEF TypeOK
  <2>2. ASSUME sync'.request \in DOMAIN reads', reads'[sync'.request] # None
        PROVE  reads'[sync'.request] >= n
    <3>1. reads'[sync'.request] \in Nat
      BY <2>1, <2>2 DEF TypeOK
    <3>. QED
      BY <1>2, <2>2, <3>1 DEF Possible
  <2>3. ASSUME NEW i \in DOMAIN inbox', inbox'[i].type = "snapshot", inbox'[i].id = sync'.request
        PROVE  inbox'[i].n >= n
    <3>1. inbox'[i] = Snapshot(sync'.request, inbox'[i].n) /\ inbox'[i].n \in 0 .. Len(log')
      BY <2>3 DEF InboxOK, Fits, Welcome, Push, Answer
    <3>. QED
      BY <1>2, <2>1, <3>1 DEF Possible
  <2>. QED
    BY <2>2, <2>3 DEF Fetching
<1>. QED
  BY <1>1, <1>2

\* What events leave of the history before them.
LEMMA HistoryStays ==
    ASSUME TypeOK, Len(log') \in Nat, Len(log) <= Len(log'),
           \A i \in 1 .. Len(log) : log'[i] = log[i], NEW n \in 0 .. Len(log)
    PROVE  /\ Created(n)' = Created(n) /\ Deleted(n)' = Deleted(n) /\ Existing(n)' = Existing(n)
           /\ ArchivedAfter(n)' = ArchivedAfter(n) /\ Off(n)' = Off(n)
<1>1. \A i \in 1 .. n : log'[i] = log[i]
  BY DEF TypeOK
<1>2. Created(n)' = Created(n)
  BY <1>1 DEF Created
<1>3. Deleted(n)' = Deleted(n)
  BY <1>1 DEF Deleted
<1>4. \A i \in 1 .. n : \A j \in i .. n : log'[j] = log[j]
  BY <1>1 DEF TypeOK
<1>5. ArchivedAfter(n)' = ArchivedAfter(n)
  BY <1>1, <1>2, <1>4 DEF ArchivedAfter
<1>. QED
  BY <1>2, <1>3, <1>5 DEF Existing, Off

LEMMA HistoryGrows ==
    ASSUME NEW a \in Nat, NEW b \in Nat, a <= b
    PROVE  Created(a) \subseteq Created(b) /\ Deleted(a) \subseteq Deleted(b)
BY DEF Created, Deleted

\* A snapshot that may be answered is one of the past.
LEMMA PossibleIsPast ==
    ASSUME SyncInv, NEW r \in Nat, Possible(r)
    PROVE  r \in 0 .. Len(log)
<1>1. CASE sync.request \in DOMAIN reads /\ reads[sync.request] = r
  BY <1>1, NoneAssumption DEF SyncInv, TypeOK
<1>2. CASE \E i \in DOMAIN inbox : inbox[i] = Snapshot(sync.request, r)
  <2>1. PICK i \in DOMAIN inbox : inbox[i] = Snapshot(sync.request, r)
    BY <1>2
  <2>2. inbox[i].type = "snapshot" /\ inbox[i].n = r
    BY <2>1 DEF Snapshot
  <2>. QED
    BY <2>2 DEF SyncInv, InboxOK, Fits, Welcome, Push, Answer
<1>. QED
  BY <1>1, <1>2 DEF Possible

\* Steps that leave the store alone.
StoreStays ==
    /\ Len(log') \in Nat /\ Len(log) <= Len(log') /\ \A i \in 1 .. Len(log) : log'[i] = log[i]
    /\ published' = published /\ view' = view /\ archived' = archived
    /\ ignored \subseteq ignored'
    /\ \A n \in 1 .. published : Upcoming(n) => Upcoming(n)'
    /\ \A r \in Nat : Possible(r)' => Possible(r) \/ r = Len(log)

LEMMA KnownStays ==
    ASSUME SyncInv, StoreStays
    PROVE  Known' = Known /\ \A t : (Held(t)' <=> Held(t)) /\ (Hidden(t)' <=> Hidden(t))
<1>1. Known' = Known /\ \A t : Gone(t)' <=> Gone(t)
  BY HistoryStays DEF StoreStays, SyncInv, TypeOK, Known, Gone
<1>. QED
  BY <1>1 DEF Hidden, Held, StoreStays

\* What the events that need nothing of the answer may come to need it for.
StillAwaited ==
    \A r \in Nat : Possible(r) /\ Possible(r)' =>
        \A n \in r + 1 .. published : Held(log[n].on) /\ Awaited(n) =>
            Awaited(n)' \/ log[n].on \in guarded \cup Off(r)

LEMMA AnswersStay ==
    ASSUME SyncInv, Answers, StoreStays, StillAwaited, guarded \subseteq guarded'
    PROVE  Answers'
<1>. SUFFICES ASSUME NEW r \in Nat, Possible(r)'
              PROVE  /\ view # None => view <= r
                     /\ \A n \in r + 1 .. published :
                           Flags(n)' => Upcoming(n)' \/ log'[n].on \in guarded'
                     /\ \A n \in r + 1 .. published : Held(log[n].on)' =>
                           Awaited(n)' \/ log'[n].on \in guarded' \cup Off(r)'
  BY DEF Answers, StoreStays
<1>1. published \in 0 .. Len(log) /\ Len(log) \in Nat /\ (view # None => view \in 0 .. Len(log))
  BY DEF SyncInv, TypeOK
<1>2. CASE r = Len(log)
  BY <1>1, <1>2
<1>3. CASE Possible(r)
  <2>1. r \in 0 .. Len(log)
    BY <1>3, PossibleIsPast
  <2>2. Off(r)' = Off(r)
    BY <2>1, HistoryStays DEF StoreStays, SyncInv
  <2>3. ASSUME NEW n \in r + 1 .. published
        PROVE  n \in 1 .. published /\ log'[n] = log[n] /\ (Upcoming(n) => Upcoming(n)')
    BY <1>1 DEF StoreStays
  <2>4. \A n \in r + 1 .. published : Flags(n)' => Upcoming(n)' \/ log'[n].on \in guarded'
    BY <1>3, <2>3 DEF Answers, Flags
  <2>5. ASSUME NEW n \in r + 1 .. published, Held(log[n].on)'
        PROVE  Awaited(n)' \/ log'[n].on \in guarded' \cup Off(r)'
    <3>1. Held(log[n].on)
      BY <2>3, <2>5, KnownStays DEF Held, StoreStays
    <3>2. Awaited(n) \/ log[n].on \in guarded \cup Off(r)
      BY <1>3, <3>1 DEF Answers
    <3>3. Awaited(n) => Awaited(n)' \/ log[n].on \in guarded \cup Off(r)
      BY <1>3, <3>1 DEF StillAwaited
    <3>. QED
      BY <2>2, <2>3, <3>2, <3>3
  <2>. QED
    BY <1>3, <2>4, <2>5 DEF Answers
<1>. QED
  BY <1>2, <1>3 DEF StoreStays

\* Steps after which the answer is as good as another's.
LEMMA AwaitedStays ==
    ASSUME SyncInv, StoreStays, throttled => throttled', sync.again => sync'.again,
           excused' = excused, deferred \subseteq deferred', route' = route, settling => settling'
    PROVE  StillAwaited
<1>. SUFFICES ASSUME NEW r \in Nat, NEW n \in r + 1 .. published, Awaited(n) PROVE Awaited(n)'
  BY DEF StillAwaited
<1>1. n \in 1 .. published /\ log'[n] = log[n]
  BY DEF StoreStays, SyncInv, TypeOK
<1>. QED
  BY <1>1 DEF Awaited, Waits, StoreStays

\* And the fetch, the route and the deferrals.
LEMMA KeptStays ==
    ASSUME SyncInv, SyncInv', StoreStays, NEW n \in 1 .. published, Kept(n),
           sync' = sync, excused' = excused, throttled => throttled', deferred \subseteq deferred',
           route' = route, settling' = settling
    PROVE  Kept(n)'
<1>1. /\ log'[n] = log[n] /\ n \in Nat /\ (Upcoming(n) => Upcoming(n)')
      /\ Len(log) \in Nat /\ n <= Len(log)
  BY DEF StoreStays, SyncInv, TypeOK
<1>2. Fetching(n) => Fetching(n)'
  <2>. SUFFICES ASSUME Fetching(n) PROVE Fetching(n)'
    OBVIOUS
  <2>1. sync.request # None /\ (sync.again \/ \A r \in Nat : Possible(r) => r >= n)
    BY <1>1, FetchingMeans
  <2>2. sync'.again \/ \A r \in Nat : Possible(r)' => r >= n
    BY <1>1, <2>1 DEF StoreStays
  <2>. QED
    BY <1>1, <2>1, <2>2, FetchingFrom DEF SyncInv
<1>3. Reflected(n) => Reflected(n)'
  BY DEF Reflected, StoreStays
<1>4. Hidden(log[n].on) => Hidden(log[n].on)'
  BY <1>1, KnownStays DEF Hidden, Held, Gone, StoreStays
<1>. QED
  BY <1>1, <1>2, <1>3, <1>4 DEF Kept, Waits, StoreStays

\* Steps that neither bring nor take an event.
LEMMA SkippedStays ==
    ASSUME Skipped, welcomed' => welcomed, latest' = latest, published' = published, view' = view,
           \A n : Upcoming(n)' => Upcoming(n)
    PROVE  Skipped'
BY DEF Skipped, Reflected

LEMMA QuietStep ==
    ASSUME SyncIInv, SyncInv', StoreStays, guarded \subseteq guarded',
           sync' = sync, excused' = excused, throttled => throttled', deferred \subseteq deferred',
           route' = route, settling' = settling, latest' = latest, welcomed' = welcomed,
           \A n : Upcoming(n)' => Upcoming(n)
    PROVE  SyncIInv'
<1>1. Answers'
  BY AwaitedStays, AnswersStay DEF SyncIInv
<1>2. Skipped'
  BY SkippedStays DEF SyncIInv, StoreStays
<1>3. AllKept'
  BY KeptStays DEF SyncIInv, AllKept, StoreStays
<1>. QED
  BY <1>1, <1>2, <1>3 DEF SyncIInv

LEMMA UpcomingAppended ==
    ASSUME inbox \in Seq(Brought), NEW m \in Brought, m.type # "event", inbox' = Append(inbox, m)
    PROVE  \A n : Upcoming(n)' <=> Upcoming(n)
<1>1. \A n : m # Push(n)
  BY DEF Push
<1>. QED
  BY <1>1, InboxAppended DEF Upcoming

LEMMA UpcomingTail ==
    ASSUME inbox \in Seq(Brought), inbox # <<>>, Head(inbox).type # "event", inbox' = Tail(inbox)
    PROVE  \A n : Upcoming(n)' <=> Upcoming(n)
<1>. SUFFICES ASSUME NEW n PROVE Upcoming(n)' <=> Upcoming(n)
  OBVIOUS
<1>1. /\ DOMAIN inbox = 1 .. Len(inbox) /\ Len(inbox) \in Nat /\ inbox[1].type # "event"
      /\ \A i \in DOMAIN inbox' : i + 1 \in DOMAIN inbox /\ inbox'[i] = inbox[i + 1]
      /\ \A i \in DOMAIN inbox : i > 1 => i - 1 \in DOMAIN inbox' /\ inbox'[i - 1] = inbox[i]
  BY InboxTail
<1>2. \A i \in DOMAIN inbox : inbox[i] = Push(n) => i > 1
  BY <1>1 DEF Push
<1>3. Upcoming(n)' => Upcoming(n)
  BY <1>1 DEF Upcoming
<1>. QED
  BY <1>1, <1>2, <1>3 DEF Upcoming

\* What is on its way for a connection that is gone, or that has just opened.
LEMMA ConnectionStep ==
    ASSUME SyncInv', ~welcomed', DOMAIN reads' = {},
           \A i \in DOMAIN inbox' : inbox'[i].type # "snapshot"
    PROVE  SyncIInv'
<1>1. \A r : ~Possible(r)'
  BY DEF Possible, Snapshot
<1>. QED
  BY <1>1 DEF SyncIInv, Answers, Skipped, AllKept

LEMMA LostStep ==
    ASSUME SyncInv', transport'.socket # "open"
    PROVE  SyncIInv'
BY ConnectionStep DEF SyncInv, Connected

\* A fetch that starts, or starts again, will bring everything.
LEMMA FetchesAll ==
    ASSUME SyncInv', published' \in Nat, sync'.request # None,
           sync'.again \/ \A r : ~Possible(r)'
    PROVE  AllKept'
<1>1. \A n \in Nat : Fetching(n)'
  BY FetchingFrom DEF SyncInv
<1>. QED
  BY <1>1 DEF AllKept, Kept

\* A fetch that failed excuses what no push will bring.
LEMMA FailsStep ==
    ASSUME SyncIInv, SyncInv', StoreStays, guarded' = guarded,
           \/ sync' = sync /\ excused' = excused
           \/ excused' = Heard,
           throttled' = throttled, deferred' = deferred,
           route' = route, settling' = settling, latest' = latest, welcomed' = welcomed,
           \A n : Upcoming(n)' <=> Upcoming(n)
    PROVE  SyncIInv'
<1>1. CASE sync' = sync /\ excused' = excused
  BY <1>1, QuietStep
<1>2. CASE excused' = Heard
  <2>1. \A n \in 1 .. published : n <= Heard \/ Upcoming(n)
    BY HeardFacts DEF SyncIInv, SyncInv, Upcoming
  <2>2. StillAwaited
    <3>1. \A r \in Nat : \A n \in r + 1 .. published : n \in 1 .. published
      BY DEF SyncIInv, SyncInv, TypeOK
    <3>. QED
      BY <1>2, <2>1, <3>1 DEF StillAwaited, Awaited
  <2>3. Answers' /\ Skipped'
    BY <2>2, AnswersStay, SkippedStays DEF SyncIInv, StoreStays
  <2>4. AllKept'
    BY <1>2, <2>1 DEF AllKept, Kept, StoreStays
  <2>. QED
    BY <2>3, <2>4 DEF SyncIInv
<1>. QED
  BY <1>1, <1>2

-----------------------------------------------------------------------------
(* Every step keeps it. *)

LEMMA InitStep == Init => SyncIInv
<1>. SUFFICES ASSUME Init PROVE SyncIInv
  OBVIOUS
<1>1. SyncInv
  BY InitSync
<1>2. \A r : ~Possible(r)
  BY DEF Init, Possible
<1>3. ~welcomed
  BY DEF Init
<1>. QED
  BY <1>1, <1>2, <1>3 DEF SyncIInv, Answers, Skipped, AllKept

LEMMA CommitStep ==
    ASSUME SyncIInv, Commit
    PROVE  SyncIInv'
<1>1. /\ SyncInv' /\ Len(log') = Len(log) + 1 /\ \A i \in 1 .. Len(log) : log'[i] = log[i]
      /\ Len(log) \in Nat
  BY CommitSync DEF SyncIInv, SyncInv, TypeOK
<1>2. /\ published' = published /\ reads' = reads /\ inbox' = inbox
      /\ UNCHANGED client /\ route' = route /\ settling' = settling
  BY DEF Commit
<1>3. StoreStays /\ \A n : Upcoming(n)' => Upcoming(n)
  BY <1>1, <1>2 DEF StoreStays, Upcoming, Possible, client
<1>. QED
  BY <1>1, <1>2, <1>3, QuietStep DEF client

LEMMA PublishStep ==
    ASSUME SyncIInv, Publish
    PROVE  SyncIInv'
<1>. SUFFICES ASSUME NEW p, p = published + 1 PROVE SyncIInv'
  OBVIOUS
<1>1. /\ log' = log /\ reads' = reads /\ transport' = transport /\ UNCHANGED client
      /\ route' = route /\ settling' = settling
      /\ published < Len(log) /\ published' = p
  BY DEF Publish
<1>2. SyncInv'
  BY PublishSync DEF SyncIInv
<1>3. CASE transport.socket # "open"
  BY <1>1, <1>2, <1>3, LostStep
<1>4. CASE transport.socket = "open"
  <2>. DEFINE m == Push(p)
  <2>1. /\ inbox' = Append(inbox, m) /\ m \in Brought /\ m.type = "event" /\ m.n = p
        /\ p = published + 1 /\ published \in Nat /\ inbox \in Seq(Brought)
    BY <1>1, <1>4 DEF Publish, Push, Brought, SyncIInv, SyncInv, TypeOK
  <2>. HIDE DEF m
  <2>2. /\ DOMAIN inbox = 1 .. Len(inbox) /\ DOMAIN inbox' = 1 .. Len(inbox) + 1
        /\ Len(inbox) \in Nat
        /\ \A i \in DOMAIN inbox : inbox'[i] = inbox[i]
        /\ inbox'[Len(inbox) + 1] = m
    BY <2>1, InboxAppended
  <2>3. \A n : Upcoming(n) => Upcoming(n)'
    BY <2>2 DEF Upcoming
  <2>4. Upcoming(p)'
    BY <2>2 DEF Upcoming, m
  <2>5. \A n : Upcoming(n)' => Upcoming(n) \/ n = p
    BY <2>2, <2>1 DEF Upcoming, Push
  <2>6. \A r : Possible(r)' => Possible(r)
    <3>1. \A x, r : m # Snapshot(x, r)
      BY <2>1 DEF Snapshot
    <3>. QED
      BY <1>1, <2>2, <3>1 DEF Possible, client
  <2>7. Known' = Known /\ \A t : (Held(t)' <=> Held(t)) /\ (Hidden(t)' <=> Hidden(t))
    BY <1>1 DEF Known, Created, Deleted, Existing, Gone, Held, Hidden, client
  <2>8. \A r : Off(r)' = Off(r)
    BY <1>1 DEF ArchivedAfter, Created, Deleted, Off
  <2>9. Answers'
    <3>. SUFFICES ASSUME NEW r \in Nat, Possible(r)'
                  PROVE  /\ view # None => view <= r
                         /\ \A n \in r + 1 .. p :
                               Flags(n) => Upcoming(n)' \/ log[n].on \in guarded
                         /\ \A n \in r + 1 .. p : Held(log[n].on) =>
                               Awaited(n)' \/ log[n].on \in guarded \cup Off(r)
      BY <1>1, <2>7, <2>8 DEF Answers, Flags, Held, client
    <3>1. \A n \in r + 1 .. p : n \in r + 1 .. published \/ n = p
      BY <2>1
    <3>2. /\ view # None => view <= r
          /\ \A n \in r + 1 .. published : Flags(n) => Upcoming(n) \/ log[n].on \in guarded
          /\ \A n \in r + 1 .. published : Held(log[n].on) =>
                Awaited(n) \/ log[n].on \in guarded \cup Off(r)
      BY <2>6 DEF Answers, SyncIInv
    <3>3. Awaited(p)' /\ \A n : Awaited(n) => Awaited(n)'
      BY <1>1, <2>3, <2>4 DEF Awaited, Waits, client
    <3>. QED
      BY <2>3, <2>4, <3>1, <3>2, <3>3
  <2>10. Skipped'
    BY <1>1, <2>1, <2>5 DEF Skipped, SyncIInv, SyncInv, TypeOK, Reflected, client
  <2>11. ASSUME welcomed, NEW n \in 1 .. published PROVE Kept(n)'
    <3>1. Kept(n) /\ n \in Nat
      BY <2>11 DEF AllKept, SyncIInv
    <3>2. Fetching(n) => Fetching(n)'
      BY <1>1, <1>2, <2>6, <3>1, FetchingMeans, FetchingFrom DEF SyncIInv, SyncInv, client
    <3>. QED
      BY <1>1, <2>3, <2>7, <3>1, <3>2 DEF Kept, Waits, Reflected, client
  <2>12. AllKept'
    <3>1. \A n \in 1 .. p : n \in 1 .. published \/ n = p
      BY <2>1
    <3>2. Kept(p)'
      BY <2>4 DEF Kept
    <3>. QED
      BY <1>1, <2>11, <3>1, <3>2 DEF AllKept, client
  <2>. QED
    BY <1>2, <2>9, <2>10, <2>12 DEF SyncIInv
<1>. QED
  BY <1>3, <1>4

LEMMA RouteRequestStep ==
    ASSUME SyncIInv, RouteRequest
    PROVE  SyncIInv'
<1>. SUFFICES ASSUME NEW m, m = Oldest(transport.wire) PROVE SyncIInv'
  OBVIOUS
<1>1. /\ log' = log /\ published' = published /\ UNCHANGED client
      /\ route' = route /\ settling' = settling /\ transport.wire # {}
      /\ reads' = IF m.body = "getSnapshot"
                  THEN [id \in DOMAIN reads \cup {m.id} |-> IF id = m.id THEN None ELSE reads[id]]
                  ELSE reads
      /\ inbox' = IF m.body = "command" THEN Append(inbox, Answer(m.id)) ELSE inbox
  BY DEF RouteRequest
<1>2. SyncInv' /\ inbox \in Seq(Brought) /\ Len(log) \in Nat
  BY RouteRequestSync DEF SyncIInv, SyncInv, TypeOK
<1>3. m.id \in Nat
  BY <1>1, OldestIsOne DEF SyncIInv, SyncInv, TypeOK, TransportOK, Transports, Messages
<1>4. Answer(m.id) \in Brought /\ Answer(m.id).type = "answer"
  BY <1>3 DEF Answer, Brought
<1>5. \A n : Upcoming(n)' <=> Upcoming(n)
  <2>1. CASE m.body = "command"
    BY <1>1, <1>2, <1>4, <2>1, UpcomingAppended
  <2>2. CASE m.body # "command"
    BY <1>1, <2>2 DEF Upcoming
  <2>. QED
    BY <2>1, <2>2
<1>6. \A x, r : (\E i \in DOMAIN inbox' : inbox'[i] = Snapshot(x, r)) =>
                 \E i \in DOMAIN inbox : inbox[i] = Snapshot(x, r)
  <2>1. CASE m.body = "command"
    <3>1. \A x, r : Answer(m.id) # Snapshot(x, r)
      BY <1>4 DEF Snapshot
    <3>. QED
      BY <1>1, <1>2, <1>4, <2>1, <3>1, InboxAppended
  <2>2. CASE m.body # "command"
    BY <1>1, <2>2
  <2>. QED
    BY <2>1, <2>2
<1>7. \A id \in DOMAIN reads' : reads'[id] = None \/ (id \in DOMAIN reads /\ reads'[id] = reads[id])
  BY <1>1
<1>8. \A r \in Nat : Possible(r)' => Possible(r)
  BY <1>1, <1>6, <1>7, NoneAssumption DEF Possible, client
<1>9. StoreStays
  BY <1>1, <1>2, <1>5, <1>8 DEF StoreStays, client
<1>. QED
  BY <1>1, <1>2, <1>5, <1>9, QuietStep DEF client

LEMMA ReadSnapshotStep ==
    ASSUME SyncIInv, ReadSnapshot
    PROVE  SyncIInv'
<1>1. /\ SyncInv' /\ Len(log) \in Nat
      /\ \E id \in DOMAIN reads : reads[id] = None /\ reads' = [reads EXCEPT ![id] = Len(log)]
  BY ReadSnapshotSync DEF SyncIInv, SyncInv, TypeOK
<1>2. /\ log' = log /\ published' = published /\ inbox' = inbox /\ UNCHANGED client
      /\ route' = route /\ settling' = settling
  BY DEF ReadSnapshot
<1>3. \A r \in Nat : Possible(r)' => Possible(r) \/ r = Len(log)
  BY <1>1, <1>2 DEF Possible, client
<1>4. StoreStays /\ \A n : Upcoming(n)' => Upcoming(n)
  BY <1>1, <1>2, <1>3 DEF StoreStays, Upcoming, client
<1>. QED
  BY <1>1, <1>2, <1>4, QuietStep DEF client

LEMMA RespondStep ==
    ASSUME SyncIInv, Respond
    PROVE  SyncIInv'
<1>1. PICK id \in DOMAIN reads :
         /\ reads[id] # None /\ inbox' = Append(inbox, Snapshot(id, reads[id]))
         /\ reads' = [i \in DOMAIN reads \ {id} |-> reads[i]]
  BY DEF Respond
<1>2. /\ log' = log /\ published' = published /\ UNCHANGED client
      /\ route' = route /\ settling' = settling
  BY DEF Respond
<1>3. SyncInv' /\ inbox \in Seq(Brought) /\ Len(log) \in Nat
  BY RespondSync DEF SyncIInv, SyncInv, TypeOK
<1>. DEFINE m == Snapshot(id, reads[id])
<1>4. m \in Brought /\ m.type = "snapshot"
  BY <1>1 DEF Snapshot, Brought, SyncIInv, SyncInv, TypeOK, OneFetch
<1>. HIDE DEF m
<1>5. \A n : Upcoming(n)' <=> Upcoming(n)
  BY <1>1, <1>3, <1>4, UpcomingAppended DEF m
<1>6. ASSUME NEW r \in Nat, Possible(r)' PROVE Possible(r)
  <2>1. CASE sync'.request \in DOMAIN reads' /\ reads'[sync'.request] = r
    BY <1>1, <1>2, <1>6, <2>1 DEF Possible, client
  <2>2. CASE \E i \in DOMAIN inbox' : inbox'[i] = Snapshot(sync'.request, r)
    <3>1. PICK i \in DOMAIN inbox' : inbox'[i] = Snapshot(sync.request, r)
      BY <1>2, <2>2 DEF client
    <3>2. (i \in DOMAIN inbox /\ inbox'[i] = inbox[i]) \/ inbox'[i] = m
      BY <1>1, <1>3, <1>4, InboxAppended DEF m
    <3>3. CASE inbox'[i] = m
      BY <1>1, <1>2, <1>6, <3>1, <3>3 DEF m, Snapshot, Possible, client
    <3>. QED
      BY <1>2, <1>6, <3>1, <3>2, <3>3 DEF Possible, client
  <2>. QED
    BY <1>6, <2>1, <2>2 DEF Possible
<1>7. StoreStays
  BY <1>2, <1>3, <1>5, <1>6 DEF StoreStays, client
<1>. QED
  BY <1>2, <1>3, <1>5, <1>7, QuietStep DEF client

LEMMA ReadFailsStep ==
    ASSUME SyncIInv, ReadFails
    PROVE  SyncIInv'
<1>1. PICK id \in DOMAIN reads :
         /\ inbox' = Append(inbox, Answer(id))
         /\ reads' = [i \in DOMAIN reads \ {id} |-> reads[i]]
  BY DEF ReadFails
<1>2. /\ log' = log /\ published' = published /\ UNCHANGED client
      /\ route' = route /\ settling' = settling
  BY DEF ReadFails
<1>3. SyncInv' /\ inbox \in Seq(Brought) /\ Len(log) \in Nat
  BY ReadFailsSync DEF SyncIInv, SyncInv, TypeOK
<1>4. Answer(id) \in Brought /\ Answer(id).type = "answer"
  BY DEF Answer, Brought, SyncIInv, SyncInv, OneFetch
<1>5. \A n : Upcoming(n)' <=> Upcoming(n)
  BY <1>1, <1>3, <1>4, UpcomingAppended
<1>6. \A r : Possible(r)' => Possible(r)
  <2>1. \A x, r : Answer(id) # Snapshot(x, r)
    BY <1>4 DEF Snapshot
  <2>. QED
    BY <1>1, <1>2, <1>3, <1>4, <2>1, InboxAppended DEF Possible, client
<1>7. StoreStays
  BY <1>2, <1>3, <1>5, <1>6 DEF StoreStays, client
<1>. QED
  BY <1>2, <1>3, <1>5, <1>7, QuietStep DEF client

LEMMA HandleAnswerStep ==
    ASSUME SyncIInv, HandleAnswer
    PROVE  SyncIInv'
<1>. DEFINE t == Answered(transport, Head(inbox).id)
<1>1. /\ inbox # <<>> /\ inbox' = Tail(inbox) /\ Head(inbox).type = "answer" /\ SyncFailed(t)
      /\ log' = log /\ published' = published /\ reads' = reads
      /\ UNCHANGED <<latest, throttled, deferred, view, archived, guarded, welcomed, ignored, route,
                     settling>>
  BY DEF HandleAnswer, server
<1>2. SyncInv' /\ InboxShrinks /\ inbox \in Seq(Brought) /\ Len(log) \in Nat
  BY HandleAnswerSync DEF SyncIInv, SyncInv, TypeOK
<1>3. Forgets(transport, t, Head(inbox).id)
  BY AnsweredFacts DEF SyncIInv, SyncInv, TypeOK
<1>. HIDE DEF t
<1>4. /\ \A r : Possible(r)' => Possible(r)
      /\ (sync' = sync /\ excused' = excused) \/ excused' = Heard
  BY <1>1, <1>2, <1>3, SyncFailedFacts DEF SyncIInv
<1>5. \A n : Upcoming(n)' <=> Upcoming(n)
  BY <1>1, <1>2, UpcomingTail
<1>6. StoreStays
  BY <1>1, <1>2, <1>4, <1>5 DEF StoreStays
<1>. QED
  BY <1>1, <1>2, <1>4, <1>5, <1>6, FailsStep

LEMMA RequestTimesOutStep ==
    ASSUME SyncIInv, RequestTimesOut
    PROVE  SyncIInv'
<1>1. PICK id \in transport.pending : SyncFailed(TimeOut(transport, id))
  BY DEF RequestTimesOut
<1>2. /\ log' = log /\ published' = published /\ reads' = reads /\ inbox' = inbox
      /\ UNCHANGED <<latest, throttled, deferred, view, archived, guarded, welcomed, ignored, route,
                     settling>>
  BY DEF RequestTimesOut, server
<1>3. SyncInv' /\ Len(log) \in Nat
  BY RequestTimesOutSync DEF SyncIInv, SyncInv, TypeOK
<1>4. Forgets(transport, TimeOut(transport, id), id) /\ InboxShrinks
  BY <1>2, TimeOutFacts DEF SyncIInv, SyncInv, TypeOK, InboxShrinks
<1>5. /\ \A r : Possible(r)' => Possible(r)
      /\ (sync' = sync /\ excused' = excused) \/ excused' = Heard
  BY <1>1, <1>2, <1>4, SyncFailedFacts DEF SyncIInv
<1>6. \A n : Upcoming(n)' <=> Upcoming(n)
  BY <1>2 DEF Upcoming
<1>7. StoreStays
  BY <1>2, <1>3, <1>5, <1>6 DEF StoreStays
<1>. QED
  BY <1>2, <1>3, <1>5, <1>6, <1>7, FailsStep

LEMMA FlushThrottledStep ==
    ASSUME SyncIInv, FlushThrottled
    PROVE  SyncIInv'
<1>1. /\ log' = log /\ published' = published /\ reads' = reads /\ inbox' = inbox
      /\ UNCHANGED <<latest, deferred, view, archived, guarded, welcomed, excused, ignored, route,
                     settling>>
      /\ StartSync(transport)
  BY DEF FlushThrottled, server
<1>2. SyncInv' /\ Len(log) \in Nat /\ published \in Nat
  BY FlushThrottledSync DEF SyncIInv, SyncInv, TypeOK
<1>3. /\ transport.socket = "open" =>
            sync'.request # None /\ (sync'.again \/ \A r : ~Possible(r)')
      /\ \A r : Possible(r)' => Possible(r)
  BY <1>1, StartSyncFacts DEF InboxShrinks, SyncIInv
<1>4. \A n : Upcoming(n)' <=> Upcoming(n)
  BY <1>1 DEF Upcoming
<1>5. StoreStays
  BY <1>1, <1>2, <1>3, <1>4 DEF StoreStays
<1>6. CASE transport.socket = "open"
  <2>1. StillAwaited
    BY <1>3, <1>6 DEF StillAwaited, Awaited
  <2>2. Answers' /\ Skipped'
    BY <1>1, <1>4, <1>5, <2>1, AnswersStay, SkippedStays DEF SyncIInv
  <2>3. AllKept'
    BY <1>1, <1>2, <1>3, <1>6, FetchesAll
  <2>. QED
    BY <1>2, <2>2, <2>3 DEF SyncIInv
<1>7. CASE transport.socket # "open"
  BY <1>1, <1>2, <1>7, StartSyncFacts, LostStep DEF InboxShrinks, SyncIInv
<1>. QED
  BY <1>6, <1>7

LEMMA HandleWelcomeStep ==
    ASSUME SyncIInv, HandleWelcome
    PROVE  SyncIInv'
<1>1. /\ inbox # <<>> /\ inbox' = Tail(inbox) /\ Head(inbox).type = "welcome"
      /\ log' = log /\ published' = published /\ reads' = reads /\ latest' = 0
      /\ UNCHANGED <<view, archived, guarded, ignored>> /\ StartSync(transport)
  BY DEF HandleWelcome, server
<1>2. /\ SyncInv' /\ InboxShrinks /\ transport.socket = "open"
      /\ inbox \in Seq(Brought) /\ Len(log) \in Nat /\ published \in Nat
  BY HandleWelcomeSync DEF SyncIInv, SyncInv, TypeOK
<1>3. /\ sync'.request # None /\ (sync'.again \/ \A r : ~Possible(r)')
      /\ \A r : Possible(r)' => Possible(r)
  BY <1>1, <1>2, StartSyncFacts DEF SyncIInv
<1>4. \A n : Upcoming(n)' <=> Upcoming(n)
  BY <1>1, <1>2, UpcomingTail
<1>5. StoreStays
  BY <1>1, <1>2, <1>3, <1>4 DEF StoreStays
<1>6. Answers'
  <2>1. StillAwaited
    BY <1>3 DEF StillAwaited, Awaited
  <2>. QED
    BY <1>1, <1>5, <2>1, AnswersStay DEF SyncIInv
<1>7. Skipped'
  BY <1>1 DEF Skipped
<1>8. AllKept'
  BY <1>1, <1>2, <1>3, FetchesAll
<1>. QED
  BY <1>2, <1>6, <1>7, <1>8 DEF SyncIInv

LEMMA GuardExpiresStep ==
    ASSUME SyncIInv, GuardExpires
    PROVE  SyncIInv'
<1>1. /\ log' = log /\ published' = published /\ reads' = reads /\ inbox' = inbox
      /\ UNCHANGED <<latest, sync, throttled, deferred, view, archived, welcomed, excused, ignored,
                     route, settling>>
      /\ sync.request = None
  BY DEF GuardExpires, server
<1>2. SyncInv' /\ Len(log) \in Nat
  BY GuardExpiresSync DEF SyncIInv, SyncInv, TypeOK
<1>3. \A r : ~Possible(r)'
  BY <1>1 DEF Possible
<1>4. StoreStays /\ \A n : Upcoming(n)' <=> Upcoming(n)
  BY <1>1, <1>2, <1>3 DEF StoreStays, Upcoming
<1>5. Answers' /\ Skipped'
  BY <1>1, <1>3, <1>4, SkippedStays DEF Answers, SyncIInv
<1>6. AllKept'
  BY <1>1, <1>2, <1>4, KeptStays DEF AllKept, SyncIInv
<1>. QED
  BY <1>2, <1>5, <1>6 DEF SyncIInv

LEMMA NavigateStep ==
    ASSUME SyncIInv, Navigate
    PROVE  SyncIInv'
<1>1. /\ log' = log /\ published' = published /\ reads' = reads /\ inbox' = inbox
      /\ UNCHANGED client /\ settling' = TRUE
  BY DEF Navigate, server
<1>2. SyncInv' /\ Len(log) \in Nat /\ published \in Nat
  BY NavigateSync DEF SyncIInv, SyncInv, TypeOK
<1>3. StoreStays /\ \A n : Upcoming(n)' <=> Upcoming(n)
  BY <1>1, <1>2 DEF StoreStays, Upcoming, Possible, client
<1>4. Answers' /\ Skipped'
  <2>1. StillAwaited
    BY <1>1, <1>3 DEF StillAwaited, Awaited, Waits, client
  <2>. QED
    BY <1>1, <1>3, <2>1, AnswersStay, SkippedStays DEF SyncIInv, client
<1>5. ASSUME NEW n \in 1 .. published, Kept(n) PROVE Kept(n)'
  <2>1. Fetching(n)' <=> Fetching(n)
    BY <1>1 DEF Fetching, client
  <2>2. Hidden(log[n].on)' <=> Hidden(log[n].on)
    BY <1>1 DEF Hidden, Held, Gone, Known, Created, Deleted, Existing, client
  <2>. QED
    BY <1>1, <1>3, <1>5, <2>1, <2>2 DEF Kept, Waits, Reflected, client
<1>6. AllKept'
  BY <1>1, <1>5 DEF AllKept, SyncIInv, client
<1>. QED
  BY <1>2, <1>4, <1>6 DEF SyncIInv

LEMMA SendOtherStep ==
    ASSUME SyncIInv, SendOther
    PROVE  SyncIInv'
<1>1. /\ log' = log /\ published' = published /\ reads' = reads /\ inbox' = inbox
      /\ UNCHANGED client /\ route' = route /\ settling' = settling
  BY DEF SendOther, server
<1>2. SyncInv' /\ Len(log) \in Nat
  BY SendOtherSync DEF SyncIInv, SyncInv, TypeOK
<1>3. StoreStays /\ \A n : Upcoming(n)' => Upcoming(n)
  BY <1>1, <1>2 DEF StoreStays, Upcoming, Possible, client
<1>. QED
  BY <1>1, <1>2, <1>3, QuietStep DEF client

LEMMA StutterStep ==
    ASSUME SyncIInv, UNCHANGED vars
    PROVE  SyncIInv'
<1>1. /\ log' = log /\ published' = published /\ reads' = reads /\ inbox' = inbox
      /\ UNCHANGED client /\ route' = route /\ settling' = settling
  BY DEF vars, server
<1>2. SyncInv' /\ Len(log) \in Nat
  BY StutterSync DEF SyncIInv, SyncInv, TypeOK
<1>3. StoreStays /\ \A n : Upcoming(n)' => Upcoming(n)
  BY <1>1, <1>2 DEF StoreStays, Upcoming, Possible, client
<1>. QED
  BY <1>1, <1>2, <1>3, QuietStep DEF client

LEMMA ConnectionSteps ==
    ASSUME SyncIInv, Open \/ Drop \/ Close \/ ConnectFails \/ Reconnect
    PROVE  SyncIInv'
<1>1. CASE Open
  <2>1. SyncInv'
    BY <1>1, OpenSync DEF SyncIInv
  <2>2. inbox' = <<Welcome>> /\ reads' = reads /\ welcomed' = welcomed /\ transport.socket = "connecting"
    BY <1>1 DEF Open, server, client
  <2>3. ~welcomed' /\ DOMAIN reads' = {}
    BY <2>2 DEF SyncIInv, SyncInv, Connected
  <2>4. \A i \in DOMAIN inbox' : inbox'[i].type # "snapshot"
    BY <2>2 DEF Welcome
  <2>. QED
    BY <2>1, <2>3, <2>4, ConnectionStep
<1>2. CASE Drop
  BY <1>2, DropSync, LostStep, DroppedFacts DEF Drop, ConnectionIsLost, SyncIInv, SyncInv, TypeOK
<1>3. CASE Close
  BY <1>3, CloseSync, LostStep, ClosedFacts DEF Close, ConnectionIsLost, SyncIInv, SyncInv, TypeOK
<1>4. CASE ConnectFails
  BY <1>4, ConnectFailsSync, LostStep, ClosedFacts
     DEF ConnectFails, ConnectionIsLost, SyncIInv, SyncInv, TypeOK
<1>5. CASE Reconnect
  <2>1. SyncInv' /\ transport'.socket = "connecting"
    BY <1>5, ReconnectSync, ReconnectedFacts
       DEF Reconnect, SyncIInv, SyncInv, TypeOK, PendingIsCarriedHere
  <2>. QED
    BY <2>1, LostStep
<1>. QED
  BY <1>1, <1>2, <1>3, <1>4, <1>5

LEMMA HandleSnapshotStep ==
    ASSUME SyncIInv, HandleSnapshot
    PROVE  SyncIInv'
<1>. SUFFICES ASSUME NEW m, m = Head(inbox) PROVE SyncIInv'
  OBVIOUS
<1>1. /\ inbox # <<>> /\ inbox' = Tail(inbox) /\ m.type = "snapshot"
      /\ log' = log /\ published' = published /\ reads' = reads
      /\ throttled' = throttled /\ deferred' = deferred /\ route' = route /\ settling' = settling
      /\ welcomed' = welcomed /\ excused' = excused /\ ignored' = ignored
  BY DEF HandleSnapshot, server
<1>2. /\ transport.socket = "open" /\ welcomed /\ m.n \in 0 .. Len(log)
      /\ m.id \in transport.pending =>
            /\ Possible(m.n)
            /\ sync.again => sync'.request # None
            /\ \A r : ~Possible(r)'
      /\ m.id \notin transport.pending =>
            sync' = sync /\ \A r : Possible(r)' => Possible(r)
      /\ m.id \in transport.pending => sync.request = m.id
  BY SnapshotFacts DEF SyncIInv
<1>3. /\ SyncInv' /\ inbox \in Seq(Brought) /\ Len(log) \in Nat /\ published \in 0 .. Len(log)
      /\ m.n \in Nat /\ (view # None => view \in Nat) /\ latest \in Nat
  BY <1>2, HandleSnapshotSync DEF SyncIInv, SyncInv, TypeOK
<1>4. \A n : Upcoming(n)' <=> Upcoming(n)
  BY <1>1, <1>3, UpcomingTail
<1>5. CASE m.id \notin transport.pending
  <2>1. UNCHANGED <<latest, view, archived, guarded>>
    BY <1>5 DEF HandleSnapshot
  <2>2. StoreStays
    BY <1>1, <1>2, <1>3, <1>4, <1>5, <2>1 DEF StoreStays
  <2>. QED
    BY <1>1, <1>2, <1>3, <1>4, <1>5, <2>1, <2>2, QuietStep
<1>6. CASE m.id \in transport.pending
  <2>. DEFINE both == guarded \cap Known \cap Existing(m.n)
              agreed == {t \in both : (t \in archived) = (t \in ArchivedAfter(m.n))}
              kept == both \ agreed
  <2>1. /\ latest' = (IF m.n > latest THEN m.n ELSE latest)
        /\ view' = m.n
        /\ archived' = ((ArchivedAfter(m.n) \cap Existing(m.n)) \ kept) \cup (archived \cap kept)
    BY <1>6 DEF HandleSnapshot, SyncServerReadModel
  <2>2. /\ view # None => view <= m.n
        /\ \A n \in m.n + 1 .. published : Held(log[n].on) =>
              Awaited(n) \/ log[n].on \in guarded \cup Off(m.n)
    BY <1>2, <1>3, <1>6 DEF Answers, SyncIInv
  <2>3. Answers'
    BY <1>2, <1>6 DEF Answers
  <2>4. m.n # None
    BY <1>3, NoneAssumption
  <2>5. Skipped'
    <3>. SUFFICES ASSUME NEW n \in 1 .. latest', Upcoming(n) \/ n > published PROVE n <= m.n
      BY <1>1, <1>4, <2>1, <2>4 DEF Skipped, Reflected
    <3>1. CASE n <= latest
      <4>1. Reflected(n)
        BY <1>2, <1>3, <3>1 DEF Skipped, SyncIInv
      <4>. QED
        BY <1>3, <2>2, <4>1 DEF Reflected
    <3>2. CASE ~(n <= latest)
      BY <1>3, <2>1, <3>2
    <3>. QED
      BY <3>1, <3>2
  <2>6. Known' = Existing(m.n) /\ \A t : Gone(t)' <=> t \in Deleted(m.n)
    BY <1>1, <2>1, <2>4 DEF Known, Gone, Created, Deleted, Existing
  <2>7. ASSUME NEW n \in 1 .. published, Hidden(log[n].on), n > m.n, ~Awaited(n)
        PROVE  Hidden(log[n].on)'
    <3>. DEFINE t == log[n].on
    <3>1. CASE Gone(t)
      <4>1. t \in Deleted(m.n)
        BY <1>3, <2>2, <3>1, HistoryGrows DEF Gone
      <4>. QED
        BY <1>1, <2>6, <2>7, <4>1 DEF Hidden, Held
    <3>2. CASE Held(t)
      <4>1. t \in Threads /\ t \in Known /\ t \in archived
        BY <3>2 DEF Held
      <4>2. t \in guarded \cup Off(m.n)
        BY <1>3, <2>2, <2>7, <3>2
      <4>3. CASE t \in Deleted(m.n)
        BY <1>1, <2>6, <4>1, <4>3 DEF Hidden
      <4>4. CASE t \notin Deleted(m.n)
        <5>1. t \in Existing(m.n)
          BY <1>3, <2>2, <4>1, <4>4, HistoryGrows DEF Known, Existing
        <5>2. t \in archived'
          <6>1. CASE t \in kept
            BY <2>1, <4>1, <6>1
          <6>2. CASE t \notin kept
            <7>1. t \in ArchivedAfter(m.n)
              BY <4>1, <4>2, <4>4, <5>1, <6>2 DEF Off
            <7>. QED
              BY <2>1, <5>1, <6>2, <7>1
          <6>. QED
            BY <6>1, <6>2
        <5>. QED
          BY <1>1, <2>6, <4>1, <5>1, <5>2 DEF Hidden, Held
      <4>. QED
        BY <4>3, <4>4
    <3>. QED
      BY <2>7, <3>1, <3>2 DEF Hidden
  <2>8. ASSUME NEW n \in 1 .. published, Kept(n), ~sync.again PROVE Kept(n)'
    <3>1. Fetching(n) \/ n <= m.n \/ Reflected(n) => n <= m.n
      <4>1. Fetching(n) => n <= m.n
        BY <1>2, <1>3, <1>6, <2>8, FetchingMeans DEF SyncIInv
      <4>2. Reflected(n) => n <= m.n
        BY <1>3, <2>2 DEF Reflected
      <4>. QED
        BY <4>1, <4>2
    <3>2. n <= m.n => Reflected(n)'
      BY <2>1, <2>4 DEF Reflected
    <3>3. Awaited(n) => Kept(n)'
      BY <1>1, <1>4, <2>8 DEF Awaited, Waits, Kept
    <3>4. n <= m.n \/ n > m.n
      BY <1>3
    <3>5. Hidden(log[n].on)' => Kept(n)'
      BY DEF Kept
    <3>. QED
      BY <2>7, <2>8, <3>1, <3>2, <3>3, <3>4, <3>5 DEF Kept, Awaited
  <2>9. AllKept'
    <3>1. CASE sync.again
      BY <1>1, <1>2, <1>3, <1>6, <3>1, FetchesAll
    <3>2. CASE ~sync.again
      BY <1>1, <1>2, <2>8, <3>2 DEF AllKept, SyncIInv
    <3>. QED
      BY <3>1, <3>2
  <2>. QED
    BY <1>3, <2>3, <2>5, <2>9 DEF SyncIInv
<1>. QED
  BY <1>5, <1>6

\* A thread archived at an event that has no flag, but for those to come, was archived before.
LEMMA ArchivedBefore ==
    ASSUME TypeOK, NEW r \in Nat, NEW n \in r + 1 .. published, NEW t \in ArchivedAfter(n),
           t \in Created(r), \A i \in r + 1 .. n : Flags(i) => log[i].on # t
    PROVE  t \in ArchivedAfter(r)
<1>1. PICK i \in 1 .. n : /\ log[i] = [on |-> t, what |-> "archived"]
                          /\ \A j \in i .. n : log[j] # [on |-> t, what |-> "unarchived"]
  BY DEF ArchivedAfter
<1>2. published \in Nat
  BY DEF TypeOK
<1>3. i <= r
  <2>1. Flags(i) /\ log[i].on = t
    BY <1>1 DEF Flags
  <2>. QED
    BY <1>2, <2>1
<1>4. i \in 1 .. r /\ \A j \in i .. r : j \in i .. n
  BY <1>2, <1>3
<1>. QED
  BY <1>1, <1>4 DEF ArchivedAfter

LEMMA RouteEffectStep ==
    ASSUME SyncIInv, RouteEffect
    PROVE  SyncIInv'
<1>1. /\ log' = log /\ published' = published /\ reads' = reads /\ inbox' = inbox
      /\ settling' = FALSE /\ settling
      /\ UNCHANGED <<latest, view, archived, guarded, welcomed, route>>
  BY DEF RouteEffect, server
<1>2. SyncInv' /\ Len(log) \in Nat /\ published \in Nat /\ deferred \subseteq Threads
  BY RouteEffectSync DEF SyncIInv, SyncInv, TypeOK
<1>3. \A n : Upcoming(n)' <=> Upcoming(n)
  BY <1>1 DEF Upcoming
<1>4. Skipped'
  BY <1>1, <1>3, SkippedStays DEF SyncIInv
<1>5. CASE ShowsPaused
  <2>1. /\ throttled' = FALSE /\ sync' = [sync EXCEPT !.again = FALSE]
        /\ deferred' = deferred \ {route}
        /\ excused' = IF throttled \/ sync.again THEN Heard ELSE excused
        /\ ignored' = IF route \in deferred /\ Mistaken(route, archived, Heard)
                      THEN ignored \cup OfThread(route, Heard) ELSE ignored
    BY <1>5 DEF RouteEffect
  <2>2. sync'.request = sync.request
    BY <2>1 DEF SyncIInv, SyncInv, TypeOK
  <2>3. StoreStays
    BY <1>1, <1>2, <1>3, <2>1, <2>2 DEF StoreStays, Possible
  <2>4. /\ Heard \in 0 .. published /\ Heard \in Nat
        /\ \A n \in 1 .. published : n <= Heard \/ Upcoming(n)
        /\ \A n \in 1 .. Heard : ~Upcoming(n)
    <3>1. \A n : Push(n).type = "event" /\ Push(n).n = n
      BY DEF Push
    <3>. QED
      BY <3>1, HeardFacts DEF SyncIInv, SyncInv, Upcoming
  <2>5. StillAwaited
    <3>. SUFFICES ASSUME NEW r \in Nat, Possible(r), NEW n \in r + 1 .. published,
                         Held(log[n].on), Awaited(n), ~Awaited(n)'
                  PROVE  log[n].on \in guarded \cup Off(r)
      BY DEF StillAwaited
    <3>. DEFINE t == log[n].on
    <3>1. n \in 1 .. published /\ n \in 1 .. Heard
      BY <1>2, <1>3, <2>4 DEF Awaited
    <3>2. ~(throttled \/ sync.again)
      BY <2>1, <3>1 DEF Awaited
    <3>3. Waits(n)
      BY <1>3, <2>1, <3>2 DEF Awaited
    <3>4. t = route /\ route \in deferred
      BY <1>1, <2>1, <3>3 DEF Waits, Awaited
    <3>5. ~Mistaken(route, archived, Heard)
      <4>1. n \in OfThread(route, Heard)
        BY <3>1, <3>4 DEF OfThread
      <4>. QED
        BY <2>1, <3>4, <4>1 DEF Awaited
    <3>6. t \in ArchivedAfter(Heard) /\ t \in Known
      BY <3>4, <3>5 DEF Mistaken, Held
    <3>7. \A i \in r + 1 .. Heard : Flags(i) => log[i].on \in guarded
      <4>1. \A i \in r + 1 .. Heard : i \in r + 1 .. published /\ i \in 1 .. Heard
        BY <1>2, <2>4
      <4>. QED
        BY <2>4, <4>1 DEF SyncIInv, Answers
    <3>8. t \in Created(r)
      <4>1. view # None /\ view <= r /\ view \in Nat
        BY <3>6 DEF Known, Answers, SyncIInv, SyncInv, TypeOK
      <4>. QED
        BY <3>6, <4>1, HistoryGrows DEF Known, Existing
    <3>9. Heard \in r + 1 .. published
      BY <2>4, <3>1
    <3>10. CASE t \notin guarded
      <4>1. t \in ArchivedAfter(r)
        BY <3>6, <3>7, <3>8, <3>9, <3>10, ArchivedBefore DEF SyncIInv, SyncInv
      <4>. QED
        BY <4>1 DEF Off
    <3>. QED
      BY <3>10
  <2>8. Answers'
    BY <1>1, <2>3, <2>5, AnswersStay DEF SyncIInv
  <2>6. ASSUME NEW n \in 1 .. published, Kept(n) PROVE Kept(n)'
    <3>1. CASE throttled \/ sync.again
      BY <1>3, <2>1, <2>4, <3>1 DEF Kept
    <3>2. CASE ~(throttled \/ sync.again)
      <4>1. Fetching(n) => Fetching(n)'
        <5>. SUFFICES ASSUME Fetching(n) PROVE Fetching(n)'
          OBVIOUS
        <5>1. sync.request # None /\ \A r \in Nat : Possible(r) => r >= n
          BY <3>2, FetchingMeans DEF SyncIInv
        <5>2. \A r \in Nat : Possible(r)' => r >= n
          BY <1>1, <2>2, <5>1 DEF Possible
        <5>. QED
          BY <1>2, <2>2, <5>1, <5>2, FetchingFrom DEF SyncInv
      <4>2. Hidden(log[n].on) => Hidden(log[n].on)'
        BY <1>1 DEF Hidden, Held, Gone, Known, Created, Deleted, Existing
      <4>3. CASE log[n].on \in deferred
        <5>1. CASE log[n].on # route
          BY <1>1, <2>1, <4>3, <5>1 DEF Kept, Waits
        <5>2. CASE log[n].on = route /\ Hidden(route)
          BY <4>2, <5>2 DEF Kept
        <5>3. CASE log[n].on = route /\ ~Hidden(route)
          <6>1. Mistaken(route, archived, Heard)
            BY <1>2, <1>5, <4>3, <5>3 DEF ShowsPaused, Hidden, Held, Mistaken
          <6>2. ignored' = ignored \cup OfThread(route, Heard)
            BY <2>1, <4>3, <5>3, <6>1
          <6>3. n <= Heard => n \in OfThread(route, Heard)
            BY <2>4, <5>3 DEF OfThread
          <6>. QED
            BY <1>3, <2>4, <6>2, <6>3 DEF Kept
        <5>. QED
          BY <5>1, <5>2, <5>3
      <4>4. CASE log[n].on \notin deferred
        BY <1>1, <1>3, <2>1, <2>6, <3>2, <4>1, <4>2, <4>4 DEF Kept, Waits, Reflected
      <4>. QED
        BY <4>3, <4>4
    <3>. QED
      BY <3>1, <3>2
  <2>7. AllKept'
    BY <1>1, <2>6 DEF AllKept, SyncIInv
  <2>. QED
    BY <1>2, <1>4, <2>7, <2>8 DEF SyncIInv
<1>6. CASE ~ShowsPaused /\ route \in deferred
  <2>1. /\ StartSync(transport) /\ UNCHANGED <<throttled, excused, ignored>>
        /\ deferred' = deferred \ {route}
    BY <1>6 DEF RouteEffect
  <2>2. /\ transport.socket = "open" =>
              sync'.request # None /\ (sync'.again \/ \A r : ~Possible(r)')
        /\ \A r : Possible(r)' => Possible(r)
        /\ transport'.socket = transport.socket
    BY <1>1, <2>1, StartSyncFacts DEF InboxShrinks, SyncIInv
  <2>3. StoreStays
    BY <1>1, <1>2, <1>3, <2>1, <2>2 DEF StoreStays
  <2>4. CASE transport.socket = "open"
    <3>1. StillAwaited
      BY <2>2, <2>4 DEF StillAwaited, Awaited
    <3>2. Answers'
      BY <1>1, <2>3, <3>1, AnswersStay DEF SyncIInv
    <3>3. AllKept'
      BY <1>1, <1>2, <2>2, <2>4, FetchesAll
    <3>. QED
      BY <1>2, <1>4, <3>2, <3>3 DEF SyncIInv
  <2>5. CASE transport.socket # "open"
    BY <1>2, <2>2, <2>5, LostStep
  <2>. QED
    BY <2>4, <2>5
<1>7. CASE ~ShowsPaused /\ route \notin deferred
  <2>1. UNCHANGED <<throttled, sync, deferred, excused, ignored>>
    BY <1>7 DEF RouteEffect
  <2>2. StoreStays
    BY <1>1, <1>2, <1>3, <2>1 DEF StoreStays, Possible
  <2>3. Answers'
    <3>1. \A n \in 1 .. published : Waits(n) => Waits(n)'
      BY <1>1, <1>7, <2>1 DEF Waits
    <3>2. \A r \in Nat : \A n \in r + 1 .. published : n \in 1 .. published
      BY <1>2
    <3>3. StillAwaited
      BY <1>1, <1>3, <2>1, <3>1, <3>2 DEF StillAwaited, Awaited
    <3>. QED
      BY <1>1, <2>2, <3>3, AnswersStay DEF SyncIInv
  <2>4. ASSUME NEW n \in 1 .. published, Kept(n) PROVE Kept(n)'
    <3>1. Fetching(n)' <=> Fetching(n)
      BY <1>1, <2>1 DEF Fetching
    <3>2. Hidden(log[n].on)' <=> Hidden(log[n].on)
      BY <1>1 DEF Hidden, Held, Gone, Known, Created, Deleted, Existing
    <3>. QED
      BY <1>1, <1>3, <1>7, <2>1, <2>4, <3>1, <3>2 DEF Kept, Waits, Reflected
  <2>5. AllKept'
    BY <1>1, <2>4 DEF AllKept, SyncIInv
  <2>. QED
    BY <1>2, <1>4, <2>3, <2>5 DEF SyncIInv
<1>. QED
  BY <1>5, <1>6, <1>7

\* A push taken from the inbox is the oldest.
LEMMA PushTaken ==
    ASSUME SyncInv, inbox # <<>>, NEW n \in 1 .. published, Head(inbox) = Push(n), inbox' = Tail(inbox)
    PROVE  /\ \A k : Upcoming(k) => k = n \/ Upcoming(k)'
           /\ \A k : Upcoming(k)' => k \in n + 1 .. published /\ Upcoming(k)
           /\ \A k \in n + 1 .. published : Upcoming(k)'
<1>1. /\ DOMAIN inbox = 1 .. Len(inbox) /\ Len(inbox) \in Nat \ {0} /\ inbox[1] = Push(n)
      /\ 1 \in DOMAIN inbox
      /\ \A i \in DOMAIN inbox' : i \in Nat /\ i + 1 \in DOMAIN inbox /\ i + 1 > 1 /\ inbox'[i] = inbox[i + 1]
      /\ \A i \in DOMAIN inbox : i > 1 => i - 1 \in DOMAIN inbox' /\ inbox'[i - 1] = inbox[i]
      /\ published \in Nat
  BY InboxTail DEF SyncInv, TypeOK
<1>2. \A k : Push(k).type = "event" /\ Push(k).n = k
  BY DEF Push
<1>3. ASSUME NEW k, Upcoming(k) PROVE k = n \/ Upcoming(k)'
  <2>1. PICK i \in DOMAIN inbox : inbox[i] = Push(k)
    BY <1>3 DEF Upcoming
  <2>2. CASE i = 1
    BY <1>1, <1>2, <2>1, <2>2
  <2>3. CASE i > 1
    BY <1>1, <2>1, <2>3 DEF Upcoming
  <2>. QED
    BY <1>1, <2>2, <2>3
<1>4. ASSUME NEW k, Upcoming(k)' PROVE k \in n + 1 .. published /\ Upcoming(k)
  <2>1. PICK i \in DOMAIN inbox' : inbox'[i] = Push(k)
    BY <1>4 DEF Upcoming
  <2>2. i + 1 \in DOMAIN inbox /\ 1 < i + 1 /\ inbox[i + 1] = Push(k)
    BY <1>1, <2>1
  <2>3. inbox[1].n < inbox[i + 1].n /\ inbox[i + 1].n \in 1 .. published
    BY <1>1, <1>2, <2>2 DEF SyncInv, InboxOK, Fits, Welcome, Snapshot, Answer
  <2>. QED
    BY <1>1, <1>2, <2>2, <2>3 DEF Upcoming
<1>5. ASSUME NEW k \in n + 1 .. published PROVE Upcoming(k)'
  <2>1. k \in inbox[1].n .. published /\ inbox[1].type = "event"
    BY <1>1, <1>2
  <2>2. Upcoming(k)
    BY <1>1, <2>1 DEF SyncInv, InboxOK, Upcoming
  <2>. QED
    BY <1>1, <1>3, <2>2
<1>. QED
  BY <1>3, <1>4, <1>5

LEMMA HandlePushStep ==
    ASSUME SyncIInv, HandlePush
    PROVE  SyncIInv'
<1>. SUFFICES ASSUME NEW n, n = Head(inbox).n PROVE SyncIInv'
  OBVIOUS
<1>1. /\ inbox # <<>> /\ inbox' = Tail(inbox)
      /\ log' = log /\ published' = published /\ reads' = reads
      /\ UNCHANGED <<sync, view, welcomed, excused, route, settling>>
  BY DEF HandlePush, server
<1>2. SyncInv' /\ InboxShrinks /\ welcomed /\ Head(inbox) = Push(n) /\ n \in 1 .. published
  BY HandlePushSync DEF SyncIInv
<1>3. /\ Len(log) \in Nat /\ published \in Nat /\ latest \in Nat /\ (view # None => view \in Nat)
      /\ deferred \subseteq Threads
  BY DEF SyncIInv, SyncInv, TypeOK
<1>4. /\ \A k : Upcoming(k) => k = n \/ Upcoming(k)'
      /\ \A k : Upcoming(k)' => k \in n + 1 .. published /\ Upcoming(k)
      /\ \A k \in n + 1 .. published : Upcoming(k)'
  BY <1>1, <1>2, PushTaken DEF SyncIInv
<1>5. \A r : Possible(r)' => Possible(r)
  BY <1>1, <1>2 DEF Possible, InboxShrinks
<1>6. Upcoming(n)
  BY <1>1, <1>2, InboxTail DEF Upcoming, SyncIInv, SyncInv, TypeOK
<1>7. Known' = Known /\ (\A t : Gone(t)' <=> Gone(t)) /\ \A r : Off(r)' = Off(r)
  BY <1>1 DEF Known, Created, Deleted, Existing, Gone, ArchivedAfter, Off
<1>8. \A k \in 1 .. published : Fetching(k) => Fetching(k)'
  <2>. SUFFICES ASSUME NEW k \in 1 .. published, Fetching(k) PROVE Fetching(k)'
    OBVIOUS
  <2>1. sync.request # None /\ (sync.again \/ \A r \in Nat : Possible(r) => r >= k)
    BY FetchingMeans DEF SyncIInv
  <2>. QED
    BY <1>1, <1>2, <1>5, <2>1, FetchingFrom DEF SyncInv
<1>9. CASE n <= latest
  <2>1. UNCHANGED <<latest, throttled, deferred, archived, guarded, ignored>>
    BY <1>9 DEF HandlePush
  <2>2. Reflected(n)
    BY <1>2, <1>6, <1>9 DEF Skipped, SyncIInv
  <2>3. \A t : (Held(t)' <=> Held(t)) /\ (Hidden(t)' <=> Hidden(t))
    BY <1>7, <2>1 DEF Hidden, Held
  <2>4. Answers'
    <3>. SUFFICES ASSUME NEW r \in Nat, Possible(r)'
                  PROVE  /\ view # None => view <= r
                         /\ \A k \in r + 1 .. published :
                               Flags(k) => Upcoming(k)' \/ log[k].on \in guarded
                         /\ \A k \in r + 1 .. published : Held(log[k].on) =>
                               Awaited(k)' \/ log[k].on \in guarded \cup Off(r)
      BY <1>1, <1>7, <2>1, <2>3 DEF Answers, Flags, Held
    <3>1. /\ view # None => view <= r
          /\ \A k \in r + 1 .. published : Flags(k) => Upcoming(k) \/ log[k].on \in guarded
          /\ \A k \in r + 1 .. published : Held(log[k].on) =>
                Awaited(k) \/ log[k].on \in guarded \cup Off(r)
      BY <1>5 DEF Answers, SyncIInv
    <3>2. \A k \in r + 1 .. published : k # n
      BY <1>2, <1>3, <2>2, <3>1 DEF Reflected
    <3>3. \A k \in r + 1 .. published : Awaited(k) => Awaited(k)'
      BY <1>1, <1>4, <2>1, <3>2 DEF Awaited, Waits
    <3>. QED
      BY <1>4, <3>1, <3>2, <3>3
  <2>5. Skipped'
    BY <1>1, <1>4, <2>1, SkippedStays DEF SyncIInv
  <2>6. ASSUME NEW k \in 1 .. published, Kept(k) PROVE Kept(k)'
    <3>1. Reflected(k)' <=> Reflected(k)
      BY <1>1 DEF Reflected
    <3>2. Hidden(log[k].on) => Hidden(log[k].on)'
      BY <1>1, <1>7, <2>1 DEF Hidden, Held
    <3>. QED
      BY <1>1, <1>4, <1>8, <2>1, <2>2, <2>6, <3>1, <3>2 DEF Kept, Waits
  <2>7. AllKept'
    BY <1>1, <2>6 DEF AllKept, SyncIInv
  <2>. QED
    BY <1>2, <2>4, <2>5, <2>7 DEF SyncIInv
<1>10. CASE ~(n <= latest)
  <2>. DEFINE e == log[n]
              unarchive == e.what = "unarchived"
  <2>1. HandleEvent(n)
    BY <1>10 DEF HandlePush
  <2>2. /\ latest' = n
        /\ archived' = CASE e.what = "archived" -> archived \cup ({e.on} \cap Known)
                         [] unarchive -> archived \ {e.on}
                         [] OTHER -> archived
        /\ guarded' = IF Flags(n) THEN guarded \cup {e.on} ELSE guarded
        /\ ignored' = IF Suppressed(e) /\ Mistaken(e.on, archived', n)
                      THEN ignored \cup OfThread(e.on, n) ELSE ignored
    BY <2>1 DEF HandleEvent, Flags
  <2>3. /\ Suppressed(e) => deferred' = deferred \ {e.on} /\ throttled' = throttled
        /\ ~Suppressed(e) /\ (e.on \in {route, Project} \/ unarchive) => throttled' = TRUE
        /\ ~Suppressed(e) /\ ~(e.on \in {route, Project} \/ unarchive) =>
              deferred' = deferred \cup {e.on} /\ throttled' = throttled
    BY <2>1 DEF HandleEvent
  <2>4. /\ guarded \subseteq guarded' /\ ignored \subseteq ignored'
        /\ Flags(n) => log[n].on \in guarded'
        /\ throttled => throttled'
    BY <2>2, <2>3
  <2>5. /\ ~Flags(n) => archived' = archived
        /\ \A t : t \in archived' /\ t \notin archived => Flags(n) /\ t = log[n].on
        /\ \A t : t \in archived /\ t \notin archived' => e.what = "unarchived" /\ t = log[n].on
    BY <2>2 DEF Flags
  <2>6. \A t : /\ Held(t)' <=> t \in Threads /\ t \in Known /\ t \in archived'
               /\ Hidden(t)' <=> Held(t)' \/ (t \in Threads /\ Gone(t))
    BY <1>7 DEF Hidden, Held
  <2>7. /\ Suppressed(e) => /\ log[n].on \in Threads
                            /\ ~(log[n].on \in Known /\ log[n].on \notin archived')
                            /\ ~Flags(n)
        /\ Flags(n) => ~Suppressed(e)
    BY DEF Suppressed, Flags
  <2>8. n \in OfThread(log[n].on, n)
    BY <1>2 DEF OfThread
  <2>. HIDE DEF e
  <2>9. ASSUME NEW r \in Nat, Possible(r)'
        PROVE  /\ view # None => view <= r
               /\ \A k \in r + 1 .. published : Flags(k) => Upcoming(k)' \/ log[k].on \in guarded'
               /\ \A k \in r + 1 .. published :
                     log[k].on \in Threads /\ log[k].on \in Known /\ log[k].on \in archived' =>
                        Awaited(k)' \/ log[k].on \in guarded' \cup Off(r)
    <3>1. /\ view # None => view <= r
          /\ \A k \in r + 1 .. published : Flags(k) => Upcoming(k) \/ log[k].on \in guarded
          /\ \A k \in r + 1 .. published : Held(log[k].on) =>
                Awaited(k) \/ log[k].on \in guarded \cup Off(r)
      BY <1>5, <2>9 DEF Answers, SyncIInv
    <3>2. \A k \in r + 1 .. published : Flags(k) => Upcoming(k)' \/ log[k].on \in guarded'
      BY <1>4, <2>4, <3>1
    <3>3. ASSUME NEW k \in r + 1 .. published,
                 log[k].on \in Threads /\ log[k].on \in Known /\ log[k].on \in archived',
                 ~Awaited(k)', log[k].on \notin guarded'
          PROVE  log[k].on \in Off(r)
      <4>. DEFINE t == log[k].on
      <4>1. ~(Flags(n) /\ t = log[n].on)
        BY <2>4, <3>3
      <4>2. t \in archived
        BY <2>5, <3>3, <4>1
      <4>3. Awaited(k) \/ t \in Off(r)
        BY <2>4, <3>1, <3>3, <4>2 DEF Held
      <4>4. ~Upcoming(k)' /\ k \notin ignored' /\ ~throttled' /\ ~Waits(k)'
        BY <3>3 DEF Awaited
      <4>5. t = log[n].on /\ Suppressed(e) => t \in Off(r)
        <5>. SUFFICES ASSUME t = log[n].on, Suppressed(e) PROVE t \in Off(r)
          OBVIOUS
        <5>1. k <= n
          BY <1>2, <1>3, <1>4, <4>4
        <5>2. k \in OfThread(log[n].on, n)
          BY <1>2, <1>3, <5>1 DEF OfThread
        <5>3. ~Mistaken(log[n].on, archived', n)
          BY <2>2, <4>4, <5>2 DEF e
        <5>4. t \in ArchivedAfter(n)
          BY <1>1, <3>3, <5>3 DEF Mistaken
        <5>5. t \in Created(r)
          BY <1>3, <3>1, <3>3, HistoryGrows DEF Known, Existing
        <5>6. ASSUME NEW i \in r + 1 .. n, Flags(i) PROVE log[i].on # t
          <6>1. i # n /\ i \notin n + 1 .. published /\ i \in r + 1 .. published
            BY <1>2, <1>3, <2>7, <5>6
          <6>2. ~Upcoming(i)
            BY <1>4, <6>1
          <6>. QED
            BY <2>4, <3>1, <3>3, <5>6, <6>1, <6>2
        <5>7. n \in r + 1 .. published
          BY <1>2, <1>3, <5>1
        <5>. QED
          BY <5>4, <5>5, <5>6, <5>7, ArchivedBefore DEF SyncIInv, SyncInv, Off
      <4>6. CASE Upcoming(k)
        <5>1. k = n
          BY <1>4, <4>4, <4>6
        <5>2. CASE ~Suppressed(e)
          <6>1. Waits(k)' \/ throttled'
            BY <1>1, <2>3, <5>1, <5>2 DEF Waits, e
          <6>. QED
            BY <4>4, <6>1
        <5>. QED
          BY <4>5, <5>1, <5>2
      <4>7. CASE Waits(k)
        <5>1. t \in deferred /\ t \notin deferred'
          BY <1>1, <4>4, <4>7 DEF Waits
        <5>2. Suppressed(e) /\ t = log[n].on
          BY <2>3, <4>4, <5>1 DEF e
        <5>. QED
          BY <4>5, <5>2
      <4>8. Awaited(k) => Upcoming(k) \/ Waits(k)
        BY <1>1, <2>4, <3>3 DEF Awaited
      <4>. QED
        BY <4>3, <4>6, <4>7, <4>8
    <3>. QED
      BY <3>1, <3>2, <3>3
  <2>10. Answers'
    BY <1>1, <1>7, <2>6, <2>9 DEF Answers, Flags, Held
  <2>11. Skipped'
    BY <1>1, <1>2, <1>3, <1>4, <2>2 DEF Skipped
  <2>12. ASSUME NEW k \in 1 .. published, Kept(k), ~throttled' PROVE Kept(k)'
    <3>. DEFINE t == log[k].on
    <3>1. ~(log[n].what = "unarchived")
      BY <2>3, <2>7, <2>12 DEF e, Flags
    <3>2. archived \subseteq archived'
      BY <2>5, <3>1 DEF e
    <3>3. t \in Threads /\ t \in Known /\ t \in archived' => Kept(k)'
      BY <1>1, <1>7 DEF Kept, Hidden, Held
    <3>4. CASE Reflected(k) \/ k <= excused \/ k \in ignored \/ Upcoming(k)' \/ throttled \/ Fetching(k)
      BY <1>1, <1>8, <2>4, <3>4 DEF Kept, Reflected
    <3>5. CASE Hidden(t)
      <4>1. Hidden(t)'
        BY <1>1, <1>7, <3>2, <3>5 DEF Hidden, Held
      <4>. QED
        BY <1>1, <4>1 DEF Kept
    <3>6. CASE Suppressed(e) /\ t = log[n].on
      <4>1. t \in Threads
        BY <2>7, <3>6
      <4>2. CASE t \in Known
        BY <2>7, <3>3, <3>6, <4>1, <4>2
      <4>3. CASE Gone(t)
        <5>1. Hidden(t)'
          BY <1>1, <1>7, <4>1, <4>3 DEF Hidden, Held
        <5>. QED
          BY <1>1, <5>1 DEF Kept
      <4>4. CASE t \notin Known /\ ~Gone(t)
        <5>1. ignored' = ignored \cup OfThread(log[n].on, n)
          BY <2>2, <3>6, <4>4 DEF e, Mistaken
        <5>2. CASE k <= n
          <6>1. k \in OfThread(log[n].on, n)
            BY <1>2, <3>6, <5>2 DEF OfThread
          <6>. QED
            BY <5>1, <6>1 DEF Kept
        <5>3. CASE ~(k <= n)
          BY <1>2, <1>3, <1>4, <5>3 DEF Kept
        <5>. QED
          BY <5>2, <5>3
      <4>. QED
        BY <4>2, <4>3, <4>4
    <3>7. CASE k = n /\ ~Suppressed(e)
      BY <1>1, <2>3, <2>12, <3>7 DEF Kept, Waits, e
    <3>8. CASE t \in deferred /\ (t # route \/ settling) /\ ~(Suppressed(e) /\ t = log[n].on)
      <4>1. t \in deferred'
        BY <2>3, <2>12, <3>8 DEF e
      <4>. QED
        BY <1>1, <3>8, <4>1 DEF Kept, Waits
    <3>. QED
      BY <1>4, <2>12, <3>4, <3>5, <3>6, <3>7, <3>8 DEF Kept, Waits
  <2>13. AllKept'
    BY <1>1, <2>12 DEF AllKept, SyncIInv, Kept
  <2>. QED
    BY <1>2, <2>10, <2>11, <2>13 DEF SyncIInv
<1>. QED
  BY <1>9, <1>10

-----------------------------------------------------------------------------
(* The theorems. *)

LEMMA NextStep ==
    ASSUME SyncIInv, [Next]_vars
    PROVE  SyncIInv'
BY CommitStep, PublishStep, RouteRequestStep, ReadSnapshotStep, RespondStep, ReadFailsStep,
   HandleSnapshotStep, HandleAnswerStep, RequestTimesOutStep, FlushThrottledStep, HandlePushStep,
   HandleWelcomeStep, GuardExpiresStep, NavigateStep, RouteEffectStep, SendOtherStep,
   ConnectionSteps, StutterStep DEF Next, System

\* The invariant of the router and the server.
THEOREM SpecSyncIInv == Spec => []SyncIInv
<1>1. SyncIInv /\ [Next]_vars => SyncIInv'
  BY NextStep
<1>. QED
  BY InitStep, <1>1, PTL DEF Spec

\* The state keeps its types: the messages of the inbox and of the transport, the reads and
\* the fetch in flight are what the router and the server expect of each other.
THEOREM SpecTypeOK == Spec => []TypeOK
<1>1. SyncIInv => TypeOK
  BY DEF SyncIInv, SyncInv
<1>. QED
  BY SpecSyncIInv, <1>1, PTL

\* A request that is awaited waits for a connection or was sent on this one, whatever the
\* queue coalesced or dropped and whatever the router forgot (wsTransport.ts).
THEOREM SpecPendingIsCarriedHere == Spec => []PendingIsCarriedHere
<1>1. SyncIInv => PendingIsCarriedHere
  BY DEF SyncIInv, SyncInv
<1>. QED
  BY SpecSyncIInv, <1>1, PTL

\* No event is forgotten: what the store does not reflect is still to be pushed or fetched,
\* waits until its thread is shown, or is of a thread the store does not follow (__root.tsx).
THEOREM SpecEventsAccountedFor == Spec => []EventsAccountedFor
<1>1. SyncIInv => EventsAccountedFor
  BY DEF SyncIInv, AllKept, Kept, EventsAccountedFor, Hidden, Held, Gone, Waits, Paused, Known,
        Existing, Upcoming
<1>. QED
  BY SpecSyncIInv, <1>1, PTL
=============================================================================
