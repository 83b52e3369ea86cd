--------------------------- MODULE Messaging_proofs ---------------------------
(***************************************************************************)
(* Proofs about Delivery and RabbitConnection in MCMessaging, which runs   *)
(* them beside Refund: for any messages, callbacks and numbers of faults.  *)
(***************************************************************************)
EXTENDS MCMessaging, Refund_proofs

(***************************************************************************)
(* Delivery: the queues and their bindings.                                *)
(***************************************************************************)
\* Delivery's instance of FiniteSets is the usual one.
LEMMA SameCardinality == \A S : D!Cardinality(S) = Cardinality(S)
BY DEF D!Cardinality, Cardinality

\* The same of finiteness.
LEMMA SameFiniteness == \A S : D!IsFiniteSet(S) <=> IsFiniteSet(S)
BY DEF D!IsFiniteSet, IsFiniteSet

\* The names of the retry queues, and how many there are for a consumer.
LEMMA RetryKeys ==
    /\ D!Elements(D!ConfirmationRetryKeys) =
         {"order.confirmation.retry.5s", "order.confirmation.retry.30s", "order.confirmation.retry.120s"}
    /\ D!Elements(D!RefundRetryKeys) =
         {"refund.processing.retry.5s", "refund.processing.retry.30s", "refund.processing.retry.120s"}
    /\ D!RetryLimit = 3
    /\ \A n \in 1..3 : /\ D!ConfirmationRetryKeys[n] \in D!Elements(D!ConfirmationRetryKeys)
                       /\ D!RefundRetryKeys[n] \in D!Elements(D!RefundRetryKeys)
<1>1. D!RetryLimit = 3
  BY DEF D!RetryLimit, D!RefundRetryKeys
<1>2. /\ D!Elements(D!ConfirmationRetryKeys) =
           {"order.confirmation.retry.5s", "order.confirmation.retry.30s", "order.confirmation.retry.120s"}
      /\ \A n \in 1..3 : D!ConfirmationRetryKeys[n] \in D!Elements(D!ConfirmationRetryKeys)
  BY DEF D!Elements, D!ConfirmationRetryKeys
<1>3. /\ D!Elements(D!RefundRetryKeys) =
           {"refund.processing.retry.5s", "refund.processing.retry.30s", "refund.processing.retry.120s"}
      /\ \A n \in 1..3 : D!RefundRetryKeys[n] \in D!Elements(D!RefundRetryKeys)
  BY DEF D!Elements, D!RefundRetryKeys
<1>. QED BY <1>1, <1>2, <1>3

\* A message is retried as often as there are retry queues.
LEMMA RetriesOf == \A q : D!Len(D!RetryRoutingKeys(q)) = 3
BY DEF D!RetryRoutingKeys, D!RefundRetryKeys, D!ConfirmationRetryKeys

\* A queue is a main, a retry or a dead-letter queue.
LEMMA KindsOfQueues ==
    /\ D!Queues = D!MainQueues \cup D!RetryQueues \cup D!DeadQueues
    /\ D!MainQueues \cap D!RetryQueues = {}
    /\ D!DeadQueues \cap (D!MainQueues \cup D!RetryQueues) = {}
BY RetryKeys DEF D!Queues, D!MainQueues, D!RetryQueues, D!DeadQueues

\* Where the main exchange routes a key.
LEMMA MainRoutes ==
    /\ D!Route(D!PAYMENT_EVENTS, "payment.success") = {"order.confirmation"}
    /\ D!Route(D!PAYMENT_EVENTS, "refund.requested") = {"refund.processing"}
    /\ D!Route(D!PAYMENT_EVENTS, "order.status.changed") = {"order.status.realtime"}
<1>. USE RetryKeys DEF D!Route, D!Bindings, D!ConfirmationBindings, D!RefundBindings, D!PAYMENT_EVENTS,
         D!PAYMENT_EVENTS_RETRY, D!PAYMENT_EVENTS_DLQ, D!Queues, D!MainQueues, D!RetryQueues, D!DeadQueues
<1>1. D!Route(D!PAYMENT_EVENTS, "payment.success") = {"order.confirmation"}
  OBVIOUS
<1>2. D!Route(D!PAYMENT_EVENTS, "refund.requested") = {"refund.processing"}
  OBVIOUS
<1>3. D!Route(D!PAYMENT_EVENTS, "order.status.changed") = {"order.status.realtime"}
  OBVIOUS
<1>. QED BY <1>1, <1>2, <1>3

\* Where the retry exchange and the dead-letter exchange route theirs.
LEMMA OtherRoutes ==
    /\ \A k \in D!RetryQueues : D!Route(D!PAYMENT_EVENTS_RETRY, k) = {k}
    /\ \A k \in D!DeadQueues : D!Route(D!PAYMENT_EVENTS_DLQ, k) = {k}
<1>. USE RetryKeys DEF D!Route, D!Bindings, D!ConfirmationBindings, D!RefundBindings, D!PAYMENT_EVENTS,
         D!PAYMENT_EVENTS_RETRY, D!PAYMENT_EVENTS_DLQ, D!Queues, D!MainQueues, D!RetryQueues, D!DeadQueues
<1>1. ASSUME NEW k \in D!RetryQueues PROVE D!Route(D!PAYMENT_EVENTS_RETRY, k) = {k}
  OBVIOUS
<1>2. ASSUME NEW k \in D!DeadQueues PROVE D!Route(D!PAYMENT_EVENTS_DLQ, k) = {k}
  OBVIOUS
<1>. QED BY <1>1, <1>2

\* Queue q is the main queue of message m, or a retry queue that leads to it.
OnItsWay(q, m) ==
    /\ q \in D!MainQueues => q \in D!Route(D!PAYMENT_EVENTS, D!RoutingKey(m))
    /\ q \in D!RetryQueues => D!DeadLetterKey(q) = D!RoutingKey(m)

\* What of the bindings the steps need.
LEMMA Topology ==
    /\ \A m \in D!Messages : \E q \in D!MainQueues :
           D!Route(D!PAYMENT_EVENTS, D!RoutingKey(m)) = {q} /\ OnItsWay(q, m)
    /\ \A m \in D!Messages : OnItsWay("order.status.realtime", m) => m \in Statuses
    /\ \A q \in D!RetryQueues : \E main \in D!MainQueues :
           D!Route(D!PAYMENT_EVENTS, D!DeadLetterKey(q)) = {main}
    /\ \A q \in D!MainQueues \ {"order.status.realtime"}, n \in 1..3 :
           LET k == D!RetryRoutingKeys(q)[n]
           IN  /\ k \in D!RetryQueues /\ D!Route(D!PAYMENT_EVENTS_RETRY, k) = {k}
               /\ \A m \in D!Messages : OnItsWay(q, m) => OnItsWay(k, m)
    /\ \A q \in D!MainQueues \ {"order.status.realtime"} :
           LET k == D!DlqRoutingKey(q)
           IN  k \in D!DeadQueues /\ D!Route(D!PAYMENT_EVENTS_DLQ, k) = {k}
<1>1. \A m : D!RoutingKey(m) \in {"payment.success", "refund.requested", "order.status.changed"}
  BY DEF D!RoutingKey
<1>2. \A m \in D!Messages : \E q \in D!MainQueues :
           D!Route(D!PAYMENT_EVENTS, D!RoutingKey(m)) = {q} /\ OnItsWay(q, m)
  BY <1>1, MainRoutes, KindsOfQueues DEF OnItsWay, D!MainQueues
<1>3. \A m \in D!Messages : OnItsWay("order.status.realtime", m) => m \in Statuses
  <2>1. \A m \in D!Messages : OnItsWay("order.status.realtime", m) =>
            D!RoutingKey(m) = "order.status.changed"
    BY <1>1, MainRoutes DEF OnItsWay, D!MainQueues
  <2>. QED BY <2>1 DEF D!RoutingKey, D!Messages
<1>4. \A q : D!DeadLetterKey(q) \in {"payment.success", "refund.requested"}
  BY DEF D!DeadLetterKey
<1>5. \A q \in D!RetryQueues : \E main \in D!MainQueues :
           D!Route(D!PAYMENT_EVENTS, D!DeadLetterKey(q)) = {main}
  BY <1>4, MainRoutes DEF D!MainQueues
<1>6. ASSUME NEW q \in D!MainQueues \ {"order.status.realtime"}, NEW n \in 1..3
      PROVE  LET k == D!RetryRoutingKeys(q)[n]
             IN  /\ k \in D!RetryQueues /\ D!Route(D!PAYMENT_EVENTS_RETRY, k) = {k}
                 /\ \A m \in D!Messages : OnItsWay(q, m) => OnItsWay(k, m)
  <2>1. CASE q = "order.confirmation"
    <3>1. PICK k : k = D!RetryRoutingKeys(q)[n]
      OBVIOUS
    <3>2. k \in D!Elements(D!ConfirmationRetryKeys)
      BY <2>1, <3>1, RetryKeys DEF D!RetryRoutingKeys
    <3>3. k \in D!RetryQueues /\ k \notin D!MainQueues /\ D!DeadLetterKey(k) = "payment.success"
      BY <3>2, KindsOfQueues DEF D!RetryQueues, D!DeadLetterKey
    <3>4. \A m \in D!Messages : OnItsWay(q, m) => D!RoutingKey(m) = "payment.success"
      BY <1>1, <2>1, MainRoutes DEF OnItsWay, D!MainQueues
    <3>. QED BY <3>1, <3>3, <3>4, OtherRoutes DEF OnItsWay
  <2>2. CASE q = "refund.processing"
    <3>1. PICK k : k = D!RetryRoutingKeys(q)[n]
      OBVIOUS
    <3>2. k \in D!Elements(D!RefundRetryKeys)
      BY <2>2, <3>1, RetryKeys DEF D!RetryRoutingKeys
    <3>3. k \in D!RetryQueues /\ k \notin D!MainQueues
      BY <3>2, KindsOfQueues DEF D!RetryQueues
    <3>4. D!DeadLetterKey(k) = "refund.requested"
      BY <3>2, RetryKeys DEF D!DeadLetterKey
    <3>5. \A m \in D!Messages : OnItsWay(q, m) => D!RoutingKey(m) = "refund.requested"
      BY <1>1, <2>2, MainRoutes DEF OnItsWay, D!MainQueues
    <3>. QED BY <3>1, <3>3, <3>4, <3>5, OtherRoutes DEF OnItsWay
  <2>. QED BY <2>1, <2>2 DEF D!MainQueues
<1>7. ASSUME NEW q \in D!MainQueues \ {"order.status.realtime"}
      PROVE  LET k == D!DlqRoutingKey(q)
             IN  k \in D!DeadQueues /\ D!Route(D!PAYMENT_EVENTS_DLQ, k) = {k}
  BY OtherRoutes DEF D!DlqRoutingKey, D!DeadQueues
<1>. QED BY <1>2, <1>3, <1>5, <1>6, <1>7

(***************************************************************************)
(* The argument for at-least-once delivery: a message that has not been    *)
(* settled always has a copy that is not about to be acknowledged.  A      *)
(* callback that waits to acknowledge the original has seen the copy       *)
(* confirmed, so its own is not the last one; one that has handled its     *)
(* message has settled it; and a close puts all unacknowledged copies      *)
(* back.  So a copy that goes is never the last of an unsettled message.   *)
(*                                                                         *)
(* And for the burials: the retry count of a copy is at most the number of *)
(* failures of its message, however often copies were delivered again.     *)
(***************************************************************************)
\* The counts of the queues.
Counts == [D!Queues -> [D!Copies -> Nat]]

\* A message may lie in a dead-letter queue.
Excused(m) == m \in Invalid \cup Absent \/ failures[m] > D!RetryLimit

\* Copy c of its message may be in queue q.
Belongs(q, c) ==
    /\ OnItsWay(q, c.msg)
    /\ q \in D!DeadQueues => Excused(c.msg)
    /\ q \notin D!DeadQueues => c.count <= failures[c.msg]

QueuesOK == \A q \in D!Queues, c \in D!Copies : ready[q][c] > 0 => Belongs(q, c)

Waits(m) == \E q \in D!MainQueues \cup D!RetryQueues, c \in D!Copies : ready[q][c] > 0 /\ c.msg = m

\* An open callback holds the message; one that is confirmed is about to let go.
HeldBy(m, h) == D!OnOpen(h) /\ handler[h].copy.msg = m
KeptBy(m, h) == HeldBy(m, h) /\ handler[h].pc # "confirmed"

Kept(m) == Waits(m) \/ \E h \in Handlers : KeptBy(m, h)
IsSettled(m) == m \in handled \/ m \in D!Dead \/ m \in dropped
Safe(m) == Kept(m) \/ IsSettled(m)

\* What a callback that holds copy c from queue q in state s relies on.
HoldsOK(s) ==
    /\ OnItsWay(s.queue, s.copy.msg)
    /\ s.copy.count <= failures[s.copy.msg]
    /\ s.pc = "handled" => s.copy.msg \in handled
    /\ s.pc = "publishing" =>
         /\ \E q \in D!RetryQueues \cup D!DeadQueues : s.to = {q}
         /\ \A q \in s.to : Belongs(q, D!Copy(s.copy.msg, s.count))

HandlersOK == \A h \in Handlers : D!Busy(h) => HoldsOK(handler[h]) /\ Safe(handler[h].copy.msg)

\* The inductive invariant.
DeliveryInv == D!TypeOK /\ QueuesOK /\ HandlersOK

\* What Put and Take do to the counts.
LEMMA PutEffect ==
    ASSUME NEW rdy \in Counts, NEW qs, NEW c \in D!Copies
    PROVE  /\ D!Put(rdy, qs, c) \in Counts
           /\ \A q \in D!Queues, x \in D!Copies :
                 /\ q \in qs /\ x = c => D!Put(rdy, qs, c)[q][x] = rdy[q][x] + 1
                 /\ q \notin qs \/ x # c => D!Put(rdy, qs, c)[q][x] = rdy[q][x]
<1>1. ASSUME NEW q \in D!Queues
      PROVE  /\ [rdy[q] EXCEPT ![c] = @ + 1] \in [D!Copies -> Nat]
             /\ \A x \in D!Copies : [rdy[q] EXCEPT ![c] = @ + 1][x] =
                                        IF x = c THEN rdy[q][x] + 1 ELSE rdy[q][x]
  <2>1. rdy[q] \in [D!Copies -> Nat]
    BY DEF Counts
  <2>. QED BY <2>1
<1>2. ASSUME NEW q \in D!Queues
      PROVE  /\ q \in qs => D!Put(rdy, qs, c)[q] = [rdy[q] EXCEPT ![c] = @ + 1]
             /\ q \notin qs => D!Put(rdy, qs, c)[q] = rdy[q]
  BY DEF D!Put
<1>3. ASSUME NEW q \in D!Queues PROVE D!Put(rdy, qs, c)[q] \in [D!Copies -> Nat]
  <2>1. rdy[q] \in [D!Copies -> Nat]
    BY DEF Counts
  <2>2. CASE q \in qs
    BY <1>1, <1>2, <2>2
  <2>3. CASE q \notin qs
    BY <1>2, <2>1, <2>3
  <2>. QED BY <2>2, <2>3
<1>4. D!Put(rdy, qs, c) \in Counts
  BY <1>3 DEF D!Put, Counts
<1>. QED BY <1>1, <1>2, <1>4

\* Take removes one copy from one queue.
LEMMA TakeEffect ==
    ASSUME NEW rdy \in Counts, NEW q \in D!Queues, NEW c \in D!Copies, rdy[q][c] > 0
    PROVE  /\ D!Take(rdy, q, c) \in Counts
           /\ D!Take(rdy, q, c)[q][c] = rdy[q][c] - 1
           /\ \A p \in D!Queues, x \in D!Copies :
                 p # q \/ x # c => D!Take(rdy, q, c)[p][x] = rdy[p][x]
<1>1. PICK f : f = [rdy[q] EXCEPT ![c] = @ - 1]
  OBVIOUS
<1>2. rdy[q] \in [D!Copies -> Nat]
  BY DEF Counts
<1>3. rdy[q][c] - 1 \in Nat
  BY <1>2
<1>4. f \in [D!Copies -> Nat] /\ f[c] = rdy[q][c] - 1 /\ \A x \in D!Copies : x # c => f[x] = rdy[q][x]
  BY <1>1, <1>2, <1>3
<1>5. D!Take(rdy, q, c) = [rdy EXCEPT ![q] = f]
  BY <1>1 DEF D!Take
<1>. QED BY <1>4, <1>5 DEF Counts

\* The types, as the steps use them.
LEMMA DeliveryTypes ==
    ASSUME DeliveryInv
    PROVE  /\ ready \in Counts /\ handler \in [Handlers -> D!HandlerStates]
           /\ published \in [D!Messages -> 0..MaxPublications]
           /\ failures \in [D!Messages -> 0..4] /\ D!RetryLimit = 3
           /\ subscribed \subseteq D!MainQueues /\ closes \in 0..MaxCloses
           /\ handled \subseteq D!Messages /\ dropped \subseteq Statuses /\ stranded \in BOOLEAN
BY RetryKeys DEF DeliveryInv, D!TypeOK, Counts

\* A callback that is busy has a queue and a copy.
LEMMA BusyTypes ==
    ASSUME DeliveryInv, NEW h \in Handlers, D!Busy(h)
    PROVE  /\ handler[h].queue \in D!MainQueues /\ handler[h].copy \in D!Copies
           /\ handler[h].copy.msg \in D!Messages /\ handler[h].copy.count \in 0..3
           /\ handler[h].open \in BOOLEAN
           /\ handler[h].pc \in {"processing", "handled", "publishing", "confirmed"}
           /\ handler[h].pc = "publishing" => handler[h].count \in 0..3
<1>1. handler[h] \in D!HandlerStates /\ handler[h] # D!Idle
  BY DeliveryTypes DEF D!Busy
<1>2. CASE handler[h] \in [pc : {"processing", "handled", "confirmed"}, queue : D!MainQueues,
                           copy : D!Copies, open : BOOLEAN]
  BY <1>2, RetryKeys DEF D!Copies
<1>3. CASE handler[h] \in [pc : {"publishing"}, queue : D!MainQueues, copy : D!Copies,
                           open : BOOLEAN, to : SUBSET D!Queues, count : 0..D!RetryLimit]
  BY <1>3, RetryKeys DEF D!Copies
<1>. QED BY <1>1, <1>2, <1>3 DEF D!HandlerStates

\* What never shrinks.
Grows ==
    /\ failures' \in [D!Messages -> 0..4]
    /\ \A m \in D!Messages : failures[m] <= failures'[m]
    /\ handled \subseteq handled' /\ dropped \subseteq dropped' /\ D!Dead \subseteq D!Dead'

\* What belongs somewhere still does when failures are counted.
LEMMA BelongsStays ==
    ASSUME DeliveryInv, Grows, NEW q \in D!Queues, NEW c \in D!Copies, Belongs(q, c)
    PROVE  Belongs(q, c)'
<1>1. c.msg \in D!Messages /\ c.count \in 0..3
  BY RetryKeys DEF D!Copies
<1>2. failures[c.msg] \in 0..4 /\ failures'[c.msg] \in 0..4 /\ failures[c.msg] <= failures'[c.msg]
  BY <1>1, DeliveryTypes DEF Grows
<1>3. Excused(c.msg) => Excused(c.msg)'
  BY <1>2, RetryKeys DEF Excused
<1>4. c.count <= failures[c.msg] => c.count <= failures'[c.msg]
  BY <1>1, <1>2
<1>. QED BY <1>3, <1>4 DEF Belongs

\* What a callback relies on stays when it is not the one that moves.
LEMMA HoldsStays ==
    ASSUME DeliveryInv, Grows, NEW h \in Handlers, D!Busy(h)
    PROVE  \A s : s = handler[h] => HoldsOK(s)'
<1>1. HoldsOK(handler[h])
  BY DEF DeliveryInv, HandlersOK
<1>2. PICK s : s = handler[h]
  OBVIOUS
<1>3. /\ s.queue \in D!MainQueues /\ s.copy \in D!Copies /\ s.copy.msg \in D!Messages
      /\ s.copy.count \in 0..3 /\ (s.pc = "publishing" => s.count \in 0..3)
  BY <1>2, BusyTypes
<1>4. failures[s.copy.msg] \in 0..4 /\ failures'[s.copy.msg] \in 0..4
      /\ failures[s.copy.msg] <= failures'[s.copy.msg]
  BY <1>3, DeliveryTypes DEF Grows
<1>5. s.copy.count <= failures'[s.copy.msg]
  BY <1>1, <1>2, <1>3, <1>4 DEF HoldsOK
<1>6. ASSUME s.pc = "publishing", NEW q \in s.to
      PROVE  Belongs(q, D!Copy(s.copy.msg, s.count))'
  <2>1. q \in D!Queues /\ Belongs(q, D!Copy(s.copy.msg, s.count))
    BY <1>1, <1>2, <1>6, KindsOfQueues DEF HoldsOK
  <2>2. D!Copy(s.copy.msg, s.count) \in D!Copies
    BY <1>3, <1>6, RetryKeys DEF D!Copy, D!Copies
  <2>3. PICK c : c = D!Copy(s.copy.msg, s.count)
    OBVIOUS
  <2>4. Belongs(q, c)'
    BY <2>1, <2>2, <2>3, BelongsStays
  <2>. QED BY <2>3, <2>4
<1>. QED BY <1>1, <1>2, <1>5, <1>6 DEF HoldsOK, Grows

\* A step that keeps the queues in order and no message's last copy from it
\* keeps the invariant.
LEMMA DeliveryKeeps ==
    ASSUME DeliveryInv, D!TypeOK', Grows, QueuesOK',
           \A m \in D!Messages : Kept(m) => Safe(m)',
           \A h \in Handlers : D!Busy(h)' =>
               \/ D!Busy(h) /\ handler'[h] = handler[h]
               \/ HoldsOK(handler[h])' /\ Safe(handler[h].copy.msg)'
    PROVE  DeliveryInv'
<1>1. \A m \in D!Messages : Safe(m) => Safe(m)'
  BY DEF Safe, IsSettled, Grows
<1>2. ASSUME NEW h \in Handlers, D!Busy(h)', D!Busy(h), handler'[h] = handler[h]
      PROVE  HoldsOK(handler[h])' /\ Safe(handler[h].copy.msg)'
  <2>1. PICK s : s = handler[h]
    OBVIOUS
  <2>2. HoldsOK(s)'
    BY <1>2, <2>1, HoldsStays
  <2>3. s.copy.msg \in D!Messages /\ Safe(s.copy.msg)
    BY <1>2, <2>1, BusyTypes DEF DeliveryInv, HandlersOK
  <2>4. Safe(s.copy.msg)'
    BY <1>1, <2>3
  <2>. QED BY <1>2, <2>1, <2>2, <2>4
<1>3. HandlersOK'
  BY <1>2 DEF HandlersOK
<1>. QED BY <1>3 DEF DeliveryInv

\* A copy of a message in a queue, now and in the next state.
LEMMA LiesIs ==
    /\ \A m \in D!Messages : \A q :
          D!LiesIn(m, q) <=> \E c \in D!Copies : ready[q][c] > 0 /\ c.msg = m
    /\ \A m \in D!Messages : \A q :
          D!LiesIn(m, q)' <=> \E c \in D!Copies : ready'[q][c] > 0 /\ c.msg = m
<1>1. \A m \in D!Messages, n \in 0..D!RetryLimit : D!Copy(m, n) \in D!Copies /\ D!Copy(m, n).msg = m
  BY DEF D!Copy, D!Copies
<1>2. \A c \in D!Copies : c.count \in 0..D!RetryLimit /\ c = D!Copy(c.msg, c.count)
  BY DEF D!Copy, D!Copies
<1>. QED BY <1>1, <1>2 DEF D!LiesIn

\* What Held and Dead are, now and in the next state.
LEMMA HeldIs ==
    /\ \A m : m \in D!Held <=> m \in D!Messages /\ (Waits(m) \/ \E h \in Handlers : HeldBy(m, h))
    /\ \A m : m \in D!Held' <=> m \in D!Messages /\ (Waits(m)' \/ \E h \in Handlers : HeldBy(m, h)')
BY LiesIs DEF D!Held, Waits, HeldBy

\* The dead-lettered messages, now and in the next state.
LEMMA DeadIs ==
    /\ \A m : m \in D!Dead <=> /\ m \in D!Messages
                               /\ \E q \in D!DeadQueues, c \in D!Copies : ready[q][c] > 0 /\ c.msg = m
    /\ \A m : m \in D!Dead' <=> /\ m \in D!Messages
                                /\ \E q \in D!DeadQueues, c \in D!Copies : ready'[q][c] > 0 /\ c.msg = m
BY LiesIs DEF D!Dead

\* A step that leaves the queues alone.
LEMMA QueuesStay ==
    ASSUME DeliveryInv, ready' = ready
    PROVE  /\ D!Dead' = D!Dead
           /\ \A m : Waits(m)' <=> Waits(m)
           /\ Grows => QueuesOK'
<1>1. D!Dead' = D!Dead /\ \A m : Waits(m)' <=> Waits(m)
  BY DEF D!Dead, D!LiesIn, Waits
<1>2. ASSUME Grows PROVE QueuesOK'
  <2>1. ASSUME NEW q \in D!Queues, NEW c \in D!Copies, ready'[q][c] > 0 PROVE Belongs(q, c)'
    BY <1>2, <2>1, BelongsStays DEF DeliveryInv, QueuesOK
  <2>. QED BY <2>1 DEF QueuesOK
<1>. QED BY <1>1, <1>2

\* What a step shows: the invariant, and a step of AtLeastOnce or none.
AbstractStep == D!Abstract!Next \/ UNCHANGED <<D!Held, handled, D!Dead, dropped>>

\* A callback goes on with its copy.
LEMMA KeepsHold ==
    ASSUME DeliveryInv, NEW h \in Handlers, D!Busy(h), NEW s \in D!HandlerStates, s # D!Idle,
           s.copy = handler[h].copy, s.open = handler[h].open,
           s.pc # "confirmed", HoldsOK(s)', Safe(s.copy.msg),
           handler' = [handler EXCEPT ![h] = s],
           UNCHANGED <<ready, subscribed, published, closes, dropped, stranded>>,
           Grows, handled' \subseteq D!Messages
    PROVE  DeliveryInv' /\ D!Held' = D!Held /\ D!Dead' = D!Dead
<1>1. /\ handler'[h] = s /\ handler' \in [Handlers -> D!HandlerStates]
      /\ \A g \in Handlers : g # h => handler'[g] = handler[g]
  BY DeliveryTypes
<1>2. D!TypeOK'
  BY <1>1, RetryKeys DEF DeliveryInv, D!TypeOK, Grows
<1>3. \A m, g : g \in Handlers => (HeldBy(m, g)' <=> HeldBy(m, g)) /\ (KeptBy(m, g) => KeptBy(m, g)')
  BY <1>1 DEF HeldBy, KeptBy, D!OnOpen, D!Busy
<1>4. D!Dead' = D!Dead /\ (\A m : Waits(m)' <=> Waits(m)) /\ QueuesOK'
  BY QueuesStay
<1>5. D!Held' = D!Held
  BY <1>3, <1>4, HeldIs
<1>6. \A m : Safe(m) => Safe(m)'
  BY <1>3, <1>4 DEF Safe, Kept, IsSettled, Grows
<1>7. \A g \in Handlers : D!Busy(g)' =>
          \/ D!Busy(g) /\ handler'[g] = handler[g]
          \/ HoldsOK(handler[g])' /\ Safe(handler[g].copy.msg)'
  <2>1. HoldsOK(handler[h])' /\ Safe(handler[h].copy.msg)'
    BY <1>1, <1>6
  <2>. QED BY <1>1, <2>1 DEF D!Busy
<1>8. \A m \in D!Messages : Kept(m) => Safe(m)'
  BY <1>6 DEF Safe
<1>9. DeliveryInv'
  BY <1>2, <1>4, <1>7, <1>8, DeliveryKeeps
<1>. QED BY <1>4, <1>5, <1>9

\* A callback ends; if its channel is open, its message is settled or another
\* copy of it is there.
LEMMA LetsGo ==
    ASSUME DeliveryInv, NEW h \in Handlers, D!Busy(h), NEW msg, msg = handler[h].copy.msg,
           D!OnOpen(h) => handler[h].pc = "confirmed" \/ IsSettled(msg)',
           handler' = [handler EXCEPT ![h] = D!Idle],
           UNCHANGED <<ready, subscribed, published, closes, handled, failures, stranded>>,
           dropped \subseteq dropped', dropped' \subseteq Statuses
    PROVE  /\ DeliveryInv' /\ D!Dead' = D!Dead
           /\ \/ D!Held' = D!Held
              \/ msg \in D!Held /\ IsSettled(msg)' /\ D!Held' = D!Held \ {msg}
<1>1. /\ handler'[h] = D!Idle /\ handler' \in [Handlers -> D!HandlerStates]
      /\ \A g \in Handlers : g # h => handler'[g] = handler[g]
  BY DeliveryTypes DEF D!HandlerStates
<1>2. D!Dead' = D!Dead /\ \A m : Waits(m)' <=> Waits(m)
  BY QueuesStay
<1>3. Grows
  BY <1>2, DeliveryTypes DEF Grows
<1>4. QueuesOK'
  BY <1>3, QueuesStay
<1>5. D!TypeOK'
  BY <1>1 DEF DeliveryInv, D!TypeOK
<1>6. \A m, g : g \in Handlers /\ g # h => (HeldBy(m, g)' <=> HeldBy(m, g)) /\ (KeptBy(m, g)' <=> KeptBy(m, g))
  BY <1>1 DEF HeldBy, KeptBy, D!OnOpen, D!Busy
<1>7. \A m : ~HeldBy(m, h)' /\ (HeldBy(m, h) => m = msg)
  BY <1>1 DEF HeldBy, D!OnOpen, D!Busy
<1>8. \A m : Kept(m) => Kept(m)' \/ KeptBy(m, h)
  BY <1>2, <1>6 DEF Kept
<1>9. \A m : KeptBy(m, h) => IsSettled(m)'
  BY <1>7 DEF KeptBy, HeldBy
<1>10. DeliveryInv'
  <2>1. \A m \in D!Messages : Kept(m) => Safe(m)'
    BY <1>8, <1>9 DEF Safe
  <2>2. \A g \in Handlers : D!Busy(g)' => D!Busy(g) /\ handler'[g] = handler[g]
    BY <1>1 DEF D!Busy
  <2>. QED BY <1>3, <1>4, <1>5, <2>1, <2>2, DeliveryKeeps
<1>a. \A m : m \in D!Held' <=> /\ m \in D!Messages
                               /\ Waits(m) \/ \E g \in Handlers : g # h /\ HeldBy(m, g)
  <2>1. \A m : (\E g \in Handlers : HeldBy(m, g)') <=> (\E g \in Handlers : g # h /\ HeldBy(m, g))
    BY <1>6, <1>7
  <2>. QED BY <1>2, <2>1, HeldIs
<1>b. \A m : m \in D!Held <=> \/ m \in D!Held'
                              \/ m \in D!Messages /\ HeldBy(m, h)
  BY <1>a, HeldIs
<1>11. CASE ~D!OnOpen(h)
  <2>1. D!Held' = D!Held
    BY <1>b, <1>11 DEF HeldBy
  <2>. QED BY <1>2, <1>10, <2>1
<1>12. CASE D!OnOpen(h)
  <2>1. msg \in D!Held
    BY <1>12, BusyTypes, HeldIs DEF HeldBy
  <2>2. \A m : m \in D!Held' => m \in D!Held
    BY <1>b
  <2>5. \A m : m \in D!Held => m \in D!Held' \/ m = msg
    BY <1>b, <1>7
  <2>6. msg \in D!Held' => D!Held' = D!Held
    BY <2>2, <2>5
  <2>7. msg \notin D!Held' => D!Held' = D!Held \ {msg}
    BY <2>2, <2>5
  <2>3. CASE msg \in D!Held'
    BY <1>2, <1>10, <2>6, <2>3
  <2>4. CASE msg \notin D!Held'
    <3>1. msg \in D!Messages /\ ~Kept(msg)'
      BY <2>4, <1>12, BusyTypes, HeldIs DEF Kept, KeptBy
    <3>2. IsSettled(msg)'
      <4>1. CASE handler[h].pc = "confirmed"
        <5>1. Safe(msg) /\ ~KeptBy(msg, h)
          BY <4>1 DEF DeliveryInv, HandlersOK, KeptBy
        <5>2. IsSettled(msg)
          BY <1>8, <3>1, <5>1 DEF Safe
        <5>. QED BY <5>2, <1>3 DEF IsSettled, Grows
      <4>. QED BY <1>12, <4>1
    <3>. QED BY <1>2, <1>10, <2>1, <2>7, <2>4, <3>2
  <2>. QED BY <2>3, <2>4
<1>. QED BY <1>11, <1>12

\* In AtLeastOnce: a message that has been settled is released, or another copy
\* of it is still there.
LEMMA Releases ==
    ASSUME NEW m \in D!Messages, UNCHANGED <<handled, D!Dead, dropped>>,
           \/ D!Held' = D!Held
           \/ m \in D!Held /\ IsSettled(m)' /\ D!Held' = D!Held \ {m}
    PROVE  AbstractStep
<1>1. CASE m \in D!Held /\ IsSettled(m)' /\ D!Held' = D!Held \ {m}
  <2>1. D!Abstract!Release(m)
    BY <1>1 DEF D!Abstract!Release, D!Abstract!Settled, IsSettled
  <2>. QED BY <2>1 DEF AbstractStep, D!Abstract!Next
<1>. QED BY <1>1 DEF AbstractStep

\* Handle is Handle of AtLeastOnce, for the callback's message.
LEMMA DeliveryHandle ==
    ASSUME DeliveryInv, NEW h \in Handlers, D!Handle(h)
    PROVE  DeliveryInv' /\ AbstractStep
<1>1. PICK s, m : s = [handler[h] EXCEPT !.pc = "handled"] /\ m = handler[h].copy.msg
  OBVIOUS
<1>2. D!Busy(h) /\ handler[h].pc = "processing"
  BY DEF D!Handle, D!At
<1>3. handler[h] \in D!HandlerStates /\ handler[h] # D!Idle
  BY <1>2, DeliveryTypes DEF D!Busy
<1>4. handler[h] \in [pc : {"processing", "handled", "confirmed"}, queue : D!MainQueues,
                      copy : D!Copies, open : BOOLEAN]
  BY <1>2, <1>3 DEF D!HandlerStates
<1>5. s \in [pc : {"processing", "handled", "confirmed"}, queue : D!MainQueues,
             copy : D!Copies, open : BOOLEAN]
      /\ s.pc = "handled" /\ s.queue = handler[h].queue /\ s.copy = handler[h].copy
      /\ s.open = handler[h].open
  BY <1>1, <1>4
<1>6. s \in D!HandlerStates /\ s # D!Idle
  BY <1>5 DEF D!HandlerStates, D!Idle
<1>7. handled' = handled \cup {m} /\ handler' = [handler EXCEPT ![h] = s]
      /\ UNCHANGED <<ready, subscribed, published, closes, dropped, failures, stranded>>
  BY <1>1 DEF D!Handle
<1>8. m \in D!Messages /\ handled' \subseteq D!Messages
  BY <1>1, <1>2, <1>7, BusyTypes, DeliveryTypes
<1>9. Grows
  BY <1>7, QueuesStay, DeliveryTypes DEF Grows
<1>10. HoldsOK(handler[h]) /\ Safe(m)
  BY <1>1, <1>2 DEF DeliveryInv, HandlersOK
<1>11. HoldsOK(s)'
  BY <1>1, <1>5, <1>7, <1>10 DEF HoldsOK
<1>12. DeliveryInv' /\ D!Held' = D!Held /\ D!Dead' = D!Dead
  BY <1>1, <1>2, <1>5, <1>6, <1>7, <1>8, <1>9, <1>10, <1>11, KeepsHold
<1>13. m \in D!Held \cup D!Abstract!Settled
  BY <1>8, <1>10, HeldIs DEF Safe, Kept, KeptBy, IsSettled, D!Abstract!Settled
<1>14. D!Abstract!Handle(m)
  BY <1>7, <1>12, <1>13 DEF D!Abstract!Handle
<1>. QED BY <1>8, <1>12, <1>14 DEF AbstractStep, D!Abstract!Next

\* SendCopy goes on with the copy, if what it sends belongs where it goes.
LEMMA SendKeeps ==
    ASSUME DeliveryInv, NEW h \in Handlers, D!Retried(h),
           NEW q \in D!RetryQueues \cup D!DeadQueues, NEW exchange, NEW key, NEW n \in 0..3,
           D!Route(exchange, key) = {q}, D!SendCopy(h, exchange, key, n),
           \A m : m = handler[h].copy.msg => Belongs(q, D!Copy(m, n))',
           UNCHANGED <<ready, subscribed, published, closes, handled, dropped, stranded>>,
           failures' \in [D!Messages -> 0..4], \A m \in D!Messages : failures[m] <= failures'[m]
    PROVE  DeliveryInv' /\ AbstractStep
<1>1. D!Busy(h) /\ handler[h].pc = "processing" /\ handler[h].open
  BY DEF D!Retried, D!At, D!OnOpen
<1>2. PICK s : s = [pc |-> "publishing", queue |-> handler[h].queue, copy |-> handler[h].copy,
                    open |-> TRUE, to |-> D!Route(exchange, key), count |-> n]
  OBVIOUS
<1>3. s \in [pc : {"publishing"}, queue : D!MainQueues, copy : D!Copies, open : BOOLEAN,
             to : SUBSET D!Queues, count : 0..D!RetryLimit]
  BY <1>1, <1>2, BusyTypes, RetryKeys, KindsOfQueues
<1>4. s \in D!HandlerStates /\ s # D!Idle
  BY <1>2, <1>3 DEF D!HandlerStates, D!Idle
<1>5. handler' = [handler EXCEPT ![h] = s]
  BY <1>2 DEF D!SendCopy
<1>6. Grows
  BY QueuesStay DEF Grows
<1>7. handler[h].open = TRUE
  BY <1>1, BusyTypes
<1>8. PICK t : t = handler[h]
  OBVIOUS
<1>9. HoldsOK(t)' /\ Safe(s.copy.msg) /\ s.copy = t.copy /\ s.queue = t.queue
  BY <1>1, <1>2, <1>6, <1>8, HoldsStays DEF DeliveryInv, HandlersOK
<1>10. s.to = {q} /\ s.pc = "publishing" /\ s.count = n /\ Belongs(q, D!Copy(s.copy.msg, n))'
  BY <1>2
<1>11. HoldsOK(s)'
  BY <1>9, <1>10 DEF HoldsOK
<1>12. handled' \subseteq D!Messages
  BY DeliveryTypes
<1>13. DeliveryInv' /\ D!Held' = D!Held /\ D!Dead' = D!Dead
  BY <1>1, <1>2, <1>4, <1>5, <1>6, <1>7, <1>9, <1>10, <1>11, <1>12, KeepsHold
<1>. QED BY <1>13 DEF AbstractStep

\* What retries a callback or buries its message.
LEMMA RetriedTypes ==
    ASSUME DeliveryInv, NEW h \in Handlers, D!Retried(h)
    PROVE  /\ D!Busy(h) /\ handler[h].queue \in D!MainQueues \ {"order.status.realtime"}
           /\ handler[h].copy.msg \in D!Messages /\ handler[h].copy.count \in 0..3
           /\ OnItsWay(handler[h].queue, handler[h].copy.msg)
           /\ handler[h].copy.count <= failures[handler[h].copy.msg]
BY BusyTypes DEF D!Retried, D!At, DeliveryInv, HandlersOK, HoldsOK

\* MoveToDlq buries what cannot be processed.
LEMMA DeliveryMoveToDlq ==
    ASSUME DeliveryInv, NEW h \in Handlers, D!MoveToDlq(h)
    PROVE  DeliveryInv' /\ AbstractStep
<1>1. D!Retried(h) /\ ~D!Processable(h)
      /\ UNCHANGED <<ready, subscribed, published, closes, handled, dropped, failures, stranded>>
  BY DEF D!MoveToDlq
<1>2. PICK m, n, k : m = handler[h].copy.msg /\ n = handler[h].copy.count
                     /\ k = D!DlqRoutingKey(handler[h].queue)
  OBVIOUS
<1>3. D!SendCopy(h, D!PAYMENT_EVENTS_DLQ, k, n)
  BY <1>2 DEF D!MoveToDlq
<1>4. k \in D!DeadQueues /\ D!Route(D!PAYMENT_EVENTS_DLQ, k) = {k}
  BY <1>1, <1>2, RetriedTypes, Topology
<1>5. m \in Invalid \cup Absent
  <2>1. handler[h].queue \in D!Route(D!PAYMENT_EVENTS, D!RoutingKey(m))
    BY <1>1, <1>2, RetriedTypes DEF OnItsWay
  <2>. QED BY <1>1, <1>2, <2>1 DEF D!Processable
<1>6. Belongs(k, D!Copy(m, n))'
  BY <1>4, <1>5, KindsOfQueues DEF Belongs, Excused, D!Copy, OnItsWay
<1>7. n \in 0..3 /\ failures' \in [D!Messages -> 0..4] /\ \A x \in D!Messages : failures[x] <= failures'[x]
  BY <1>1, <1>2, RetriedTypes, DeliveryTypes
<1>. QED BY <1>1, <1>2, <1>3, <1>4, <1>6, <1>7, SendKeeps

\* RetryOrMoveToDlq counts the failure, and buries only after the last retry.
LEMMA DeliveryRetry ==
    ASSUME DeliveryInv, NEW h \in Handlers, D!RetryOrMoveToDlq(h)
    PROVE  DeliveryInv' /\ AbstractStep
<1>1. D!Retried(h) /\ UNCHANGED <<ready, subscribed, published, closes, handled, dropped, stranded>>
  BY DEF D!RetryOrMoveToDlq
<1>2. PICK q, m, k : q = handler[h].queue /\ m = handler[h].copy.msg /\ k = handler[h].copy.count
  OBVIOUS
<1>3. /\ q \in D!MainQueues \ {"order.status.realtime"} /\ m \in D!Messages /\ k \in 0..3
      /\ OnItsWay(q, m) /\ k <= failures[m] /\ failures[m] \in 0..4
  BY <1>1, <1>2, RetriedTypes, DeliveryTypes
<1>4. D!FailOnce(m)
  BY <1>2 DEF D!RetryOrMoveToDlq
<1>5. failures' = [failures EXCEPT ![m] = IF failures[m] > 3 THEN failures[m] ELSE failures[m] + 1]
  BY <1>4, RetryKeys DEF D!FailOnce
<1>6. (IF failures[m] > 3 THEN failures[m] ELSE failures[m] + 1) \in 0..4
  BY <1>3
<1>7. failures' \in [D!Messages -> 0..4]
  BY <1>5, <1>6, DeliveryTypes
<1>8. failures'[m] = (IF failures[m] > 3 THEN failures[m] ELSE failures[m] + 1)
      /\ \A x \in D!Messages : x # m => failures'[x] = failures[x]
  BY <1>3, <1>5, DeliveryTypes
<1>9. \A x \in D!Messages : failures[x] <= failures'[x]
  BY <1>3, <1>8, DeliveryTypes
<1>10. CASE k = 3
  <2>1. PICK d : d = D!DlqRoutingKey(q)
    OBVIOUS
  <2>2. D!SendCopy(h, D!PAYMENT_EVENTS_DLQ, d, k)
    <3>1. D!Len(D!RetryRoutingKeys(q)) = 3 /\ k + 1 > 3 /\ k + 1 - 1 = k
      BY <1>10, RetriesOf
    <3>2. PICK j, i : i = handler[h].copy.count + 1 /\ j = i - 1
      OBVIOUS
    <3>3. j = k /\ i = k + 1
      BY <1>2, <1>3, <3>2
    <3>4. i > D!Len(D!RetryRoutingKeys(q))
      BY <3>1, <3>3
    <3>5. D!SendCopy(h, D!PAYMENT_EVENTS_DLQ, d, j)
      BY <1>2, <2>1, <3>2, <3>4 DEF D!RetryOrMoveToDlq
    <3>. QED BY <3>3, <3>5
  <2>3. d \in D!DeadQueues /\ D!Route(D!PAYMENT_EVENTS_DLQ, d) = {d}
    BY <1>3, <2>1, Topology
  <2>4. failures'[m] > D!RetryLimit
    BY <1>3, <1>8, <1>10, RetryKeys
  <2>5. Belongs(d, D!Copy(m, k))'
    BY <2>3, <2>4, KindsOfQueues DEF Belongs, Excused, D!Copy, OnItsWay
  <2>. QED BY <1>1, <1>2, <1>3, <1>7, <1>9, <2>2, <2>3, <2>5, SendKeeps
<1>11. CASE k # 3
  <2>1. PICK r, n : n = k + 1 /\ r = D!RetryRoutingKeys(q)[n]
    OBVIOUS
  <2>2. n \in 1..3 /\ n \in 0..3
    BY <1>3, <1>11, <2>1
  <2>3. D!SendCopy(h, D!PAYMENT_EVENTS_RETRY, r, n)
    <3>1. D!Len(D!RetryRoutingKeys(q)) = 3 /\ ~(n > 3)
      BY <2>2, RetriesOf
    <3>. QED BY <1>2, <2>1, <3>1 DEF D!RetryOrMoveToDlq
  <2>4. r \in D!RetryQueues /\ D!Route(D!PAYMENT_EVENTS_RETRY, r) = {r} /\ OnItsWay(r, m)
    BY <1>3, <2>1, <2>2, Topology
  <2>5. n <= failures'[m]
    BY <1>3, <1>8, <2>1
  <2>6. Belongs(r, D!Copy(m, n))'
    BY <2>4, <2>5, KindsOfQueues DEF Belongs, D!Copy, OnItsWay
  <2>. QED BY <1>1, <1>2, <1>7, <1>9, <2>2, <2>3, <2>4, <2>6, SendKeeps
<1>. QED BY <1>10, <1>11

\* Ack releases what was handled.
LEMMA DeliveryAck ==
    ASSUME DeliveryInv, NEW h \in Handlers, D!Ack(h)
    PROVE  DeliveryInv' /\ AbstractStep
<1>1. PICK m : m = handler[h].copy.msg
  OBVIOUS
<1>2. D!Busy(h) /\ handler[h].pc = "handled" /\ handler' = [handler EXCEPT ![h] = D!Idle]
      /\ UNCHANGED <<ready, subscribed, published, closes, handled, dropped, failures, stranded>>
  BY DEF D!Ack, D!At
<1>3. m \in D!Messages /\ IsSettled(m)'
  BY <1>1, <1>2, BusyTypes DEF DeliveryInv, HandlersOK, HoldsOK, IsSettled
<1>4. dropped \subseteq dropped' /\ dropped' \subseteq Statuses
  BY <1>2, DeliveryTypes
<1>5. /\ DeliveryInv' /\ D!Dead' = D!Dead
      /\ \/ D!Held' = D!Held
         \/ m \in D!Held /\ IsSettled(m)' /\ D!Held' = D!Held \ {m}
  BY <1>1, <1>2, <1>3, <1>4, LetsGo
<1>. QED BY <1>2, <1>3, <1>5, Releases

\* AckOriginal releases the original of a copy that the broker has confirmed.
LEMMA DeliveryAckOriginal ==
    ASSUME DeliveryInv, NEW h \in Handlers, D!AckOriginal(h)
    PROVE  DeliveryInv' /\ AbstractStep
<1>1. PICK m : m = handler[h].copy.msg
  OBVIOUS
<1>2. D!Busy(h) /\ handler[h].pc = "confirmed" /\ handler' = [handler EXCEPT ![h] = D!Idle]
      /\ UNCHANGED <<ready, subscribed, published, closes, handled, dropped, failures, stranded>>
  BY DEF D!AckOriginal, D!At
<1>3. m \in D!Messages
  BY <1>1, <1>2, BusyTypes
<1>4. dropped \subseteq dropped' /\ dropped' \subseteq Statuses
  BY <1>2, DeliveryTypes
<1>5. /\ DeliveryInv' /\ D!Dead' = D!Dead
      /\ \/ D!Held' = D!Held
         \/ m \in D!Held /\ IsSettled(m)' /\ D!Held' = D!Held \ {m}
  BY <1>1, <1>2, <1>4, LetsGo
<1>. QED BY <1>2, <1>3, <1>5, Releases

\* Reject drops a realtime event.
LEMMA DeliveryReject ==
    ASSUME DeliveryInv, NEW h \in Handlers, D!Reject(h)
    PROVE  DeliveryInv' /\ AbstractStep
<1>1. PICK m : m = handler[h].copy.msg
  OBVIOUS
<1>2. /\ D!Busy(h) /\ D!OnOpen(h) /\ handler' = [handler EXCEPT ![h] = D!Idle]
      /\ UNCHANGED <<ready, subscribed, published, closes, handled, failures, stranded>>
      /\ handler[h].queue = "order.status.realtime" /\ dropped' = dropped \cup {m}
  BY <1>1 DEF D!Reject, D!At
<1>3. m \in D!Messages /\ m \in Statuses
  BY <1>1, <1>2, BusyTypes, Topology DEF DeliveryInv, HandlersOK, HoldsOK
<1>4. dropped \subseteq dropped' /\ dropped' \subseteq Statuses /\ IsSettled(m)'
  BY <1>2, <1>3, DeliveryTypes DEF IsSettled
<1>5. /\ DeliveryInv' /\ D!Dead' = D!Dead
      /\ D!Held' = D!Held \/ D!Held' = D!Held \ {m}
  BY <1>1, <1>2, <1>4, LetsGo
<1>6. m \in D!Held
  BY <1>1, <1>2, <1>3, HeldIs DEF HeldBy
<1>7. D!Abstract!Drop(m)
  BY <1>2, <1>3, <1>5, <1>6 DEF D!Abstract!Drop
<1>. QED BY <1>3, <1>5, <1>7 DEF AbstractStep, D!Abstract!Next

\* A callback of a closed channel may end at any time.
LEMMA DeliveryHang ==
    ASSUME DeliveryInv, NEW h \in Handlers, D!HangOnClosed(h)
    PROVE  DeliveryInv' /\ AbstractStep
<1>1. PICK m : m = handler[h].copy.msg
  OBVIOUS
<1>2. D!Busy(h) /\ ~D!OnOpen(h) /\ handler' = [handler EXCEPT ![h] = D!Idle]
      /\ UNCHANGED <<ready, subscribed, published, closes, handled, dropped, failures, stranded>>
  BY DEF D!HangOnClosed, D!At, D!OnOpen
<1>3. dropped \subseteq dropped' /\ dropped' \subseteq Statuses /\ m \in D!Messages
  BY <1>1, <1>2, DeliveryTypes, BusyTypes
<1>4. /\ DeliveryInv' /\ D!Dead' = D!Dead
      /\ \/ D!Held' = D!Held
         \/ m \in D!Held /\ IsSettled(m)' /\ D!Held' = D!Held \ {m}
  BY <1>1, <1>2, <1>3, LetsGo
<1>. QED BY <1>2, <1>3, <1>4, Releases

\* A step that touches neither the queues nor the callbacks.
LEMMA DeliveryIdle ==
    ASSUME DeliveryInv, UNCHANGED <<ready, handler, published, handled, dropped, failures>>,
           subscribed' \subseteq D!MainQueues, closes' \in 0..MaxCloses, stranded' \in BOOLEAN
    PROVE  DeliveryInv' /\ UNCHANGED <<D!Held, handled, D!Dead, dropped>>
<1>1. D!TypeOK'
  BY DEF DeliveryInv, D!TypeOK
<1>2. D!Dead' = D!Dead /\ (\A m : Waits(m)' <=> Waits(m)) /\ (Grows => QueuesOK')
  BY QueuesStay
<1>3. Grows
  BY <1>2, DeliveryTypes DEF Grows
<1>4. \A m, h : (HeldBy(m, h)' <=> HeldBy(m, h)) /\ (KeptBy(m, h)' <=> KeptBy(m, h))
  BY DEF HeldBy, KeptBy, D!OnOpen, D!Busy
<1>5. D!Held' = D!Held
  BY <1>2, <1>4, HeldIs
<1>6. \A m \in D!Messages : Kept(m) => Safe(m)'
  BY <1>2, <1>4 DEF Safe, Kept
<1>7. \A h \in Handlers : D!Busy(h)' => D!Busy(h) /\ handler'[h] = handler[h]
  BY DEF D!Busy
<1>8. DeliveryInv'
  BY <1>1, <1>2, <1>3, <1>6, <1>7, DeliveryKeeps
<1>. QED BY <1>2, <1>5, <1>8

\* A consumer is started.
LEMMA DeliveryStartConsumer ==
    ASSUME DeliveryInv, NEW q \in D!MainQueues, D!StartConsumer(q)
    PROVE  DeliveryInv' /\ AbstractStep
<1>1. UNCHANGED <<ready, handler, published, handled, dropped, failures>>
      /\ subscribed' \subseteq D!MainQueues /\ closes' \in 0..MaxCloses /\ stranded' \in BOOLEAN
  BY DeliveryTypes DEF D!StartConsumer
<1>. QED BY <1>1, DeliveryIdle DEF AbstractStep

\* One copy more, in one queue.
LEMMA PutQueues ==
    ASSUME DeliveryInv, NEW q0 \in D!Queues, NEW c \in D!Copies, ready' = D!Put(ready, {q0}, c)
    PROVE  /\ ready' \in Counts
           /\ \A m : Waits(m)' <=> Waits(m) \/ (q0 \in D!MainQueues \cup D!RetryQueues /\ m = c.msg)
           /\ \A m : m \in D!Dead' <=> m \in D!Dead \/ (q0 \in D!DeadQueues /\ m = c.msg)
           /\ (Grows /\ Belongs(q0, c)' => QueuesOK')
<1>1. /\ ready' \in Counts
      /\ \A q \in D!Queues, x \in D!Copies :
            /\ q = q0 /\ x = c => ready'[q][x] = ready[q][x] + 1
            /\ q # q0 \/ x # c => ready'[q][x] = ready[q][x]
  BY PutEffect, DeliveryTypes
<1>2. \A q \in D!Queues, x \in D!Copies : ready[q][x] \in Nat
  BY DeliveryTypes DEF Counts
<1>3. \A q \in D!Queues, x \in D!Copies : ready'[q][x] > 0 <=> ready[q][x] > 0 \/ (q = q0 /\ x = c)
  BY <1>1, <1>2
<1>4. \A m : Waits(m)' <=> Waits(m) \/ (q0 \in D!MainQueues \cup D!RetryQueues /\ m = c.msg)
  BY <1>3, KindsOfQueues DEF Waits
<1>5. c.msg \in D!Messages
  BY DEF D!Copies
<1>6. \A m : m \in D!Dead' <=> m \in D!Dead \/ (q0 \in D!DeadQueues /\ m = c.msg)
  <2>1. \A q \in D!DeadQueues : q \in D!Queues
    BY KindsOfQueues
  <2>2. ASSUME NEW m, m \in D!Dead' PROVE m \in D!Dead \/ (q0 \in D!DeadQueues /\ m = c.msg)
    <3>1. m \in D!Messages /\ \E q \in D!DeadQueues, x \in D!Copies : ready'[q][x] > 0 /\ x.msg = m
      BY <2>2, DeadIs
    <3>2. PICK q \in D!DeadQueues, x \in D!Copies : ready'[q][x] > 0 /\ x.msg = m
      BY <3>1
    <3>3. ready[q][x] > 0 \/ (q = q0 /\ x = c)
      BY <1>3, <2>1, <3>2
    <3>4. ready[q][x] > 0 => m \in D!Dead
      BY <3>1, <3>2, DeadIs
    <3>. QED BY <3>2, <3>3, <3>4
  <2>3. ASSUME NEW m, m \in D!Dead PROVE m \in D!Dead'
    <3>1. m \in D!Messages /\ \E q \in D!DeadQueues, x \in D!Copies : ready[q][x] > 0 /\ x.msg = m
      BY <2>3, DeadIs
    <3>2. \E q \in D!DeadQueues, x \in D!Copies : ready'[q][x] > 0 /\ x.msg = m
      BY <1>3, <2>1, <3>1
    <3>. QED BY <3>1, <3>2, DeadIs
  <2>4. q0 \in D!DeadQueues => c.msg \in D!Dead'
    BY <1>3, <1>5, DeadIs
  <2>. QED BY <2>2, <2>3, <2>4
<1>7. ASSUME Grows, Belongs(q0, c)' PROVE QueuesOK'
  <2>1. ASSUME NEW q \in D!Queues, NEW x \in D!Copies, ready'[q][x] > 0 PROVE Belongs(q, x)'
    BY <1>3, <1>7, <2>1, BelongsStays DEF DeliveryInv, QueuesOK
  <2>. QED BY <2>1 DEF QueuesOK
<1>. QED BY <1>1, <1>4, <1>6, <1>7

\* Publish is Publish of AtLeastOnce.
LEMMA DeliveryPublish ==
    ASSUME DeliveryInv, NEW m \in D!Messages, D!Publish(m)
    PROVE  DeliveryInv' /\ AbstractStep
<1>1. PICK q \in D!MainQueues : D!Route(D!PAYMENT_EVENTS, D!RoutingKey(m)) = {q} /\ OnItsWay(q, m)
  BY Topology
<1>2. PICK c : c = D!Copy(m, 0)
  OBVIOUS
<1>3. c \in D!Copies /\ c.msg = m /\ c.count = 0
  BY <1>2, RetryKeys DEF D!Copy, D!Copies
<1>4. q \in D!Queues /\ q \notin D!DeadQueues
  BY KindsOfQueues
<1>5. /\ ready' = D!Put(ready, {q}, c)
      /\ UNCHANGED <<handler, subscribed, closes, handled, dropped, failures, stranded>>
      /\ published[m] < MaxPublications /\ published' = [published EXCEPT ![m] = @ + 1]
  BY <1>1, <1>2 DEF D!Publish
<1>6. /\ ready' \in Counts
      /\ \A x : Waits(x)' <=> Waits(x) \/ x = m
      /\ \A x : x \in D!Dead' <=> x \in D!Dead
      /\ (Grows /\ Belongs(q, c)' => QueuesOK')
  BY <1>3, <1>4, <1>5, PutQueues
<1>7. Grows
  BY <1>5, <1>6, DeliveryTypes DEF Grows
<1>8. Belongs(q, c)'
  <2>1. 0 <= failures'[m]
    BY <1>5, DeliveryTypes
  <2>. QED BY <1>1, <1>3, <1>4, <2>1 DEF Belongs, OnItsWay
<1>9. published' \in [D!Messages -> 0..MaxPublications]
  <2>1. published[m] + 1 \in 0..MaxPublications
    BY <1>5, DeliveryTypes, MessagingConstants DEF D!DeliveryConstants
  <2>. QED BY <1>5, <2>1, DeliveryTypes
<1>10. D!TypeOK'
  BY <1>5, <1>6, <1>9 DEF DeliveryInv, D!TypeOK, Counts
<1>11. \A x, h : (HeldBy(x, h)' <=> HeldBy(x, h)) /\ (KeptBy(x, h)' <=> KeptBy(x, h))
  BY <1>5 DEF HeldBy, KeptBy, D!OnOpen, D!Busy
<1>12. \A x \in D!Messages : Kept(x) => Safe(x)'
  BY <1>6, <1>11 DEF Safe, Kept
<1>13. \A h \in Handlers : D!Busy(h)' => D!Busy(h) /\ handler'[h] = handler[h]
  BY <1>5 DEF D!Busy
<1>14. DeliveryInv'
  BY <1>6, <1>7, <1>8, <1>10, <1>12, <1>13, DeliveryKeeps
<1>15. \A x : x \in D!Held' <=> x \in D!Held \/ x = m
  BY <1>6, <1>11, HeldIs
<1>16. D!Held' = D!Held \cup {m} /\ D!Dead' = D!Dead
  BY <1>6, <1>15
<1>17. D!Abstract!Publish(m)
  BY <1>5, <1>16 DEF D!Abstract!Publish
<1>. QED BY <1>14, <1>17 DEF AbstractStep, D!Abstract!Next

\* One copy less in a main or a retry queue.
LEMMA TakeQueues ==
    ASSUME DeliveryInv, NEW q \in D!MainQueues \cup D!RetryQueues, NEW c \in D!Copies, ready[q][c] > 0
    PROVE  /\ D!Take(ready, q, c) \in Counts
           /\ \A p \in D!Queues, x \in D!Copies :
                 /\ D!Take(ready, q, c)[p][x] > 0 => ready[p][x] > 0
                 /\ p # q \/ x # c => D!Take(ready, q, c)[p][x] = ready[p][x]
           /\ Belongs(q, c) /\ Waits(c.msg) /\ q \in D!Queues
<1>1. q \in D!Queues
  BY KindsOfQueues
<1>2. /\ D!Take(ready, q, c) \in Counts
      /\ D!Take(ready, q, c)[q][c] = ready[q][c] - 1
      /\ \A p \in D!Queues, x \in D!Copies :
            p # q \/ x # c => D!Take(ready, q, c)[p][x] = ready[p][x]
  BY <1>1, TakeEffect, DeliveryTypes
<1>3. \A p \in D!Queues, x \in D!Copies : D!Take(ready, q, c)[p][x] > 0 => ready[p][x] > 0
  BY <1>2
<1>. QED BY <1>1, <1>2, <1>3 DEF DeliveryInv, QueuesOK, Waits

\* A delivery hands a copy to a callback: nothing is held that was not.
LEMMA DeliveryDeliver ==
    ASSUME DeliveryInv, NEW h \in Handlers, NEW q \in D!MainQueues, NEW c \in D!Copies,
           D!Deliver(h, q, c)
    PROVE  DeliveryInv' /\ AbstractStep
<1>1. PICK s : s = [pc |-> "processing", queue |-> q, copy |-> c, open |-> TRUE]
  OBVIOUS
<1>2. /\ ~D!Busy(h) /\ ready[q][c] > 0 /\ ready' = D!Take(ready, q, c)
      /\ handler' = [handler EXCEPT ![h] = s]
      /\ UNCHANGED <<subscribed, published, closes, handled, dropped, failures, stranded>>
  BY <1>1 DEF D!Deliver
<1>3. /\ ready' \in Counts
      /\ \A p \in D!Queues, x \in D!Copies : /\ ready'[p][x] > 0 => ready[p][x] > 0
                                             /\ p # q \/ x # c => ready'[p][x] = ready[p][x]
      /\ Belongs(q, c) /\ Waits(c.msg) /\ q \in D!Queues
  BY <1>2, TakeQueues
<1>4. c.msg \in D!Messages /\ q \notin D!DeadQueues
  BY KindsOfQueues DEF D!Copies
<1>5. s \in D!HandlerStates /\ s # D!Idle /\ s.pc = "processing" /\ s.queue = q /\ s.copy = c /\ s.open = TRUE
  BY <1>1 DEF D!HandlerStates, D!Idle
<1>6. /\ handler'[h] = s /\ handler' \in [Handlers -> D!HandlerStates]
      /\ \A g \in Handlers : g # h => handler'[g] = handler[g]
  BY <1>2, <1>5, DeliveryTypes
<1>7. D!TypeOK'
  BY <1>2, <1>3, <1>6 DEF DeliveryInv, D!TypeOK, Counts
<1>8. D!Dead' = D!Dead
  <2>1. \A p \in D!DeadQueues, x \in D!Copies : ready'[p][x] = ready[p][x]
    BY <1>3, <1>4, KindsOfQueues
  <2>2. \A m : m \in D!Dead' <=> m \in D!Dead
    BY <2>1, DeadIs
  <2>. QED BY <2>2
<1>9. Grows
  BY <1>2, <1>8, DeliveryTypes DEF Grows
<1>10. QueuesOK'
  <2>1. ASSUME NEW p \in D!Queues, NEW x \in D!Copies, ready'[p][x] > 0 PROVE Belongs(p, x)'
    BY <1>3, <1>9, <2>1, BelongsStays DEF DeliveryInv, QueuesOK
  <2>. QED BY <2>1 DEF QueuesOK
<1>11. \A m : (Waits(m)' => Waits(m)) /\ (Waits(m) => Waits(m)' \/ m = c.msg)
  BY <1>3, KindsOfQueues DEF Waits
<1>12. \A m : KeptBy(m, h)' <=> m = c.msg
  BY <1>5, <1>6 DEF KeptBy, HeldBy, D!OnOpen, D!Busy
<1>13. \A m : HeldBy(m, h)' <=> m = c.msg
  BY <1>5, <1>6 DEF HeldBy, D!OnOpen, D!Busy
<1>14. \A m : ~HeldBy(m, h) /\ ~KeptBy(m, h)
  BY <1>2 DEF HeldBy, KeptBy, D!OnOpen
<1>15. \A m, g : g \in Handlers /\ g # h => (HeldBy(m, g)' <=> HeldBy(m, g)) /\ (KeptBy(m, g)' <=> KeptBy(m, g))
  BY <1>6 DEF HeldBy, KeptBy, D!OnOpen, D!Busy
<1>16. \A m : m \in D!Held' <=> m \in D!Held
  BY <1>3, <1>4, <1>11, <1>13, <1>14, <1>15, HeldIs
<1>17. \A m \in D!Messages : Kept(m) => Safe(m)'
  BY <1>11, <1>12, <1>14, <1>15 DEF Safe, Kept
<1>18. HoldsOK(s)' /\ Safe(s.copy.msg)'
  <2>1. Safe(c.msg)'
    BY <1>12 DEF Safe, Kept
  <2>. QED BY <1>2, <1>3, <1>4, <1>5, <2>1 DEF HoldsOK, Belongs
<1>19. \A g \in Handlers : D!Busy(g)' =>
          \/ D!Busy(g) /\ handler'[g] = handler[g]
          \/ HoldsOK(handler[g])' /\ Safe(handler[g].copy.msg)'
  BY <1>6, <1>18 DEF D!Busy
<1>20. DeliveryInv'
  BY <1>7, <1>9, <1>10, <1>17, <1>19, DeliveryKeeps
<1>. QED BY <1>2, <1>8, <1>16, <1>20 DEF AbstractStep

\* A copy whose time to live is over goes back to its main queue.
LEMMA DeliveryExpire ==
    ASSUME DeliveryInv, NEW q \in D!RetryQueues, NEW c \in D!Copies, D!Expire(q, c)
    PROVE  DeliveryInv' /\ AbstractStep
<1>1. PICK main \in D!MainQueues : D!Route(D!PAYMENT_EVENTS, D!DeadLetterKey(q)) = {main}
  BY Topology
<1>2. PICK less : less = D!Take(ready, q, c)
  OBVIOUS
<1>3. /\ ready[q][c] > 0 /\ ready' = D!Put(less, {main}, c)
      /\ UNCHANGED <<handler, subscribed, published, closes, handled, dropped, failures, stranded>>
  BY <1>1, <1>2 DEF D!Expire
<1>4. /\ less \in Counts
      /\ \A p \in D!Queues, x \in D!Copies : /\ less[p][x] > 0 => ready[p][x] > 0
                                             /\ p # q \/ x # c => less[p][x] = ready[p][x]
      /\ Belongs(q, c) /\ Waits(c.msg) /\ q \in D!Queues
  BY <1>2, <1>3, TakeQueues
<1>5. c.msg \in D!Messages /\ q \notin D!DeadQueues /\ main \notin D!DeadQueues /\ main # q
      /\ main \in D!Queues /\ main \notin D!RetryQueues
  BY KindsOfQueues DEF D!Copies
<1>6. /\ ready' \in Counts
      /\ ready'[main][c] = less[main][c] + 1
      /\ \A p \in D!Queues, x \in D!Copies : p # main \/ x # c => ready'[p][x] = less[p][x]
  BY <1>3, <1>4, <1>5, PutEffect
<1>7. ready'[main][c] > 0
  BY <1>4, <1>5, <1>6 DEF Counts
<1>8. \A p \in D!Queues, x \in D!Copies :
         /\ ready'[p][x] > 0 => ready[p][x] > 0 \/ (p = main /\ x = c)
         /\ ready[p][x] > 0 => ready'[p][x] > 0 \/ (p = q /\ x = c)
  BY <1>4, <1>6, <1>7
<1>9. D!Dead' = D!Dead
  <2>1. \A p \in D!DeadQueues, x \in D!Copies : ready'[p][x] = ready[p][x]
    BY <1>4, <1>5, <1>6, KindsOfQueues
  <2>2. \A m : m \in D!Dead' <=> m \in D!Dead
    BY <2>1, DeadIs
  <2>. QED BY <2>2
<1>10. Grows
  BY <1>3, <1>9, DeliveryTypes DEF Grows
<1>11. Belongs(main, c)'
  <2>1. D!DeadLetterKey(q) = D!RoutingKey(c.msg) /\ c.count <= failures[c.msg]
    BY <1>4, <1>5 DEF Belongs, OnItsWay
  <2>. QED BY <1>1, <1>3, <1>5, <2>1 DEF Belongs, OnItsWay
<1>12. QueuesOK'
  <2>1. ASSUME NEW p \in D!Queues, NEW x \in D!Copies, ready'[p][x] > 0 PROVE Belongs(p, x)'
    BY <1>8, <1>10, <1>11, <2>1, BelongsStays DEF DeliveryInv, QueuesOK
  <2>. QED BY <2>1 DEF QueuesOK
<1>13. \A m : Waits(m)' <=> Waits(m)
  <2>1. Waits(c.msg)'
    BY <1>7 DEF Waits
  <2>2. \A p \in D!MainQueues \cup D!RetryQueues : p \in D!Queues
    BY KindsOfQueues
  <2>3. ASSUME NEW m, Waits(m) PROVE Waits(m)'
    <3>1. PICK p \in D!MainQueues \cup D!RetryQueues, x \in D!Copies : ready[p][x] > 0 /\ x.msg = m
      BY <2>3 DEF Waits
    <3>2. ready'[p][x] > 0 \/ m = c.msg
      BY <1>8, <2>2, <3>1
    <3>. QED BY <2>1, <3>1, <3>2 DEF Waits
  <2>4. ASSUME NEW m, Waits(m)' PROVE Waits(m)
    <3>1. PICK p \in D!MainQueues \cup D!RetryQueues, x \in D!Copies : ready'[p][x] > 0 /\ x.msg = m
      BY <2>4 DEF Waits
    <3>2. ready[p][x] > 0 \/ m = c.msg
      BY <1>8, <2>2, <3>1
    <3>. QED BY <1>4, <3>1, <3>2 DEF Waits
  <2>. QED BY <2>3, <2>4
<1>14. D!TypeOK'
  BY <1>3, <1>6 DEF DeliveryInv, D!TypeOK, Counts
<1>15. \A x, h : (HeldBy(x, h)' <=> HeldBy(x, h)) /\ (KeptBy(x, h)' <=> KeptBy(x, h))
  BY <1>3 DEF HeldBy, KeptBy, D!OnOpen, D!Busy
<1>16. \A x \in D!Messages : Kept(x) => Safe(x)'
  BY <1>13, <1>15 DEF Safe, Kept
<1>17. \A h \in Handlers : D!Busy(h)' => D!Busy(h) /\ handler'[h] = handler[h]
  BY <1>3 DEF D!Busy
<1>18. DeliveryInv'
  BY <1>10, <1>12, <1>14, <1>16, <1>17, DeliveryKeeps
<1>19. \A x : x \in D!Held' <=> x \in D!Held
  BY <1>13, <1>15, HeldIs
<1>. QED BY <1>3, <1>9, <1>18, <1>19 DEF AbstractStep

\* The broker takes a copy: into a retry queue, or into the dead-letter queue
\* where AtLeastOnce buries the message.
LEMMA DeliveryBrokerTakes ==
    ASSUME DeliveryInv, NEW h \in Handlers, D!BrokerTakes(h)
    PROVE  DeliveryInv' /\ AbstractStep
<1>1. PICK t : t = handler[h]
  OBVIOUS
<1>2. PICK s : s = [pc |-> "confirmed", queue |-> t.queue, copy |-> t.copy, open |-> TRUE]
  OBVIOUS
<1>3. PICK m, c : m = t.copy.msg /\ c = D!Copy(m, t.count)
  OBVIOUS
<1>4. /\ D!Busy(h) /\ D!OnOpen(h) /\ t.pc = "publishing"
      /\ ready' = D!Put(ready, t.to, c) /\ handler' = [handler EXCEPT ![h] = s]
      /\ UNCHANGED <<subscribed, published, closes, handled, dropped, failures, stranded>>
  BY <1>1, <1>2, <1>3 DEF D!BrokerTakes, D!At
<1>5. /\ t.queue \in D!MainQueues /\ t.copy \in D!Copies /\ t.copy.msg \in D!Messages
      /\ t.copy.count \in 0..3 /\ t.count \in 0..3
  BY <1>1, <1>4, BusyTypes
<1>6. HoldsOK(t)
  BY <1>1, <1>4 DEF DeliveryInv, HandlersOK
<1>7. PICK q \in D!RetryQueues \cup D!DeadQueues : t.to = {q} /\ Belongs(q, c)
  BY <1>3, <1>4, <1>6 DEF HoldsOK
<1>8. c \in D!Copies /\ c.msg = m /\ q \in D!Queues
  BY <1>3, <1>5, KindsOfQueues, RetryKeys DEF D!Copy, D!Copies
<1>9. /\ ready' \in Counts
      /\ \A x : Waits(x)' <=> Waits(x) \/ (q \in D!MainQueues \cup D!RetryQueues /\ x = m)
      /\ \A x : x \in D!Dead' <=> x \in D!Dead \/ (q \in D!DeadQueues /\ x = m)
      /\ (Grows /\ Belongs(q, c)' => QueuesOK')
  BY <1>4, <1>7, <1>8, PutQueues
<1>10. Grows
  BY <1>4, <1>9, DeliveryTypes DEF Grows
<1>11. QueuesOK'
  BY <1>7, <1>8, <1>9, <1>10, BelongsStays
<1>12. s \in [pc : {"processing", "handled", "confirmed"}, queue : D!MainQueues, copy : D!Copies,
              open : BOOLEAN] /\ s # D!Idle
  BY <1>2, <1>5 DEF D!Idle
<1>13. s \in D!HandlerStates
  BY <1>12 DEF D!HandlerStates
<1>14. /\ handler'[h] = s /\ handler' \in [Handlers -> D!HandlerStates]
       /\ \A g \in Handlers : g # h => handler'[g] = handler[g]
  BY <1>4, <1>13, DeliveryTypes
<1>15. D!TypeOK'
  BY <1>4, <1>9, <1>14 DEF DeliveryInv, D!TypeOK, Counts
<1>16. s.pc = "confirmed" /\ s.copy = t.copy /\ s.queue = t.queue /\ s.open = TRUE
  BY <1>2
<1>17. \A x, g : g \in Handlers /\ g # h => (HeldBy(x, g)' <=> HeldBy(x, g)) /\ (KeptBy(x, g)' <=> KeptBy(x, g))
  BY <1>14 DEF HeldBy, KeptBy, D!OnOpen, D!Busy
<1>18. \A x : (HeldBy(x, h) <=> x = m) /\ (HeldBy(x, h)' <=> x = m)
  BY <1>1, <1>3, <1>4, <1>12, <1>14, <1>16 DEF HeldBy, D!OnOpen, D!Busy
<1>19. Safe(m)'
  BY <1>7, <1>9 DEF Safe, Kept, IsSettled
<1>20. \A x \in D!Messages : Kept(x) => Safe(x)'
  BY <1>9, <1>17, <1>18, <1>19 DEF Safe, Kept, KeptBy
<1>21. HoldsOK(s)'
  BY <1>4, <1>6, <1>16 DEF HoldsOK
<1>22. \A g \in Handlers : D!Busy(g)' =>
          \/ D!Busy(g) /\ handler'[g] = handler[g]
          \/ HoldsOK(handler[g])' /\ Safe(handler[g].copy.msg)'
  BY <1>3, <1>14, <1>16, <1>19, <1>21 DEF D!Busy
<1>23. DeliveryInv'
  BY <1>10, <1>11, <1>15, <1>20, <1>22, DeliveryKeeps
<1>24. \A x : x \in D!Held' <=> x \in D!Held
  BY <1>3, <1>5, <1>9, <1>17, <1>18, HeldIs
<1>25. m \in D!Held /\ m \in D!Messages
  BY <1>3, <1>5, <1>18, HeldIs
<1>26. CASE q \in D!DeadQueues
  <2>1. D!Dead' = D!Dead \cup {m} /\ D!Held' = D!Held
    BY <1>9, <1>24, <1>26
  <2>2. D!Abstract!Bury(m)
    BY <1>4, <1>25, <2>1 DEF D!Abstract!Bury
  <2>. QED BY <1>23, <1>25, <2>2 DEF AbstractStep, D!Abstract!Next
<1>27. CASE q \notin D!DeadQueues
  <2>1. D!Dead' = D!Dead /\ D!Held' = D!Held
    BY <1>9, <1>24, <1>27
  <2>. QED BY <1>4, <1>23, <2>1 DEF AbstractStep
<1>. QED BY <1>26, <1>27

\* What the broker's return of the unacknowledged copies does to the counts.
LEMMA RequeuedEffect ==
    ASSUME DeliveryInv
    PROVE  /\ D!Requeued \in Counts
           /\ \A q \in D!Queues, c \in D!Copies :
                 D!Requeued[q][c] > 0 <=> \/ ready[q][c] > 0
                                          \/ \E h \in D!Unacked(q) : handler[h].copy = c
<1>1. ASSUME NEW q \in D!Queues, NEW c \in D!Copies
      PROVE  LET S == {h \in D!Unacked(q) : handler[h].copy = c}
             IN  D!Cardinality(S) \in Nat /\ (D!Cardinality(S) > 0 <=> S # {})
  <2>1. PICK S : S = {h \in D!Unacked(q) : handler[h].copy = c}
    OBVIOUS
  <2>2. IsFiniteSet(Handlers)
    BY MessagingConstants, SameFiniteness DEF D!DeliveryConstants
  <2>3. S \subseteq Handlers
    BY <2>1 DEF D!Unacked
  <2>4. IsFiniteSet(S)
    BY <2>2, <2>3, FS_Subset
  <2>5. Cardinality(S) \in Nat /\ (Cardinality(S) = 0 <=> S = {})
    BY <2>4, FS_CardinalityType, FS_EmptySet
  <2>. QED BY <2>1, <2>5, SameCardinality
<1>2. \A q \in D!Queues, c \in D!Copies : ready[q][c] \in Nat
  BY DeliveryTypes DEF Counts
<1>3. ASSUME NEW q \in D!Queues, NEW c \in D!Copies
      PROVE  /\ D!Requeued[q][c] \in Nat
             /\ D!Requeued[q][c] > 0 <=> \/ ready[q][c] > 0
                                         \/ \E h \in D!Unacked(q) : handler[h].copy = c
  <2>1. PICK S, n, k : /\ S = {h \in D!Unacked(q) : handler[h].copy = c}
                       /\ n = ready[q][c] /\ k = D!Cardinality(S)
    OBVIOUS
  <2>2. n \in Nat /\ k \in Nat /\ (k > 0 <=> S # {})
    BY <1>1, <1>2, <2>1
  <2>3. D!Requeued[q][c] = n + k
    BY <2>1 DEF D!Requeued
  <2>4. S # {} <=> \E h \in D!Unacked(q) : handler[h].copy = c
    BY <2>1
  <2>. QED BY <2>1, <2>2, <2>3, <2>4
<1>4. D!Requeued \in Counts
  <2>1. \A q \in D!Queues : D!Requeued[q] = [c \in D!Copies |-> D!Requeued[q][c]]
    BY DEF D!Requeued
  <2>2. \A q \in D!Queues : D!Requeued[q] \in [D!Copies -> Nat]
    BY <1>3, <2>1
  <2>3. D!Requeued = [q \in D!Queues |-> D!Requeued[q]]
    BY DEF D!Requeued
  <2>. QED BY <2>2, <2>3 DEF Counts
<1>. QED BY <1>3, <1>4

\* A close: what the callbacks held waits again, and no callback holds a copy.
LEMMA RequeuedKeeps ==
    ASSUME DeliveryInv, ready' = D!Requeued, handler' \in [Handlers -> D!HandlerStates],
           \A h \in Handlers :
               \/ handler'[h] = D!Idle
               \/ D!Busy(h) /\ handler'[h] = [handler[h] EXCEPT !.open = FALSE],
           UNCHANGED <<published, handled, dropped, failures>>,
           subscribed' = {}, closes' \in 0..MaxCloses, stranded' \in BOOLEAN
    PROVE  DeliveryInv' /\ AbstractStep
<1>1. /\ ready' \in Counts
      /\ \A q \in D!Queues, c \in D!Copies :
            ready'[q][c] > 0 <=> \/ ready[q][c] > 0
                                 \/ \E h \in D!Unacked(q) : handler[h].copy = c
  BY RequeuedEffect
<1>2. ASSUME NEW h \in Handlers, D!OnOpen(h)
      PROVE  /\ handler[h].queue \in D!MainQueues /\ handler[h].queue \in D!Queues
             /\ handler[h].copy \in D!Copies /\ handler[h].copy.msg \in D!Messages
             /\ ready'[handler[h].queue][handler[h].copy] > 0
             /\ Belongs(handler[h].queue, handler[h].copy)
  <2>1. PICK t : t = handler[h]
    OBVIOUS
  <2>2. t.queue \in D!MainQueues /\ t.queue \in D!Queues /\ t.queue \notin D!DeadQueues
        /\ t.copy \in D!Copies /\ t.copy.msg \in D!Messages
    BY <1>2, <2>1, BusyTypes, KindsOfQueues DEF D!OnOpen
  <2>3. h \in D!Unacked(t.queue)
    BY <1>2, <2>1 DEF D!Unacked
  <2>4. HoldsOK(t)
    BY <1>2, <2>1 DEF DeliveryInv, HandlersOK, D!OnOpen
  <2>. QED BY <1>1, <2>1, <2>2, <2>3, <2>4 DEF HoldsOK, Belongs
<1>3. \A m, h : ~HeldBy(m, h)' \/ h \notin Handlers
  <2>1. ASSUME NEW h \in Handlers, D!Busy(h), handler'[h] = [handler[h] EXCEPT !.open = FALSE]
        PROVE  handler'[h].open = FALSE
    <3>1. handler[h] \in D!HandlerStates /\ handler[h] # D!Idle
      BY <2>1, DeliveryTypes DEF D!Busy
    <3>2. CASE handler[h] \in [pc : {"processing", "handled", "confirmed"}, queue : D!MainQueues,
                               copy : D!Copies, open : BOOLEAN]
      BY <2>1, <3>2
    <3>3. CASE handler[h] \in [pc : {"publishing"}, queue : D!MainQueues, copy : D!Copies,
                               open : BOOLEAN, to : SUBSET D!Queues, count : 0..D!RetryLimit]
      BY <2>1, <3>3
    <3>. QED BY <3>1, <3>2, <3>3 DEF D!HandlerStates
  <2>. QED BY <2>1 DEF HeldBy, D!OnOpen, D!Busy
<1>4. \A q \in D!DeadQueues, c \in D!Copies : ready'[q][c] > 0 <=> ready[q][c] > 0
  <2>1. ASSUME NEW q \in D!DeadQueues, NEW h \in D!Unacked(q) PROVE FALSE
    BY <1>2, <2>1, KindsOfQueues DEF D!Unacked
  <2>. QED BY <1>1, <2>1, KindsOfQueues
<1>5. D!Dead' = D!Dead
  <2>1. \A m : m \in D!Dead' <=> m \in D!Dead
    BY <1>4, DeadIs
  <2>. QED BY <2>1
<1>6. Grows
  BY <1>5, DeliveryTypes DEF Grows
<1>7. QueuesOK'
  <2>1. ASSUME NEW q \in D!Queues, NEW c \in D!Copies, ready'[q][c] > 0 PROVE Belongs(q, c)'
    <3>1. CASE ready[q][c] > 0
      BY <1>6, <3>1, BelongsStays DEF DeliveryInv, QueuesOK
    <3>2. CASE ~(ready[q][c] > 0)
      <4>1. PICK h \in D!Unacked(q) : handler[h].copy = c
        BY <1>1, <2>1, <3>2
      <4>2. h \in Handlers /\ D!OnOpen(h) /\ handler[h].queue = q
        BY DEF D!Unacked
      <4>. QED BY <1>2, <1>6, <4>1, <4>2, BelongsStays
    <3>. QED BY <3>1, <3>2
  <2>. QED BY <2>1 DEF QueuesOK
<1>8. \A m : Waits(m)' <=> Waits(m) \/ \E h \in Handlers : HeldBy(m, h)
  <2>1. \A q \in D!MainQueues \cup D!RetryQueues : q \in D!Queues
    BY KindsOfQueues
  <2>2. ASSUME NEW m, Waits(m)' PROVE Waits(m) \/ \E h \in Handlers : HeldBy(m, h)
    <3>1. PICK q \in D!MainQueues \cup D!RetryQueues, c \in D!Copies : ready'[q][c] > 0 /\ c.msg = m
      BY <2>2 DEF Waits
    <3>2. CASE ready[q][c] > 0
      BY <3>1, <3>2 DEF Waits
    <3>3. CASE ~(ready[q][c] > 0)
      <4>1. PICK h \in D!Unacked(q) : handler[h].copy = c
        BY <1>1, <2>1, <3>1, <3>3
      <4>. QED BY <3>1, <4>1 DEF D!Unacked, HeldBy
    <3>. QED BY <3>2, <3>3
  <2>3. ASSUME NEW m, Waits(m) PROVE Waits(m)'
    BY <1>1, <2>1, <2>3 DEF Waits
  <2>4. ASSUME NEW m, NEW h \in Handlers, HeldBy(m, h) PROVE Waits(m)'
    BY <1>2, <2>4 DEF HeldBy, Waits
  <2>. QED BY <2>2, <2>3, <2>4
<1>9. \A m : m \in D!Held' <=> m \in D!Held
  BY <1>3, <1>8, HeldIs
<1>10. D!TypeOK'
  BY <1>1 DEF DeliveryInv, D!TypeOK, Counts
<1>11. \A m : Safe(m) => Safe(m)'
  BY <1>6, <1>8 DEF Safe, Kept, KeptBy, IsSettled, Grows
<1>12. ASSUME NEW h \in Handlers, D!Busy(h)'
       PROVE  HoldsOK(handler[h])' /\ Safe(handler[h].copy.msg)'
  <2>1. PICK t, s : t = handler[h] /\ s = handler'[h]
    OBVIOUS
  <2>2. D!Busy(h) /\ s = [t EXCEPT !.open = FALSE]
    BY <1>12, <2>1 DEF D!Busy
  <2>3. t \in D!HandlerStates /\ t # D!Idle
    BY <2>1, <2>2, DeliveryTypes DEF D!Busy
  <2>4. s.queue = t.queue /\ s.copy = t.copy /\ s.pc = t.pc
        /\ (t.pc = "publishing" => s.to = t.to /\ s.count = t.count)
    <3>1. CASE t \in [pc : {"processing", "handled", "confirmed"}, queue : D!MainQueues,
                      copy : D!Copies, open : BOOLEAN]
      BY <2>2, <3>1
    <3>2. CASE t \in [pc : {"publishing"}, queue : D!MainQueues, copy : D!Copies,
                      open : BOOLEAN, to : SUBSET D!Queues, count : 0..D!RetryLimit]
      BY <2>2, <3>2
    <3>. QED BY <2>3, <3>1, <3>2 DEF D!HandlerStates
  <2>5. HoldsOK(t)' /\ Safe(t.copy.msg)
    BY <1>6, <2>1, <2>2, HoldsStays DEF DeliveryInv, HandlersOK
  <2>6. HoldsOK(s)' /\ Safe(s.copy.msg)'
    BY <1>11, <2>4, <2>5 DEF HoldsOK
  <2>. QED BY <2>1, <2>6
<1>13. DeliveryInv'
  <2>1. \A m \in D!Messages : Kept(m) => Safe(m)'
    BY <1>11 DEF Safe
  <2>. QED BY <1>6, <1>7, <1>10, <1>12, <2>1, DeliveryKeeps
<1>. QED BY <1>5, <1>9, <1>13 DEF AbstractStep

\* The channel closes and its callbacks go on.
LEMMA DeliveryClose ==
    ASSUME DeliveryInv, NEW foreseen \in BOOLEAN, D!CloseChannel(foreseen)
    PROVE  DeliveryInv' /\ AbstractStep
<1>1. ASSUME NEW h \in Handlers, D!Busy(h)
      PROVE  [handler[h] EXCEPT !.open = FALSE] \in D!HandlerStates
  <2>1. PICK t, s : t = handler[h] /\ s = [t EXCEPT !.open = FALSE]
    OBVIOUS
  <2>2. t \in D!HandlerStates /\ t # D!Idle
    BY <1>1, <2>1, DeliveryTypes DEF D!Busy
  <2>3. CASE t \in [pc : {"processing", "handled", "confirmed"}, queue : D!MainQueues,
                    copy : D!Copies, open : BOOLEAN]
    <3>1. s \in [pc : {"processing", "handled", "confirmed"}, queue : D!MainQueues,
                 copy : D!Copies, open : BOOLEAN]
      BY <2>1, <2>3
    <3>. QED BY <2>1, <3>1 DEF D!HandlerStates
  <2>4. CASE t \in [pc : {"publishing"}, queue : D!MainQueues, copy : D!Copies,
                    open : BOOLEAN, to : SUBSET D!Queues, count : 0..D!RetryLimit]
    <3>1. s \in [pc : {"publishing"}, queue : D!MainQueues, copy : D!Copies,
                 open : BOOLEAN, to : SUBSET D!Queues, count : 0..D!RetryLimit]
      BY <2>1, <2>4
    <3>. QED BY <2>1, <3>1 DEF D!HandlerStates
  <2>. QED BY <2>2, <2>3, <2>4 DEF D!HandlerStates
<1>2. /\ handler' = [h \in Handlers |-> IF D!Busy(h) THEN [handler[h] EXCEPT !.open = FALSE]
                                                    ELSE D!Idle]
      /\ ready' = D!Requeued /\ subscribed' = {} /\ closes < MaxCloses /\ closes' = closes + 1
      /\ stranded' \in BOOLEAN /\ UNCHANGED <<published, handled, dropped, failures>>
  BY DEF D!CloseChannel
<1>3. \A h \in Handlers :
         \/ handler'[h] = D!Idle
         \/ D!Busy(h) /\ handler'[h] = [handler[h] EXCEPT !.open = FALSE]
  BY <1>2
<1>4. handler' \in [Handlers -> D!HandlerStates]
  BY <1>1, <1>2 DEF D!HandlerStates
<1>5. closes' \in 0..MaxCloses
  BY <1>2, DeliveryTypes, MessagingConstants DEF D!DeliveryConstants
<1>. QED BY <1>2, <1>3, <1>4, <1>5, RequeuedKeeps

\* The process ends, by a crash or by what a callback throws.
LEMMA DeliveryProcessDies ==
    ASSUME DeliveryInv, D!ProcessDies, closes' \in 0..MaxCloses
    PROVE  DeliveryInv' /\ AbstractStep
<1>1. handler' \in [Handlers -> D!HandlerStates] /\ \A h \in Handlers : handler'[h] = D!Idle
  BY DEF D!ProcessDies, D!HandlerStates
<1>. QED BY <1>1, RequeuedKeeps DEF D!ProcessDies

\* Every step of Delivery.
LEMMA DeliveryNext ==
    ASSUME DeliveryInv, D!Next
    PROVE  DeliveryInv' /\ AbstractStep
<1>1. ASSUME NEW h \in Handlers, D!Callback(h) PROVE DeliveryInv' /\ AbstractStep
  <2>1. ASSUME D!ThrowOnClosed(h) PROVE DeliveryInv' /\ AbstractStep
    BY <2>1, DeliveryTypes, DeliveryProcessDies DEF D!ThrowOnClosed
  <2>. QED BY <1>1, <2>1, DeliveryHandle, DeliveryAck, DeliveryReject, DeliveryMoveToDlq,
              DeliveryRetry, DeliveryBrokerTakes, DeliveryAckOriginal, DeliveryHang DEF D!Callback
<1>2. ASSUME D!Crash PROVE DeliveryInv' /\ AbstractStep
  <2>1. closes' \in 0..MaxCloses
    BY <1>2, DeliveryTypes, MessagingConstants DEF D!DeliveryConstants, D!Crash
  <2>. QED BY <1>2, <2>1, DeliveryProcessDies DEF D!Crash
<1>. QED BY <1>1, <1>2, DeliveryPublish, DeliveryStartConsumer, DeliveryDeliver, DeliveryExpire,
            DeliveryClose DEF D!Next

\* And steps of the other parts.
LEMMA DeliveryRests ==
    ASSUME DeliveryInv, UNCHANGED delivery
    PROVE  DeliveryInv' /\ UNCHANGED <<D!Held, handled, D!Dead, dropped>>
<1>1. UNCHANGED <<ready, handler, published, handled, dropped, failures>>
      /\ subscribed' \subseteq D!MainQueues /\ closes' \in 0..MaxCloses /\ stranded' \in BOOLEAN
  BY DeliveryTypes DEF delivery
<1>. QED BY <1>1, DeliveryIdle

\* The queues are empty at the start.
LEMMA DeliveryInit ==
    ASSUME D!Init
    PROVE  DeliveryInv /\ D!Abstract!Init
<1>. USE MessagingConstants DEF D!Init, D!DeliveryConstants
<1>1. \A q \in D!Queues, c \in D!Copies : ready[q][c] = 0
  OBVIOUS
<1>2. \A h \in Handlers : ~D!Busy(h)
  BY DEF D!Busy
<1>3. D!TypeOK
  <2>1. ready \in [D!Queues -> [D!Copies -> Nat]]
    OBVIOUS
  <2>2. handler \in [Handlers -> D!HandlerStates]
    BY DEF D!HandlerStates
  <2>3. published \in [D!Messages -> 0..MaxPublications] /\ closes \in 0..MaxCloses
    OBVIOUS
  <2>4. failures \in [D!Messages -> 0..(D!RetryLimit + 1)]
    BY RetryKeys
  <2>. QED BY <2>1, <2>2, <2>3, <2>4 DEF D!TypeOK
<1>4. DeliveryInv
  BY <1>1, <1>2, <1>3 DEF DeliveryInv, QueuesOK, HandlersOK
<1>5. \A m : m \notin D!Held
  <2>1. \A q \in D!MainQueues \cup D!RetryQueues : q \in D!Queues
    BY KindsOfQueues
  <2>. QED BY <1>1, <1>2, <2>1, HeldIs DEF Waits, HeldBy, D!OnOpen
<1>6. \A m : m \notin D!Dead
  <2>1. \A q \in D!DeadQueues : q \in D!Queues
    BY KindsOfQueues
  <2>. QED BY <1>1, <2>1, DeadIs
<1>. QED BY <1>4, <1>5, <1>6 DEF D!Abstract!Init

\* NoEarlyBurial is what belongs in a dead-letter queue.
LEMMA BurialsAreLate == DeliveryInv => D!NoEarlyBurial
<1>1. ASSUME DeliveryInv, NEW m \in D!Dead PROVE m \in Invalid \cup Absent \/ failures[m] > D!RetryLimit
  <2>1. \E q \in D!DeadQueues, c \in D!Copies : ready[q][c] > 0 /\ c.msg = m
    BY DeadIs
  <2>2. PICK q \in D!DeadQueues, c \in D!Copies : ready[q][c] > 0 /\ c.msg = m
    BY <2>1
  <2>3. Belongs(q, c)
    BY <1>1, <2>2, KindsOfQueues DEF DeliveryInv, QueuesOK
  <2>. QED BY <2>2, <2>3 DEF Belongs, Excused
<1>. QED BY <1>1 DEF D!NoEarlyBurial

(***************************************************************************)
(* RabbitConnection.                                                       *)
(*                                                                         *)
(* The numbers of the connections are fresh because only finitely many are *)
(* in use.  What a task has taken from the three variables is open as long *)
(* as it has not been told otherwise.  And as long as only the closes the  *)
(* recovery is made for have happened, a consumer that the startup or a    *)
(* recovery has passed is subscribed, or another recovery is to come; a    *)
(* timer and a recovery never wait at the same time.                       *)
(***************************************************************************)
\* What the tasks may be doing.
Setup(want) ==
    [pc : {"connect"}, want : {want}, k : {0}]
      \cup [pc : {"channel"}, want : {want}, k : {0}, on : R!Connections \cup {None}]
ToTopology == [pc : {"topology"}, on : R!Connections \cup {None}]
ToConsumers ==
    [pc : {"connect"}, want : {"consumer"}, k : R!Consumers]
      \cup [pc : {"channel"}, want : {"consumer"}, k : R!Consumers, on : R!Connections \cup {None}]
      \cup [pc : {"consume"}, k : R!Consumers, ch : R!Channels \cup {None}]

Works(t) ==
    CASE t = "startup"  -> {R!Exited, R!Done} \cup Setup("publisher") \cup ToTopology \cup ToConsumers
      [] t = "recovery" -> {R!Idle} \cup Setup("recovery") \cup ToTopology \cup ToConsumers
      [] t = "outbox"   -> {R!Idle} \cup Setup("publisher")

\* What a task in state s holds is open.
IsLive(s) ==
    /\ s.pc \in {"channel", "topology"} /\ s.on # None => s.on \in open
    /\ s.pc = "consume" /\ s.ch # None => s.ch.conn \in open

\* The consumers before number k are subscribed, now or after a recovery.
Before(k) == \A j \in R!Consumers : j < k => \E s \in consuming : s[1] = j
Covered(k) == Before(k) \/ isRecovering \/ reconnectTimer

OnTheWay ==
    /\ ~(isRecovering /\ reconnectTimer)
    /\ task["recovery"] \in ToConsumers => Before(task["recovery"].k)
    /\ task["startup"] \in ToConsumers => Covered(task["startup"].k)
    /\ task["startup"] = R!Done => Covered(4)

\* The inductive invariant.
RabbitInv ==
    /\ R!TypeOK
    /\ IsFiniteSet(open) /\ IsFiniteSet(consuming)
    /\ \A t \in R!Tasks : task[t] \in Works(t) /\ IsLive(task[t])
    /\ R!VariablesAreLive
    /\ task["startup"] \in ToConsumers \cup {R!Done} => registered
    /\ R!Foreseen => OnTheWay

\* RabbitConnection's instance of FiniteSets is the usual one, too.
LEMMA SameCardinalityToo == \A S : R!Cardinality(S) = Cardinality(S)
BY DEF R!Cardinality, Cardinality

\* A finite set of numbers leaves one free: the pigeonhole principle.
LEMMA FreshIs ==
    ASSUME NEW S, IsFiniteSet(S)
    PROVE  R!Fresh(S) \in Nat /\ R!Fresh(S) \notin S
<1>1. PICK n : n = Cardinality(S) + 1
  OBVIOUS
<1>2. n \in Nat /\ n \in Int /\ 1 \in Int /\ n > Cardinality(S) /\ n >= 1
  BY <1>1, FS_CardinalityType
<1>3. Cardinality(1..n) = n
  <2>1. Cardinality(1..n) = IF 1 > n THEN 0 ELSE n - 1 + 1
    BY <1>2, FS_Interval
  <2>. QED BY <1>2, <2>1
<1>4. \E i \in 1..n : i \notin S
  <2>1. ASSUME 1..n \in SUBSET S PROVE FALSE
    <3>1. Cardinality(1..n) <= Cardinality(S)
      BY <2>1, FS_Subset
    <3>. QED BY <1>2, <1>3, <3>1, FS_CardinalityType
  <2>. QED BY <2>1
<1>5. R!Fresh(S) = CHOOSE i \in 1..n : i \notin S
  BY <1>1, SameCardinalityToo DEF R!Fresh
<1>. QED BY <1>4, <1>5

\* What the process uses is finite.
LEMMA InUseIsFinite ==
    ASSUME RabbitInv
    PROVE  IsFiniteSet(R!InUse)
<1>1. PICK A, B : /\ A = {s[2] : s \in consuming}
                  /\ B = {task[t].ch : t \in {u \in R!Tasks : task[u].pc = "consume"}}
  OBVIOUS
<1>2. IsFiniteSet(A)
  <2>1. [s \in consuming |-> s[2]] \in Surjection(consuming, A)
    BY <1>1 DEF Surjection
  <2>. QED BY <2>1, FS_Surjection DEF RabbitInv
<1>3. IsFiniteSet(B)
  <2>1. PICK T : T = {u \in R!Tasks : task[u].pc = "consume"}
    OBVIOUS
  <2>2. IsFiniteSet({}) /\ IsFiniteSet({"startup"})
    BY FS_EmptySet, FS_Singleton
  <2>3. IsFiniteSet({"startup"} \cup {"recovery"})
    BY <2>2, FS_AddElement
  <2>4. IsFiniteSet({"startup"} \cup {"recovery"} \cup {"outbox"})
    BY <2>3, FS_AddElement
  <2>5. IsFiniteSet(T)
    BY <2>1, <2>4, FS_Subset DEF R!Tasks
  <2>6. [t \in T |-> task[t].ch] \in Surjection(T, B)
    BY <1>1, <2>1 DEF Surjection
  <2>. QED BY <2>5, <2>6, FS_Surjection
<1>4. IsFiniteSet({consumerChannel})
  BY FS_Singleton
<1>5. IsFiniteSet({consumerChannel} \cup A)
  BY <1>2, <1>4, FS_Union
<1>6. IsFiniteSet({consumerChannel} \cup A \cup B)
  BY <1>3, <1>5, FS_Union
<1>7. R!InUse \subseteq {consumerChannel} \cup A \cup B
  BY <1>1 DEF R!InUse
<1>. QED BY <1>6, <1>7, FS_Subset

\* A new connection and a new channel have names no other has.
LEMMA NamesAreFresh ==
    ASSUME RabbitInv
    PROVE  /\ R!FreshConn \in R!Connections /\ R!FreshConn \notin open
           /\ \A c \in R!Connections : /\ R!NewChannel(c) \in R!Channels
                                       /\ R!NewChannel(c).conn = c
                                       /\ R!NewChannel(c) \notin R!InUse
<1>1. R!FreshConn \in Nat /\ R!FreshConn \notin open
  BY FreshIs DEF R!FreshConn, RabbitInv
<1>2. PICK N : N = {ch.nr : ch \in R!InUse}
  OBVIOUS
<1>3. IsFiniteSet(N)
  <2>1. [ch \in R!InUse |-> ch.nr] \in Surjection(R!InUse, N)
    BY <1>2 DEF Surjection
  <2>. QED BY <2>1, InUseIsFinite, FS_Surjection
<1>4. R!Fresh(N) \in Nat /\ R!Fresh(N) \notin N
  BY <1>3, FreshIs
<1>5. ASSUME NEW c \in R!Connections
      PROVE  /\ R!NewChannel(c) \in R!Channels /\ R!NewChannel(c).conn = c
             /\ R!NewChannel(c) \notin R!InUse
  <2>1. PICK ch : ch = [conn |-> c, nr |-> R!Fresh(N)]
    OBVIOUS
  <2>2. ch \in R!Channels /\ ch.conn = c /\ ch.nr = R!Fresh(N)
    BY <1>4, <2>1 DEF R!Channels
  <2>3. ch \notin R!InUse
    BY <1>2, <1>4, <2>2
  <2>4. R!NewChannel(c) = ch
    BY <1>2, <2>1 DEF R!NewChannel
  <2>. QED BY <2>2, <2>3, <2>4
<1>. QED BY <1>1, <1>5 DEF R!Connections

\* What the tasks do is in the type, and tells the kinds of work apart.
LEMMA WorksTypes ==
    /\ \A t \in R!Tasks : Works(t) \subseteq R!TaskStates
    /\ R!Idle \notin ToConsumers /\ R!Exited \notin ToConsumers /\ R!Done \notin ToConsumers
    /\ R!Idle # R!Exited /\ R!Idle # R!Done /\ R!Exited # R!Done
    /\ \A w : Setup(w) \cap ({R!Idle, R!Exited, R!Done} \cup ToTopology) = {}
    /\ \A w : w # "consumer" => Setup(w) \cap ToConsumers = {}
    /\ ToTopology \cap ({R!Idle, R!Exited, R!Done} \cup ToConsumers) = {}
<1>. USE DEF R!Idle, R!Exited, R!Done, Setup, ToTopology, ToConsumers
<1>1. \A w \in {"publisher", "recovery"} : Setup(w) \subseteq R!TaskStates
  BY DEF R!TaskStates, R!Wants
<1>2. ToTopology \subseteq R!TaskStates
  BY DEF R!TaskStates
<1>3. ToConsumers \subseteq R!TaskStates
  BY DEF R!TaskStates, R!Wants, R!Consumers
<1>4. \A t \in R!Tasks : Works(t) \subseteq R!TaskStates
  <2>1. R!Idle \in R!TaskStates /\ R!Exited \in R!TaskStates /\ R!Done \in R!TaskStates
    BY DEF R!TaskStates
  <2>2. /\ Works("startup") \subseteq R!TaskStates
        /\ Works("recovery") \subseteq R!TaskStates
        /\ Works("outbox") \subseteq R!TaskStates
    BY <1>1, <1>2, <1>3, <2>1 DEF Works
  <2>. QED BY <2>2 DEF R!Tasks
<1>5. R!Idle \notin ToConsumers /\ R!Exited \notin ToConsumers /\ R!Done \notin ToConsumers
  OBVIOUS
<1>6. R!Idle # R!Exited /\ R!Idle # R!Done /\ R!Exited # R!Done
  OBVIOUS
<1>7. \A w : Setup(w) \cap ({R!Idle, R!Exited, R!Done} \cup ToTopology) = {}
  OBVIOUS
<1>8. \A w : w # "consumer" => Setup(w) \cap ToConsumers = {}
  OBVIOUS
<1>9. ToTopology \cap ({R!Idle, R!Exited, R!Done} \cup ToConsumers) = {}
  OBVIOUS
<1>. QED BY <1>4, <1>5, <1>6, <1>7, <1>8, <1>9

\* The variables other than the tasks have their types.
RestOK ==
    /\ connection \in R!Connections \cup {None}
    /\ publisherChannel \in R!Connections \cup {None}
    /\ consumerChannel \in R!Channels \cup {None}
    /\ reconnectTimer \in BOOLEAN
    /\ registered \in BOOLEAN
    /\ open \subseteq R!Connections
    /\ consuming \subseteq R!Consumers \X R!Channels
    /\ connectionCloses \in 0..MaxConnectionCloses
    /\ connectFailures \in 0..MaxConnectFailures
    /\ channelCloses \in 0..MaxChannelCloses
    /\ strained \in BOOLEAN
    /\ IsFiniteSet(open) /\ IsFiniteSet(consuming)
    /\ R!VariablesAreLive

\* As the steps use them.
LEMMA RabbitTypes ==
    ASSUME RabbitInv
    PROVE  /\ RestOK /\ task \in [R!Tasks -> R!TaskStates]
           /\ isRecovering = (task["recovery"] # R!Idle)
BY DEF RabbitInv, R!TypeOK, RestOK

\* One task goes to state s: what its step has to show.
LEMMA TaskGoes ==
    ASSUME RabbitInv, NEW t \in R!Tasks, NEW s \in Works(t), task' = [task EXCEPT ![t] = s],
           RestOK', open \subseteq open', IsLive(s)', registered => registered',
           IF t = "recovery" THEN isRecovering' = (s # R!Idle) ELSE isRecovering' = isRecovering,
           t = "startup" /\ s \in ToConsumers \cup {R!Done} => registered',
           R!Foreseen' => R!Foreseen,
           R!Foreseen' =>
               /\ ~(isRecovering' /\ reconnectTimer')
               /\ consuming \subseteq consuming'
               /\ t = "recovery" /\ s \in ToConsumers => Before(s.k)'
               /\ t = "startup" /\ s \in ToConsumers => Covered(s.k)'
               /\ t = "startup" /\ s = R!Done => Covered(4)'
               /\ t # "startup" /\ registered /\ (isRecovering \/ reconnectTimer) => Covered(4)'
    PROVE  RabbitInv'
<1>1. task'[t] = s /\ task' \in [R!Tasks -> R!TaskStates]
      /\ \A u \in R!Tasks : u # t => task'[u] = task[u]
  BY RabbitTypes, WorksTypes
<1>2. isRecovering' = (task'["recovery"] # R!Idle)
  BY <1>1, RabbitTypes DEF R!Tasks
<1>3. R!TypeOK'
  BY <1>1, <1>2 DEF R!TypeOK, RestOK
<1>4. ASSUME NEW u \in R!Tasks PROVE task'[u] \in Works(u) /\ IsLive(task[u])'
  <2>1. CASE u = t
    BY <1>1, <2>1
  <2>2. CASE u # t
    <3>1. IsLive(task[u]) /\ task'[u] = task[u] /\ task[u] \in Works(u)
      BY <1>1, <2>2 DEF RabbitInv
    <3>. QED BY <3>1 DEF IsLive
  <2>. QED BY <2>1, <2>2
<1>5. task'["startup"] \in ToConsumers \cup {R!Done} => registered'
  BY <1>1 DEF RabbitInv, R!Tasks
<1>6. ASSUME R!Foreseen' PROVE OnTheWay'
  <2>1. OnTheWay
    BY <1>6 DEF RabbitInv
  <2>2. \A k : Before(k) => Before(k)'
    BY <1>6 DEF Before
  <2>3. Covered(4)' => \A k \in R!Consumers : Covered(k)'
    BY DEF Covered, Before, R!Consumers
  <2>4. task'["recovery"] \in ToConsumers => Before(task["recovery"].k)'
    BY <1>1, <1>6, <2>1, <2>2 DEF OnTheWay, R!Tasks
  <2>5. ASSUME t # "startup"
        PROVE  /\ task'["startup"] \in ToConsumers => Covered(task["startup"].k)'
               /\ task'["startup"] = R!Done => Covered(4)'
    <3>1. task'["startup"] = task["startup"]
      BY <1>1, <2>5 DEF R!Tasks
    <3>2. \A k : registered /\ (isRecovering \/ reconnectTimer) /\ k \in R!Consumers \cup {4} => Covered(k)'
      BY <1>6, <2>3, <2>5
    <3>3. \A k : registered /\ Covered(k) /\ k \in R!Consumers \cup {4} => Covered(k)'
      BY <2>2, <3>2 DEF Covered
    <3>4. task["startup"] \in ToConsumers => task["startup"].k \in R!Consumers
      BY DEF ToConsumers
    <3>5. task["startup"] \in ToConsumers \cup {R!Done} => registered
      BY DEF RabbitInv
    <3>6. PICK k : k = task["startup"].k
      OBVIOUS
    <3>7. ASSUME task["startup"] \in ToConsumers PROVE Covered(k)'
      BY <2>1, <3>3, <3>4, <3>5, <3>6, <3>7 DEF OnTheWay
    <3>8. ASSUME task["startup"] = R!Done PROVE Covered(4)'
      BY <2>1, <3>3, <3>5, <3>8 DEF OnTheWay
    <3>. QED BY <3>1, <3>6, <3>7, <3>8
  <2>6. ASSUME t = "startup"
        PROVE  /\ task'["startup"] \in ToConsumers => Covered(task["startup"].k)'
               /\ task'["startup"] = R!Done => Covered(4)'
    BY <1>1, <1>6, <2>6
  <2>. QED BY <1>6, <2>4, <2>5, <2>6 DEF OnTheWay
<1>. QED BY <1>3, <1>4, <1>5, <1>6 DEF RabbitInv, RestOK

\* What getConnection and the start of a consumer give is live.
LEMMA GetConnectionIs ==
    ASSUME RabbitInv
    PROVE  /\ \A w : R!GetConnection(w, 0) \in Setup(w) /\ IsLive(R!GetConnection(w, 0))
           /\ \A k \in R!Consumers : /\ R!GetConnection("consumer", k) \in ToConsumers
                                     /\ R!GetConnection("consumer", k).k = k
                                     /\ IsLive(R!GetConnection("consumer", k))
<1>1. connection \in R!Connections \cup {None} /\ (connection # None => connection \in open)
  BY RabbitTypes DEF RestOK, R!VariablesAreLive
<1>2. ASSUME NEW w, NEW k
      PROVE  /\ connection = None => R!GetConnection(w, k) = [pc |-> "connect", want |-> w, k |-> k]
             /\ connection # None =>
                  R!GetConnection(w, k) = [pc |-> "channel", want |-> w, k |-> k, on |-> connection]
  BY DEF R!GetConnection
<1>3. ASSUME NEW w PROVE R!GetConnection(w, 0) \in Setup(w) /\ IsLive(R!GetConnection(w, 0))
  BY <1>1, <1>2 DEF Setup, IsLive
<1>4. ASSUME NEW k \in R!Consumers
      PROVE  /\ R!GetConnection("consumer", k) \in ToConsumers
             /\ R!GetConnection("consumer", k).k = k
             /\ IsLive(R!GetConnection("consumer", k))
  BY <1>1, <1>2 DEF ToConsumers, IsLive
<1>. QED BY <1>3, <1>4

\* The start of consumer k is work for it, on the consumer channel if there is one.
LEMMA StartConsumerIs ==
    ASSUME RabbitInv, NEW k \in R!Consumers
    PROVE  R!StartConsumer(k) \in ToConsumers /\ R!StartConsumer(k).k = k /\ IsLive(R!StartConsumer(k))
<1>1. CASE consumerChannel = None
  BY <1>1, GetConnectionIs DEF R!StartConsumer
<1>2. CASE consumerChannel # None
  <2>1. PICK s : s = [pc |-> "consume", k |-> k, ch |-> consumerChannel]
    OBVIOUS
  <2>2. consumerChannel \in R!Channels /\ consumerChannel.conn \in open
    BY <1>2, RabbitTypes DEF RestOK, R!VariablesAreLive
  <2>3. s \in ToConsumers /\ s.k = k /\ IsLive(s)
    BY <2>1, <2>2 DEF ToConsumers, IsLive
  <2>. QED BY <1>2, <2>1, <2>3 DEF R!StartConsumer
<1>. QED BY <1>1, <1>2

\* The outbox worker asks for its channel.
LEMMA RabbitOutboxCycle ==
    ASSUME RabbitInv, R!OutboxCycle
    PROVE  RabbitInv'
<1>1. PICK s : s = R!GetConnection("publisher", 0)
  OBVIOUS
<1>2. task' = [task EXCEPT !["outbox"] = s]
      /\ UNCHANGED <<connection, publisherChannel, consumerChannel, reconnectTimer, isRecovering,
                     registered, open, consuming, connectionCloses, connectFailures, channelCloses,
                     strained>>
  BY <1>1 DEF R!OutboxCycle, R!Goes, R!variables, R!timers, R!faults
<1>3. s \in Works("outbox") /\ IsLive(s)' /\ "outbox" \in R!Tasks
  BY <1>1, <1>2, GetConnectionIs DEF Works, R!Tasks, IsLive
<1>4. RestOK'
  BY <1>2, RabbitTypes DEF RestOK, R!VariablesAreLive
<1>5. R!Foreseen' => R!Foreseen /\ OnTheWay
  BY <1>2 DEF R!Foreseen, RabbitInv
<1>6. R!Foreseen' => /\ ~(isRecovering' /\ reconnectTimer')
                     /\ (registered /\ (isRecovering \/ reconnectTimer) => Covered(4)')
  BY <1>2, <1>5 DEF OnTheWay, Covered
<1>. QED BY <1>2, <1>3, <1>4, <1>5, <1>6, TaskGoes

\* The timer starts a recovery, unless one is running.
LEMMA RabbitTimerFires ==
    ASSUME RabbitInv, R!TimerFires
    PROVE  RabbitInv'
<1>1. PICK s : s = IF isRecovering THEN task["recovery"] ELSE R!GetConnection("recovery", 0)
  OBVIOUS
<1>2. /\ reconnectTimer /\ reconnectTimer' = FALSE
      /\ UNCHANGED <<connection, publisherChannel, consumerChannel, registered, open, consuming,
                     connectionCloses, connectFailures, channelCloses, strained>>
  BY DEF R!TimerFires, R!variables, R!faults
<1>3. task' = [task EXCEPT !["recovery"] = s] /\ isRecovering' = TRUE
  <2>1. CASE isRecovering
    BY <1>1, <2>1, RabbitTypes DEF R!TimerFires
  <2>2. CASE ~isRecovering
    BY <1>1, <2>2 DEF R!TimerFires, R!Goes
  <2>. QED BY <2>1, <2>2
<1>4. s \in Works("recovery") /\ IsLive(s) /\ s # R!Idle /\ "recovery" \in R!Tasks
  <2>1. CASE isRecovering
    BY <1>1, <2>1, RabbitTypes DEF RabbitInv, R!Tasks
  <2>2. CASE ~isRecovering
    BY <1>1, <2>2, GetConnectionIs, WorksTypes DEF Works, R!Tasks
  <2>. QED BY <2>1, <2>2
<1>5. IsLive(s)'
  BY <1>2, <1>4 DEF IsLive
<1>6. RestOK'
  BY <1>2, RabbitTypes DEF RestOK, R!VariablesAreLive
<1>7. R!Foreseen' => R!Foreseen /\ OnTheWay
  BY <1>2 DEF R!Foreseen, RabbitInv
<1>8. ASSUME R!Foreseen', s \in ToConsumers PROVE FALSE
  <2>1. ~isRecovering
    BY <1>2, <1>7, <1>8 DEF OnTheWay
  <2>. QED BY <1>1, <1>8, <2>1, GetConnectionIs, WorksTypes
<1>9. Covered(4)'
  BY <1>3 DEF Covered
<1>. QED BY <1>2, <1>3, <1>4, <1>5, <1>6, <1>7, <1>8, <1>9, TaskGoes

\* What a task awaits.
LEMMA Awaits ==
    ASSUME RabbitInv, NEW t \in R!Tasks
    PROVE  /\ task[t].pc = "connect" => \/ task[t] \in ToConsumers /\ t # "outbox"
                                        \/ task[t].want # "consumer" /\ task[t].k = 0
                                           /\ task[t] \notin ToConsumers
           /\ task[t].pc = "channel" =>
                 /\ task[t].on \in R!Connections \cup {None}
                 /\ \/ task[t] \in ToConsumers /\ t # "outbox" /\ task[t].want = "consumer"
                    \/ task[t].want # "consumer" /\ task[t].k = 0 /\ task[t] \notin ToConsumers
           /\ task[t].pc = "topology" => t # "outbox" /\ task[t].on \in R!Connections \cup {None}
           /\ task[t].pc = "consume" => /\ t # "outbox" /\ task[t] \in ToConsumers
                                        /\ task[t].ch \in R!Channels \cup {None}
           /\ task[t] \in ToConsumers => task[t].k \in R!Consumers
           /\ task[t].pc \in {"connect", "channel", "topology", "consume"} => task[t] # R!Idle
<1>1. PICK s : s = task[t]
  OBVIOUS
<1>2. s \in Works(t)
  BY <1>1 DEF RabbitInv
<1>3. s \in {R!Idle, R!Exited, R!Done} \cup Setup("publisher") \cup Setup("recovery") \cup ToTopology \cup ToConsumers
      /\ (t = "outbox" => s \in {R!Idle} \cup Setup("publisher"))
  BY <1>2 DEF Works, R!Tasks
<1>4. CASE s \in {R!Idle, R!Exited, R!Done}
  BY <1>1, <1>4 DEF R!Idle, R!Exited, R!Done, ToConsumers
<1>5. CASE s \in Setup("publisher") \cup Setup("recovery")
  BY <1>1, <1>5 DEF Setup, R!Idle, ToConsumers
<1>6. CASE s \in ToTopology
  BY <1>1, <1>3, <1>6 DEF Setup, ToTopology, R!Idle, ToConsumers
<1>7. CASE s \in ToConsumers
  <2>1. t # "outbox"
    BY <1>3, <1>7, WorksTypes
  <2>. QED BY <1>1, <1>7, <2>1 DEF ToConsumers, R!Idle
<1>. QED BY <1>3, <1>4, <1>5, <1>6, <1>7

\* A connection opens, under a name no open one has.
LEMMA RabbitConnect ==
    ASSUME RabbitInv, NEW t \in R!Tasks, R!Connect(t)
    PROVE  RabbitInv'
<1>1. PICK c, o : c = R!FreshConn /\ o = task[t]
  OBVIOUS
<1>2. PICK s : s = [pc |-> "channel", want |-> o.want, k |-> o.k, on |-> c]
  OBVIOUS
<1>3. /\ o.pc = "connect" /\ open' = open \cup {c} /\ connection' = c
      /\ task' = [task EXCEPT ![t] = s]
      /\ UNCHANGED <<publisherChannel, consumerChannel, reconnectTimer, isRecovering, registered,
                     consuming, connectionCloses, connectFailures, channelCloses, strained>>
  BY <1>1, <1>2 DEF R!Connect, R!At, R!Goes, R!timers, R!faults
<1>4. c \in R!Connections
  BY <1>1, NamesAreFresh
<1>5. o \in Works(t)
  BY <1>1 DEF RabbitInv
<1>6. /\ \A w : o \in Setup(w) => s \in Setup(w)
      /\ (o \in ToConsumers <=> s \in ToConsumers) /\ s.k = o.k
      /\ o \notin {R!Idle, R!Exited, R!Done} \cup ToTopology
      /\ s \notin {R!Idle, R!Exited, R!Done}
  <2>1. s.pc = "channel" /\ s.want = o.want /\ s.k = o.k /\ s.on = c
    BY <1>2
  <2>2. ASSUME NEW w, o \in Setup(w) PROVE s \in Setup(w)
    <3>1. o.want = w /\ o.k = 0
      BY <2>2 DEF Setup
    <3>. QED BY <1>2, <1>4, <3>1 DEF Setup
  <2>3. ASSUME o \in ToConsumers PROVE s \in ToConsumers
    <3>1. o.want = "consumer" /\ o.k \in R!Consumers
      BY <1>3, <2>3 DEF ToConsumers
    <3>. QED BY <1>2, <1>4, <3>1 DEF ToConsumers
  <2>4. ASSUME s \in ToConsumers PROVE o \in ToConsumers
    <3>1. s.want = "consumer"
      BY <2>1, <2>4 DEF ToConsumers
    <3>2. o.want = "consumer"
      BY <2>1, <3>1
    <3>3. \/ task[t] \in ToConsumers
          \/ task[t].want # "consumer"
      BY <1>1, <1>3, Awaits
    <3>. QED BY <1>1, <3>2, <3>3
  <2>5. o \notin {R!Idle, R!Exited, R!Done} \cup ToTopology
    BY <1>3 DEF ToTopology, R!Idle, R!Exited, R!Done
  <2>6. s \notin {R!Idle, R!Exited, R!Done}
    BY <2>1 DEF R!Idle, R!Exited, R!Done
  <2>. QED BY <2>1, <2>2, <2>3, <2>4, <2>5, <2>6
<1>7. s \in Works(t)
  BY <1>5, <1>6 DEF Works, R!Tasks
<1>8. IsLive(s)'
  BY <1>2, <1>3 DEF IsLive
<1>9. RestOK'
  <2>1. IsFiniteSet(open')
    BY <1>3, RabbitTypes, FS_AddElement DEF RestOK
  <2>. QED BY <1>3, <1>4, <2>1, RabbitTypes DEF RestOK, R!VariablesAreLive
<1>10. R!Foreseen' => R!Foreseen /\ OnTheWay
  BY <1>3 DEF R!Foreseen, RabbitInv
<1>11. o # R!Idle /\ (t = "recovery" => isRecovering' = (s # R!Idle))
  BY <1>1, <1>3, <1>6, RabbitTypes
<1>12. t = "startup" /\ s \in ToConsumers \cup {R!Done} => registered'
  BY <1>1, <1>3, <1>6 DEF RabbitInv
<1>13. R!Foreseen' =>
         /\ ~(isRecovering' /\ reconnectTimer')
         /\ consuming \subseteq consuming'
         /\ t = "recovery" /\ s \in ToConsumers => Before(s.k)'
         /\ t = "startup" /\ s \in ToConsumers => Covered(s.k)'
         /\ t # "startup" /\ registered /\ (isRecovering \/ reconnectTimer) => Covered(4)'
  BY <1>1, <1>3, <1>6, <1>10 DEF OnTheWay, Covered, Before
<1>. QED BY <1>3, <1>6, <1>7, <1>8, <1>9, <1>10, <1>11, <1>12, <1>13, TaskGoes

\* An await rejects.
LEMMA RabbitFail ==
    ASSUME RabbitInv, NEW t \in R!Tasks, R!Fail(t),
           task[t].pc \in {"connect", "channel", "topology", "consume"},
           connectFailures' \in 0..MaxConnectFailures,
           UNCHANGED <<registered, open, consuming, connectionCloses, channelCloses, strained>>
    PROVE  RabbitInv'
<1>1. R!Foreseen' => R!Foreseen /\ OnTheWay
  BY DEF R!Foreseen, RabbitInv
<1>2. CASE t = "startup"
  <2>1. /\ task' = [task EXCEPT ![t] = R!Exited]
        /\ UNCHANGED <<connection, publisherChannel, consumerChannel, reconnectTimer, isRecovering>>
    BY <1>2 DEF R!Fail, R!Goes, R!variables, R!timers
  <2>2. R!Exited \in Works(t) /\ R!Exited \notin ToConsumers \cup {R!Done} /\ IsLive(R!Exited)'
    BY <1>2, WorksTypes DEF Works, IsLive, R!Exited
  <2>3. RestOK'
    BY <2>1, RabbitTypes DEF RestOK, R!VariablesAreLive
  <2>4. R!Foreseen' => ~(isRecovering' /\ reconnectTimer')
    BY <1>1, <2>1 DEF OnTheWay
  <2>. QED BY <1>1, <1>2, <2>1, <2>2, <2>3, <2>4, TaskGoes
<1>3. CASE t = "outbox"
  <2>1. /\ task' = [task EXCEPT ![t] = R!Idle]
        /\ UNCHANGED <<connection, publisherChannel, consumerChannel, reconnectTimer, isRecovering>>
    BY <1>3 DEF R!Fail, R!Goes, R!variables, R!timers
  <2>2. R!Idle \in Works(t) /\ R!Idle \notin ToConsumers /\ IsLive(R!Idle)'
    BY <1>3, WorksTypes DEF Works, IsLive, R!Idle
  <2>3. RestOK'
    BY <2>1, RabbitTypes DEF RestOK, R!VariablesAreLive
  <2>4. R!Foreseen' => /\ ~(isRecovering' /\ reconnectTimer')
                       /\ (registered /\ (isRecovering \/ reconnectTimer) => Covered(4)')
    BY <1>1, <2>1 DEF OnTheWay, Covered
  <2>. QED BY <1>1, <1>3, <2>1, <2>2, <2>3, <2>4, TaskGoes
<1>4. CASE t = "recovery"
  <2>1. /\ task' = [task EXCEPT ![t] = R!Idle]
        /\ connection' = None /\ publisherChannel' = None /\ consumerChannel' = None
        /\ reconnectTimer' = TRUE /\ isRecovering' = FALSE
    BY <1>4 DEF R!Fail, R!Goes, R!Forget, R!ScheduleReconnect
  <2>2. R!Idle \in Works(t) /\ R!Idle \notin ToConsumers /\ IsLive(R!Idle)'
    BY <1>4, WorksTypes DEF Works, IsLive, R!Idle
  <2>3. RestOK'
    BY <2>1, RabbitTypes DEF RestOK, R!VariablesAreLive
  <2>4. Covered(4)'
    BY <2>1 DEF Covered
  <2>. QED BY <1>1, <1>4, <2>1, <2>2, <2>3, <2>4, TaskGoes
<1>. QED BY <1>2, <1>3, <1>4 DEF R!Tasks

\* An attempt to connect fails.
LEMMA RabbitConnectFails ==
    ASSUME RabbitInv, NEW t \in R!Tasks, R!ConnectFails(t)
    PROVE  RabbitInv'
<1>1. connectFailures < MaxConnectFailures /\ connectFailures' = connectFailures + 1
      /\ task[t].pc = "connect" /\ R!Fail(t)
      /\ UNCHANGED <<registered, open, consuming, connectionCloses, channelCloses, strained>>
  BY DEF R!ConnectFails, R!At
<1>2. connectFailures' \in 0..MaxConnectFailures
  BY <1>1, RabbitTypes, MessagingConstants DEF RestOK, R!RabbitConnectionConstants
<1>. QED BY <1>1, <1>2, RabbitFail

\* What has closed rejects what is asked of it.
LEMMA RabbitRejected ==
    ASSUME RabbitInv, NEW t \in R!Tasks, R!Rejected(t)
    PROVE  RabbitInv'
<1>1. task[t].pc \in {"channel", "topology", "consume"} /\ R!Fail(t)
      /\ UNCHANGED <<registered, open, consuming, connectionCloses, connectFailures, channelCloses,
                     strained>>
  BY DEF R!Rejected, R!At, R!faults
<1>. QED BY <1>1, RabbitFail, RabbitTypes DEF RestOK

\* A channel opens on a connection that is still open.
LEMMA RabbitOpenChannel ==
    ASSUME RabbitInv, NEW t \in R!Tasks, R!OpenChannel(t)
    PROVE  RabbitInv'
<1>1. PICK o, c : o = task[t] /\ c = o.on
  OBVIOUS
<1>2. /\ o.pc = "channel" /\ c # None
      /\ UNCHANGED <<connection, reconnectTimer, isRecovering, registered, open, consuming,
                     connectionCloses, connectFailures, channelCloses, strained>>
  BY <1>1 DEF R!OpenChannel, R!At, R!timers, R!faults
<1>3. c \in R!Connections /\ c \in open /\ o # R!Idle
  <2>1. o.on \in R!Connections \cup {None} /\ o # R!Idle
    BY <1>1, <1>2, Awaits
  <2>. QED BY <1>1, <1>2, <2>1 DEF RabbitInv, IsLive
<1>4. R!Foreseen' => R!Foreseen /\ OnTheWay
  BY <1>2 DEF R!Foreseen, RabbitInv
<1>5. t = "recovery" => isRecovering = TRUE
  BY <1>1, <1>3, RabbitTypes
<1>6. CASE o.want = "consumer"
  <2>1. PICK ch : ch = R!NewChannel(c)
    OBVIOUS
  <2>2. PICK s : s = [pc |-> "consume", k |-> o.k, ch |-> ch]
    OBVIOUS
  <2>3. consumerChannel' = ch /\ task' = [task EXCEPT ![t] = s] /\ UNCHANGED publisherChannel
    BY <1>1, <1>6, <2>1, <2>2 DEF R!OpenChannel, R!Goes
  <2>4. ch \in R!Channels /\ ch.conn = c /\ ch # None
    BY <1>3, <2>1, NamesAreFresh, MessagingConstants DEF R!RabbitConnectionConstants
  <2>5. o \in ToConsumers /\ t # "outbox"
    BY <1>1, <1>2, <1>6, Awaits
  <2>6. s \in ToConsumers /\ s.k = o.k /\ s # R!Idle /\ s # R!Done
    <3>1. o.k \in R!Consumers
      BY <1>1, <2>5, Awaits
    <3>. QED BY <2>2, <2>4, <3>1 DEF ToConsumers, R!Idle, R!Done
  <2>7. s \in Works(t)
    BY <2>5, <2>6 DEF Works, R!Tasks
  <2>8. IsLive(s)'
    BY <1>2, <1>3, <2>2, <2>4 DEF IsLive
  <2>9. RestOK'
    BY <1>2, <1>3, <2>3, <2>4, RabbitTypes DEF RestOK, R!VariablesAreLive
  <2>10. t = "startup" => registered'
    BY <1>1, <1>2, <2>5 DEF RabbitInv
  <2>11. R!Foreseen' =>
           /\ ~(isRecovering' /\ reconnectTimer')
           /\ t = "recovery" => Before(s.k)'
           /\ t = "startup" => Covered(s.k)'
           /\ (registered /\ (isRecovering \/ reconnectTimer) => Covered(4)')
    BY <1>1, <1>2, <1>4, <2>5, <2>6 DEF OnTheWay, Covered, Before
  <2>. QED BY <1>2, <1>4, <1>5, <2>3, <2>6, <2>7, <2>8, <2>9, <2>10, <2>11, TaskGoes
<1>7. CASE o.want # "consumer"
  <2>1. PICK s : s = IF t = "outbox" THEN R!Idle ELSE [pc |-> "topology", on |-> c]
    OBVIOUS
  <2>2. publisherChannel' = c /\ task' = [task EXCEPT ![t] = s] /\ UNCHANGED consumerChannel
    BY <1>1, <1>7, <2>1 DEF R!OpenChannel, R!Goes
  <2>3. (t = "outbox" => s = R!Idle) /\ (t # "outbox" => s \in ToTopology /\ s # R!Idle)
    BY <1>3, <2>1 DEF ToTopology, R!Idle
  <2>4. s \in Works(t)
    BY <2>3 DEF Works, R!Tasks
  <2>5. s \notin ToConsumers \cup {R!Done}
    BY <2>3, WorksTypes
  <2>6. IsLive(s)'
    BY <1>2, <1>3, <2>1 DEF IsLive, R!Idle
  <2>7. RestOK'
    BY <1>2, <1>3, <2>2, RabbitTypes DEF RestOK, R!VariablesAreLive
  <2>8. R!Foreseen' => /\ ~(isRecovering' /\ reconnectTimer')
                       /\ (registered /\ (isRecovering \/ reconnectTimer) => Covered(4)')
    BY <1>2, <1>4 DEF OnTheWay, Covered
  <2>. QED BY <1>2, <1>4, <1>5, <2>2, <2>3, <2>4, <2>5, <2>6, <2>7, <2>8, TaskGoes
<1>. QED BY <1>6, <1>7

\* The topology is there: the first consumer is next, if the recovery knows
\* that there are consumers to start.
LEMMA RabbitSetTopology ==
    ASSUME RabbitInv, NEW t \in R!Tasks, R!SetTopology(t)
    PROVE  RabbitInv'
<1>1. /\ task[t].pc = "topology" /\ registered' = (registered \/ t = "startup")
      /\ reconnectTimer' = reconnectTimer
      /\ UNCHANGED <<connection, publisherChannel, consumerChannel, open, consuming,
                     connectionCloses, connectFailures, channelCloses, strained>>
  BY DEF R!SetTopology, R!At, R!variables, R!timers, R!faults
<1>2. t # "outbox" /\ task[t] # R!Idle
  BY <1>1, Awaits
<1>3. R!Foreseen' => R!Foreseen /\ OnTheWay
  BY <1>1 DEF R!Foreseen, RabbitInv
<1>4. RestOK'
  BY <1>1, RabbitTypes DEF RestOK, R!VariablesAreLive
<1>5. t = "recovery" => isRecovering = TRUE
  BY <1>2, RabbitTypes
<1>6. CASE registered'
  <2>1. PICK s : s = R!StartConsumer(1)
    OBVIOUS
  <2>2. task' = [task EXCEPT ![t] = s] /\ isRecovering' = isRecovering
    BY <1>6, <2>1 DEF R!SetTopology, R!Goes, R!timers
  <2>3. s \in ToConsumers /\ s.k = 1 /\ IsLive(s)
    BY <2>1, StartConsumerIs DEF R!Consumers
  <2>4. s \in Works(t) /\ s # R!Idle /\ s # R!Done
    BY <1>2, <2>3, WorksTypes DEF Works, R!Tasks
  <2>5. IsLive(s)'
    BY <1>1, <2>3 DEF IsLive
  <2>6. Before(s.k)' /\ Covered(s.k)'
    BY <2>3 DEF Before, Covered, R!Consumers
  <2>7. R!Foreseen' => /\ ~(isRecovering' /\ reconnectTimer')
                       /\ (registered /\ (isRecovering \/ reconnectTimer) => Covered(4)')
    BY <1>1, <1>3, <2>2 DEF OnTheWay, Covered
  <2>. QED BY <1>1, <1>3, <1>4, <1>5, <1>6, <2>2, <2>4, <2>5, <2>6, <2>7, TaskGoes
<1>7. CASE ~registered'
  <2>1. t = "recovery"
    BY <1>1, <1>2, <1>7 DEF R!Tasks
  <2>2. task' = [task EXCEPT ![t] = R!Idle] /\ isRecovering' = FALSE
    BY <1>7 DEF R!SetTopology, R!Goes
  <2>3. R!Idle \in Works(t) /\ R!Idle \notin ToConsumers /\ IsLive(R!Idle)'
    BY <2>1, WorksTypes DEF Works, IsLive, R!Idle
  <2>4. ~registered
    BY <1>1, <1>7
  <2>. QED BY <1>1, <1>3, <1>4, <2>1, <2>2, <2>3, <2>4, TaskGoes
<1>. QED BY <1>6, <1>7

\* A consumer is subscribed, and the next is started if there is one.
LEMMA RabbitConsume ==
    ASSUME RabbitInv, NEW t \in R!Tasks, R!Consume(t)
    PROVE  RabbitInv'
<1>1. PICK o, k, ch : o = task[t] /\ k = o.k /\ ch = o.ch
  OBVIOUS
<1>2. /\ o.pc = "consume" /\ ch # None /\ consuming' = consuming \cup {<<k, ch>>}
      /\ UNCHANGED <<connection, publisherChannel, consumerChannel, reconnectTimer, registered,
                     open, connectionCloses, connectFailures, channelCloses, strained>>
  BY <1>1 DEF R!Consume, R!At, R!variables, R!faults
<1>3. t # "outbox" /\ o \in ToConsumers /\ ch \in R!Channels /\ k \in R!Consumers /\ o # R!Idle
  BY <1>1, <1>2, Awaits
<1>4. R!Foreseen' => R!Foreseen /\ OnTheWay
  BY <1>2 DEF R!Foreseen, RabbitInv
<1>5. RestOK'
  <2>1. IsFiniteSet(consuming')
    BY <1>2, RabbitTypes, FS_AddElement DEF RestOK
  <2>. QED BY <1>2, <1>3, <2>1, RabbitTypes DEF RestOK, R!VariablesAreLive
<1>6. PICK n : n = k + 1
  OBVIOUS
<1>7. Before(k) => Before(n)'
  <2>1. <<k, ch>> \in consuming' /\ <<k, ch>>[1] = k
    BY <1>2
  <2>2. \A j \in R!Consumers : j < n => j < k \/ j = k
    BY <1>3, <1>6 DEF R!Consumers
  <2>. QED BY <1>2, <2>1, <2>2 DEF Before
<1>8. t = "recovery" => isRecovering = TRUE
  BY <1>1, <1>3, RabbitTypes
<1>9. R!Foreseen' => /\ ~(isRecovering /\ reconnectTimer)
                     /\ t = "recovery" => Before(n)'
                     /\ t = "startup" => Before(n)' \/ isRecovering \/ reconnectTimer
  BY <1>1, <1>3, <1>4, <1>7 DEF OnTheWay, Covered
<1>10. t = "startup" => registered'
  BY <1>1, <1>2, <1>3 DEF RabbitInv
<1>11. CASE n \in R!Consumers
  <2>1. PICK s : s = R!StartConsumer(n)
    OBVIOUS
  <2>2. task' = [task EXCEPT ![t] = s] /\ isRecovering' = isRecovering
    BY <1>1, <1>6, <1>11, <2>1 DEF R!Consume, R!Goes
  <2>3. s \in ToConsumers /\ s.k = n /\ IsLive(s)
    BY <1>11, <2>1, StartConsumerIs
  <2>4. s \in Works(t) /\ s # R!Idle /\ s # R!Done
    BY <1>3, <2>3, WorksTypes DEF Works, R!Tasks
  <2>5. IsLive(s)'
    BY <1>2, <2>3 DEF IsLive
  <2>6. R!Foreseen' => /\ ~(isRecovering' /\ reconnectTimer')
                       /\ t = "recovery" => Before(s.k)'
                       /\ t = "startup" => Covered(s.k)'
                       /\ (registered /\ (isRecovering \/ reconnectTimer) => Covered(4)')
    BY <1>2, <1>9, <2>2, <2>3 DEF Covered
  <2>. QED BY <1>2, <1>4, <1>5, <1>8, <1>10, <2>2, <2>4, <2>5, <2>6, TaskGoes
<1>12. CASE n \notin R!Consumers
  <2>1. n = 4
    BY <1>3, <1>6, <1>12 DEF R!Consumers
  <2>2. CASE t = "startup"
    <3>1. task' = [task EXCEPT ![t] = R!Done] /\ isRecovering' = isRecovering
      BY <1>1, <1>6, <1>12, <2>2 DEF R!Consume, R!Goes
    <3>2. R!Done \in Works(t) /\ R!Done \notin ToConsumers /\ IsLive(R!Done)'
      BY <2>2, WorksTypes DEF Works, IsLive, R!Done
    <3>3. R!Foreseen' => /\ ~(isRecovering' /\ reconnectTimer')
                         /\ Covered(4)'
      BY <1>2, <1>9, <2>1, <2>2, <3>1 DEF Covered
    <3>. QED BY <1>2, <1>4, <1>5, <1>10, <2>2, <3>1, <3>2, <3>3, TaskGoes
  <2>3. CASE t # "startup"
    <3>1. t = "recovery"
      BY <1>3, <2>3 DEF R!Tasks
    <3>2. task' = [task EXCEPT ![t] = R!Idle] /\ isRecovering' = FALSE
      BY <1>1, <1>6, <1>12, <3>1 DEF R!Consume, R!Goes
    <3>3. R!Idle \in Works(t) /\ R!Idle \notin ToConsumers /\ IsLive(R!Idle)'
      BY <3>1, WorksTypes DEF Works, IsLive, R!Idle
    <3>4. R!Foreseen' => Covered(4)'
      BY <1>9, <2>1, <3>1 DEF Covered
    <3>. QED BY <1>2, <1>4, <1>5, <3>1, <3>2, <3>3, <3>4, TaskGoes
  <2>. QED BY <2>2, <2>3
<1>. QED BY <1>11, <1>12

\* State r is s after what s holds has closed.
Loses(s, r) ==
    \/ r = s
    \/ s.pc \in {"channel", "topology"} /\ r = [s EXCEPT !.on = None]
    \/ s.pc = "consume" /\ r = [s EXCEPT !.ch = None]

\* It is the same work.
LEMMA LosesKeeps ==
    ASSUME NEW t \in R!Tasks, NEW s \in Works(t), NEW r, Loses(s, r)
    PROVE  /\ r \in Works(t)
           /\ r \in ToConsumers <=> s \in ToConsumers
           /\ s \in ToConsumers => r.k = s.k
           /\ r = R!Idle <=> s = R!Idle
           /\ r = R!Done <=> s = R!Done
<1>1. s \in {R!Idle, R!Exited, R!Done} \cup Setup("publisher") \cup Setup("recovery") \cup ToTopology \cup ToConsumers
  BY DEF Works, R!Tasks
<1>2. CASE s \in {R!Idle, R!Exited, R!Done}
  <2>1. r = s
    BY <1>2 DEF Loses, R!Idle, R!Exited, R!Done
  <2>. QED BY <2>1
<1>3. ASSUME NEW w \in {"publisher", "recovery"}, s \in Setup(w) PROVE r \in Setup(w)
  BY <1>3 DEF Setup, Loses
<1>4. s \in ToTopology => r \in ToTopology
  BY DEF ToTopology, Loses
<1>5. ASSUME s \in ToConsumers PROVE r \in ToConsumers /\ r.k = s.k
  <2>1. CASE s \in [pc : {"connect"}, want : {"consumer"}, k : R!Consumers]
    BY <2>1 DEF ToConsumers, Loses
  <2>2. CASE s \in [pc : {"channel"}, want : {"consumer"}, k : R!Consumers, on : R!Connections \cup {None}]
    BY <2>2 DEF ToConsumers, Loses
  <2>3. CASE s \in [pc : {"consume"}, k : R!Consumers, ch : R!Channels \cup {None}]
    BY <2>3 DEF ToConsumers, Loses
  <2>. QED BY <1>5, <2>1, <2>2, <2>3 DEF ToConsumers
<1>6. CASE s \in Setup("publisher") \cup Setup("recovery")
  <2>1. PICK w \in {"publisher", "recovery"} : s \in Setup(w) /\ r \in Setup(w)
    BY <1>3, <1>6
  <2>2. \A x \in Setup(w) : /\ x \notin {R!Idle, R!Exited, R!Done} /\ x \notin ToConsumers
    BY WorksTypes
  <2>3. r \in Works(t)
    <3>1. CASE t = "startup"
      <4>1. r \in Setup("publisher")
        <5>1. s \in Works("startup") /\ s \notin {R!Exited, R!Done} \cup ToTopology \cup ToConsumers
          BY <2>1, <2>2, <3>1, WorksTypes
        <5>2. s \in Setup("publisher")
          BY <5>1 DEF Works
        <5>. QED BY <1>3, <5>2
      <4>. QED BY <3>1, <4>1 DEF Works
    <3>2. CASE t = "recovery"
      <4>1. r \in Setup("recovery")
        <5>1. s \in Works("recovery") /\ s \notin {R!Idle} \cup ToTopology \cup ToConsumers
          BY <2>1, <2>2, <3>2, WorksTypes
        <5>2. s \in Setup("recovery")
          BY <5>1 DEF Works
        <5>. QED BY <1>3, <5>2
      <4>. QED BY <3>2, <4>1 DEF Works
    <3>3. CASE t = "outbox"
      <4>1. s \in Setup("publisher")
        BY <2>1, <2>2, <3>3 DEF Works
      <4>. QED BY <1>3, <3>3, <4>1 DEF Works
    <3>. QED BY <3>1, <3>2, <3>3 DEF R!Tasks
  <2>. QED BY <2>1, <2>2, <2>3
<1>7. CASE s \in ToTopology
  <2>1. t # "outbox"
    BY <1>7, WorksTypes DEF Works
  <2>2. r \in Works(t)
    BY <1>4, <1>7, <2>1 DEF Works, R!Tasks
  <2>. QED BY <1>4, <1>7, <2>2, WorksTypes
<1>8. CASE s \in ToConsumers
  <2>1. t # "outbox"
    BY <1>8, WorksTypes DEF Works
  <2>2. r \in Works(t)
    BY <1>5, <1>8, <2>1 DEF Works, R!Tasks
  <2>. QED BY <1>5, <1>8, <2>2, WorksTypes
<1>. QED BY <1>1, <1>2, <1>6, <1>7, <1>8

\* A close: every task goes on with its work, or will be rejected.
LEMMA ClosesKeep ==
    ASSUME RabbitInv, RestOK',
           DOMAIN task' = R!Tasks, task' = [t \in R!Tasks |-> task'[t]],
           \A t \in R!Tasks : Loses(task[t], task'[t]) /\ IsLive(task[t])',
           UNCHANGED <<isRecovering, registered>>,
           R!Foreseen' => ~isRecovering /\ reconnectTimer'
    PROVE  RabbitInv'
<1>1. ASSUME NEW t \in R!Tasks
      PROVE  /\ task'[t] \in Works(t) /\ task'[t] \in R!TaskStates
             /\ task'[t] \in ToConsumers <=> task[t] \in ToConsumers
             /\ task'[t] = R!Idle <=> task[t] = R!Idle
             /\ task'[t] = R!Done <=> task[t] = R!Done
  <2>1. task[t] \in Works(t) /\ Loses(task[t], task'[t])
    BY DEF RabbitInv
  <2>2. PICK s, r : s = task[t] /\ r = task'[t]
    OBVIOUS
  <2>3. /\ r \in Works(t)
        /\ r \in ToConsumers <=> s \in ToConsumers
        /\ r = R!Idle <=> s = R!Idle
        /\ r = R!Done <=> s = R!Done
    BY <2>1, <2>2, LosesKeeps
  <2>. QED BY <2>2, <2>3, WorksTypes
<1>2. task' \in [R!Tasks -> R!TaskStates]
  BY <1>1
<1>3. isRecovering' = (task'["recovery"] # R!Idle)
  BY <1>1, RabbitTypes DEF R!Tasks
<1>4. R!TypeOK'
  BY <1>2, <1>3 DEF R!TypeOK, RestOK
<1>5. task'["startup"] \in ToConsumers \cup {R!Done} => registered'
  BY <1>1 DEF RabbitInv, R!Tasks
<1>6. ASSUME R!Foreseen' PROVE OnTheWay'
  <2>0. ~isRecovering' /\ reconnectTimer'
    BY <1>6
  <2>3. task'["recovery"] = R!Idle
    BY <1>3, <2>0
  <2>1. task'["recovery"] \notin ToConsumers /\ ~isRecovering' /\ reconnectTimer'
    BY <2>0, <2>3, WorksTypes
  <2>2. \A k : Covered(k)'
    BY <2>1 DEF Covered
  <2>. QED BY <2>1, <2>2 DEF OnTheWay
<1>. QED BY <1>1, <1>4, <1>5, <1>6 DEF RabbitInv, RestOK

\* A connection closes, the current one or another.
LEMMA RabbitClose ==
    ASSUME RabbitInv, NEW c \in open, R!Close(c)
    PROVE  RabbitInv'
<1>1. /\ connectionCloses < MaxConnectionCloses /\ connectionCloses' = connectionCloses + 1
      /\ strained' = isRecovering /\ open' = open \ {c}
      /\ consuming' = {s \in consuming : s[2].conn # c}
      /\ task' = [t \in R!Tasks |-> R!Lost(task[t], c)]
      /\ connection' = None /\ publisherChannel' = None /\ consumerChannel' = None
      /\ reconnectTimer' = TRUE
      /\ UNCHANGED <<isRecovering, registered, connectFailures, channelCloses>>
  BY DEF R!Close, R!Forget, R!ScheduleReconnect
<1>2. ASSUME NEW t \in R!Tasks PROVE Loses(task[t], task'[t]) /\ IsLive(task[t])'
  <2>1. PICK s, r : s = task[t] /\ r = task'[t]
    OBVIOUS
  <2>2. r = R!Lost(s, c) /\ IsLive(s) /\ s \in R!TaskStates
    BY <1>1, <2>1, RabbitTypes DEF RabbitInv
  <2>3. CASE s.pc \in {"channel", "topology"} /\ s.on = c
    <3>1. r = [s EXCEPT !.on = None] /\ r.pc = s.pc /\ r.on = None
      BY <2>2, <2>3 DEF R!Lost, R!TaskStates, R!Idle, R!Exited, R!Done
    <3>. QED BY <2>1, <2>3, <3>1 DEF Loses, IsLive
  <2>4. CASE s.pc = "consume" /\ s.ch # None /\ s.ch.conn = c
    <3>1. r = [s EXCEPT !.ch = None] /\ r.pc = s.pc /\ r.ch = None
      BY <2>2, <2>4 DEF R!Lost, R!TaskStates, R!Idle, R!Exited, R!Done
    <3>. QED BY <2>1, <2>4, <3>1 DEF Loses, IsLive
  <2>5. CASE /\ ~(s.pc \in {"channel", "topology"} /\ s.on = c)
             /\ ~(s.pc = "consume" /\ s.ch # None /\ s.ch.conn = c)
    <3>1. r = s
      BY <2>2, <2>5 DEF R!Lost
    <3>. QED BY <1>1, <2>1, <2>2, <2>5, <3>1 DEF Loses, IsLive
  <2>. QED BY <2>3, <2>4, <2>5
<1>3. RestOK'
  <2>1. IsFiniteSet(open') /\ IsFiniteSet(consuming')
    BY <1>1, RabbitTypes, FS_Subset DEF RestOK
  <2>2. connectionCloses' \in 0..MaxConnectionCloses /\ strained' \in BOOLEAN
    BY <1>1, RabbitTypes, MessagingConstants DEF RestOK, R!RabbitConnectionConstants
  <2>. QED BY <1>1, <2>1, <2>2, RabbitTypes DEF RestOK, R!VariablesAreLive
<1>4. R!Foreseen' => ~isRecovering
  BY <1>1 DEF R!Foreseen
<1>. QED BY <1>1, <1>2, <1>3, <1>4, ClosesKeep

\* A channel closes alone: the recovery is not made for it.
LEMMA RabbitCloseChannel ==
    ASSUME RabbitInv, NEW ch \in R!InUse, R!CloseChannel(ch)
    PROVE  RabbitInv'
<1>1. /\ channelCloses < MaxChannelCloses /\ channelCloses' = channelCloses + 1
      /\ consumerChannel' = None /\ consuming' = {s \in consuming : s[2] # ch}
      /\ task' = [t \in R!Tasks |-> IF task[t].pc = "consume" /\ task[t].ch = ch
                                    THEN [task[t] EXCEPT !.ch = None] ELSE task[t]]
      /\ UNCHANGED <<connection, publisherChannel, reconnectTimer, isRecovering, registered, open,
                     connectionCloses, connectFailures>>
      /\ strained' = TRUE
  BY DEF R!CloseChannel, R!timers
<1>2. ASSUME NEW t \in R!Tasks PROVE Loses(task[t], task'[t]) /\ IsLive(task[t])'
  <2>1. PICK s, r : s = task[t] /\ r = task'[t]
    OBVIOUS
  <2>2. r = (IF s.pc = "consume" /\ s.ch = ch THEN [s EXCEPT !.ch = None] ELSE s)
        /\ IsLive(s) /\ s \in R!TaskStates
    BY <1>1, <2>1, RabbitTypes DEF RabbitInv
  <2>3. CASE s.pc = "consume" /\ s.ch = ch
    <3>1. r = [s EXCEPT !.ch = None] /\ r.pc = s.pc /\ r.ch = None
      BY <2>2, <2>3 DEF R!TaskStates, R!Idle, R!Exited, R!Done
    <3>. QED BY <2>1, <2>3, <3>1 DEF Loses, IsLive
  <2>4. CASE ~(s.pc = "consume" /\ s.ch = ch)
    BY <1>1, <2>1, <2>2, <2>4 DEF Loses, IsLive
  <2>. QED BY <2>3, <2>4
<1>3. RestOK'
  <2>1. IsFiniteSet(consuming')
    BY <1>1, RabbitTypes, FS_Subset DEF RestOK
  <2>2. channelCloses' \in 0..MaxChannelCloses
    BY <1>1, RabbitTypes, MessagingConstants DEF RestOK, R!RabbitConnectionConstants
  <2>. QED BY <1>1, <2>1, <2>2, RabbitTypes DEF RestOK, R!VariablesAreLive
<1>4. ~R!Foreseen'
  BY <1>1 DEF R!Foreseen
<1>. QED BY <1>1, <1>2, <1>3, <1>4, ClosesKeep

\* Every step of RabbitConnection.
LEMMA RabbitNext ==
    ASSUME RabbitInv, R!Next
    PROVE  RabbitInv'
BY RabbitOutboxCycle, RabbitTimerFires, RabbitConnect, RabbitConnectFails, RabbitOpenChannel,
   RabbitSetTopology, RabbitConsume, RabbitRejected, RabbitClose, RabbitCloseChannel
   DEF R!Next, R!Step

\* And steps of the other parts.
LEMMA RabbitRests ==
    ASSUME RabbitInv, UNCHANGED rabbit
    PROVE  RabbitInv'
<1>1. R!TypeOK'
  BY DEF rabbit, RabbitInv, R!TypeOK
<1>2. \A t \in R!Tasks : task'[t] \in Works(t) /\ IsLive(task[t])'
  BY DEF rabbit, RabbitInv, IsLive
<1>3. R!Foreseen' => OnTheWay'
  <2>1. \A k : Covered(k) => Covered(k)'
    BY DEF rabbit, Covered, Before
  <2>2. \A k : Before(k) => Before(k)'
    BY DEF rabbit, Before
  <2>3. ASSUME R!Foreseen' PROVE OnTheWay'
    <3>1. OnTheWay
      BY <2>3 DEF rabbit, RabbitInv, R!Foreseen
    <3>2. PICK k, n : k = task["recovery"].k /\ n = task["startup"].k
      OBVIOUS
    <3>. QED BY <2>1, <2>2, <3>1, <3>2 DEF rabbit, OnTheWay
  <2>. QED BY <2>3
<1>. QED BY <1>1, <1>2, <1>3 DEF rabbit, RabbitInv, R!VariablesAreLive

\* At the start the startup is about to connect.
LEMMA RabbitInit ==
    ASSUME R!Init
    PROVE  RabbitInv
<1>. USE DEF R!Init
<1>1. PICK s : s = [pc |-> "connect", want |-> "publisher", k |-> 0]
  OBVIOUS
<1>2. s \in Setup("publisher") /\ s \notin ToConsumers /\ s # R!Done
  BY <1>1 DEF Setup, ToConsumers, R!Done
<1>3. task["startup"] = s /\ task["recovery"] = R!Idle /\ task["outbox"] = R!Idle
  BY <1>1 DEF R!Tasks
<1>4. \A t \in R!Tasks : task[t] \in Works(t) /\ IsLive(task[t])
  <2>1. s \in Works("startup") /\ R!Idle \in Works("recovery") /\ R!Idle \in Works("outbox")
    BY <1>2 DEF Works
  <2>2. IsLive(s) /\ IsLive(R!Idle)
    BY <1>1 DEF IsLive, R!Idle
  <2>. QED BY <1>3, <2>1, <2>2 DEF R!Tasks
<1>5. task \in [R!Tasks -> R!TaskStates]
  <2>1. \A t \in R!Tasks : task[t] \in R!TaskStates
    BY <1>4, WorksTypes
  <2>. QED BY <2>1
<1>6. R!TypeOK
  <2>1. isRecovering = (task["recovery"] # R!Idle)
    BY <1>3
  <2>2. /\ connectionCloses \in 0..MaxConnectionCloses /\ connectFailures \in 0..MaxConnectFailures
        /\ channelCloses \in 0..MaxChannelCloses
    BY MessagingConstants DEF R!RabbitConnectionConstants
  <2>. QED BY <1>5, <2>1, <2>2 DEF R!TypeOK
<1>7. IsFiniteSet(open) /\ IsFiniteSet(consuming)
  BY FS_EmptySet
<1>8. OnTheWay
  BY <1>2, <1>3, WorksTypes DEF OnTheWay
<1>. QED BY <1>2, <1>3, <1>4, <1>6, <1>7, <1>8 DEF RabbitInv, R!VariablesAreLive

\* NobodyForgotten is that what the startup has passed is covered.
LEMMA NobodyIsForgotten == RabbitInv => R!NobodyForgotten
<1>1. ASSUME RabbitInv, R!Foreseen, task["startup"] = R!Done
      PROVE  R!AllConsume \/ isRecovering \/ reconnectTimer
  <2>1. Covered(4)
    BY <1>1 DEF RabbitInv, OnTheWay
  <2>2. Before(4) => R!AllConsume
    BY DEF Before, R!AllConsume, R!Consumers
  <2>. QED BY <2>1, <2>2 DEF Covered
<1>. QED BY <1>1 DEF R!NobodyForgotten, R!Starting

(***************************************************************************)
(* The parts side by side.                                                 *)
(***************************************************************************)
\* A step is a step of one part, or of none.
LEMMA MessagingSteps ==
    ASSUME [MessagingNext]_<<part, vars, delivery, rabbit>>
    PROVE  /\ D!Next \/ UNCHANGED delivery
           /\ [Next]_vars
           /\ R!Next \/ UNCHANGED rabbit
           /\ part' = part
BY DEF MessagingNext

PartOK == part \in {"delivery", "refund", "connection"}

MessagingInv == PartOK /\ DeliveryInv /\ TypeOK /\ RefundInv /\ RabbitInv

\* The invariants of the parts hold in every reachable state.
THEOREM MessagingInvariance == MessagingSpec => []MessagingInv
<1>1. MessagingInit => MessagingInv
  BY DeliveryInit, RefundInit, RabbitInit DEF MessagingInit, MessagingInv, PartOK
<1>2. MessagingInv /\ [MessagingNext]_<<part, vars, delivery, rabbit>> => MessagingInv'
  <2>. SUFFICES ASSUME MessagingInv, [MessagingNext]_<<part, vars, delivery, rabbit>>
                PROVE  MessagingInv'
    OBVIOUS
  <2>1. /\ D!Next \/ UNCHANGED delivery
        /\ [Next]_vars
        /\ R!Next \/ UNCHANGED rabbit
        /\ part' = part
    BY MessagingSteps
  <2>2. DeliveryInv'
    BY <2>1, DeliveryNext, DeliveryRests DEF MessagingInv
  <2>3. (TypeOK /\ RefundInv)'
    BY <2>1, RefundNext DEF MessagingInv
  <2>4. RabbitInv'
    BY <2>1, RabbitNext, RabbitRests DEF MessagingInv
  <2>. QED BY <2>1, <2>2, <2>3, <2>4 DEF MessagingInv, PartOK
<1>. QED BY <1>1, <1>2, PTL DEF MessagingSpec

\* Every variable of the queues, the refunds and the connection has its type.
THEOREM MessagingTypeCorrect == MessagingSpec => []TypesAreOK
<1>1. MessagingInv => TypesAreOK
  BY DEF MessagingInv, PartOK, DeliveryInv, RabbitInv, TypesAreOK
<1>. QED BY <1>1, MessagingInvariance, PTL

\* The queues and the consumers implement AtLeastOnce: whatever closes, dies or
\* is delivered again, a payment or refund event is handled or dead-lettered
\* before its last copy is gone.
THEOREM QueuesImplementAtLeastOnce == MessagingSpec => D!DeliversAtLeastOnce
<1>1. MessagingInit => D!Abstract!Init
  BY DeliveryInit DEF MessagingInit
<1>2. MessagingInv /\ [MessagingNext]_<<part, vars, delivery, rabbit>> => [D!Abstract!Next]_D!Abstract!vars
  <2>. SUFFICES ASSUME MessagingInv, [MessagingNext]_<<part, vars, delivery, rabbit>>
                PROVE  AbstractStep
    BY DEF AbstractStep, D!Abstract!vars
  <2>1. D!Next \/ UNCHANGED delivery
    BY MessagingSteps
  <2>. QED BY <2>1, DeliveryNext, DeliveryRests DEF MessagingInv, AbstractStep
<1>. QED BY <1>1, <1>2, MessagingInvariance, PTL DEF MessagingSpec, D!DeliversAtLeastOnce, D!Abstract!Spec

\* What a step shows of the part that is looked at.
DeliveryStep == part = "delivery" => UNCHANGED D!Abstract!vars \/ D!Abstract!Next

\* The same, as the runs look at it.
THEOREM EventsAreDelivered == MessagingSpec => DeliversAtLeastOnce
<1>1. MessagingInit => D!Abstract!Init
  BY DeliveryInit DEF MessagingInit
<1>2. MessagingInv /\ [MessagingNext]_<<part, vars, delivery, rabbit>> => [DeliveryStep]_delivery
  <2>. SUFFICES ASSUME MessagingInv, [MessagingNext]_<<part, vars, delivery, rabbit>>
                PROVE  AbstractStep \/ UNCHANGED delivery
    BY DEF AbstractStep, DeliveryStep, D!Abstract!vars
  <2>1. D!Next \/ UNCHANGED delivery
    BY MessagingSteps
  <2>. QED BY <2>1, DeliveryNext DEF MessagingInv
<1>. QED BY <1>1, <1>2, MessagingInvariance, PTL DEF MessagingSpec, DeliversAtLeastOnce, DeliveryStep

\* The consumers dead-letter what could be processed only after the first try
\* and all three retries failed, even when copies were delivered again.
THEOREM BuriedOnlyAfterRetries == MessagingSpec => []NoEarlyBurial
<1>1. MessagingInv => NoEarlyBurial
  BY BurialsAreLate DEF MessagingInv, NoEarlyBurial
<1>. QED BY <1>1, MessagingInvariance, PTL

\* getChannel and getConsumerChannel never give a channel that has closed, even
\* when several connections were opened and close in any order.
THEOREM ChannelsAreLive == MessagingSpec => []VariablesAreLive
<1>1. MessagingInv => VariablesAreLive
  BY DEF MessagingInv, RabbitInv, VariablesAreLive
<1>. QED BY <1>1, MessagingInvariance, PTL

\* After the closes the recovery is made for, a consumer that is not subscribed
\* has a startup, a recovery or a timer to start it.
THEOREM ConsumersAreRemembered == MessagingSpec => []NobodyForgotten
<1>1. MessagingInv => NobodyForgotten
  BY NobodyIsForgotten DEF MessagingInv, NobodyForgotten
<1>. QED BY <1>1, MessagingInvariance, PTL
=============================================================================
