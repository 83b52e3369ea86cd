------------------------------ MODULE Delivery ------------------------------
(***************************************************************************)
(* The broker's queues and the consumers that empty them: order            *)
(* confirmation, refund processing and the realtime notifications, with    *)
(* the retry queues and the dead-letter queues of the first two.           *)
(*                                                                         *)
(* A consumer runs one callback for each delivery, and several at a time.  *)
(* The callback of a failed message publishes a copy with a higher retry   *)
(* count, waits for the broker's confirmation and only then acknowledges   *)
(* the original.  The channel may close, and the process may die, between  *)
(* any two of these steps; the broker then returns every unacknowledged    *)
(* message to its queue while a callback of the closed channel may still   *)
(* be running.                                                             *)
(*                                                                         *)
(* A definition Name_Variant is Name with a plausible mistake in it.  No   *)
(* specification uses it; it is there to show that the properties notice.  *)
(***************************************************************************)
EXTENDS Naturals, Sequences, FiniteSets

CONSTANTS
    PaymentSuccess, RefundRequested, StatusChanged,  \* messages, by routing key
    Invalid,          \* messages that fail the schema of their consumer
    Missing,          \* messages about a row that does not exist
    Handlers,         \* callbacks that may be running at the same time
    Prefetch,         \* PREFETCH_COUNT of each consumer
    MaxPublications,  \* bound: how often the outbox publishes one event
    MaxCloses         \* bound: how often the channel closes by itself

Messages == PaymentSuccess \cup RefundRequested \cup StatusChanged

\* What the constants must satisfy.
DeliveryConstants ==
    /\ PaymentSuccess \cap (RefundRequested \cup StatusChanged) = {}
    /\ RefundRequested \cap StatusChanged = {}
    /\ Invalid \cup Missing \subseteq Messages
    \* The realtime consumer looks up no row.
    /\ Missing \cap StatusChanged = {}
    /\ IsFiniteSet(Handlers)
    /\ Prefetch \in Nat \ {0}
    /\ MaxPublications \in Nat
    /\ MaxCloses \in Nat

VARIABLES
    ready,       \* ready[q][c]: how many copies c wait in queue q
    handler,     \* what each callback is doing
    subscribed,  \* the queues that are being consumed
    published,   \* how often each message has been published
    closes,      \* how often the channel has closed by itself
    handled,     \* messages whose effect has been applied
    dropped,     \* realtime messages rejected without requeueing
    failures,    \* transient failures of each message, counted up to one too many
    stranded     \* the last close is one after which nothing starts the consumers

vars == <<ready, handler, subscribed, published, closes, handled, dropped, failures, stranded>>

(***************************************************************************)
(* Topology.  Exchanges route a key to every queue bound with that key; a  *)
(* message that stays in a retry queue for its time to live is routed      *)
(* again by the queue's dead-letter exchange and key.                      *)
(***************************************************************************)
PAYMENT_EVENTS       == "payment.events"
PAYMENT_EVENTS_RETRY == "payment.events.retry"
PAYMENT_EVENTS_DLQ   == "payment.events.dlq"

Exchanges == {PAYMENT_EVENTS, PAYMENT_EVENTS_RETRY, PAYMENT_EVENTS_DLQ}

\* The routing keys of the retry queues and of the dead-letter queues are the
\* queues' names.
ConfirmationRetryKeys ==
    <<"order.confirmation.retry.5s", "order.confirmation.retry.30s",
      "order.confirmation.retry.120s">>
RefundRetryKeys ==
    <<"refund.processing.retry.5s", "refund.processing.retry.30s",
      "refund.processing.retry.120s">>

Elements(seq) == {seq[i] : i \in DOMAIN seq}

MainQueues  == {"order.confirmation", "refund.processing", "order.status.realtime"}
RetryQueues == Elements(ConfirmationRetryKeys) \cup Elements(RefundRetryKeys)
DeadQueues  == {"order.confirmation.dlq", "refund.processing.dlq"}
Queues      == MainQueues \cup RetryQueues \cup DeadQueues

ConfirmationBindings ==
    {<<PAYMENT_EVENTS, "payment.success", "order.confirmation">>,
     <<PAYMENT_EVENTS, "order.status.changed", "order.status.realtime">>,
     <<PAYMENT_EVENTS_DLQ, "order.confirmation.dlq", "order.confirmation.dlq">>}
      \cup {<<PAYMENT_EVENTS_RETRY, k, k>> : k \in Elements(ConfirmationRetryKeys)}

RefundBindings ==
    {<<PAYMENT_EVENTS, "refund.requested", "refund.processing">>,
     <<PAYMENT_EVENTS_DLQ, "refund.processing.dlq", "refund.processing.dlq">>}
      \cup {<<PAYMENT_EVENTS_RETRY, k, k>> : k \in Elements(RefundRetryKeys)}

Bindings == ConfirmationBindings \cup RefundBindings

Route(exchange, key) == {q \in Queues : <<exchange, key, q>> \in Bindings}

DeadLetterKey(q) ==
    IF q \in Elements(ConfirmationRetryKeys) THEN "payment.success" ELSE "refund.requested"

RoutingKey(m) == CASE m \in PaymentSuccess  -> "payment.success"
                   [] m \in RefundRequested -> "refund.requested"
                   [] OTHER                 -> "order.status.changed"

(***************************************************************************)
(* Copies of a message and the callbacks that hold them.                   *)
(***************************************************************************)
RetryLimit == Len(RefundRetryKeys)
Copies     == [msg : Messages, count : 0..RetryLimit]
Copy(m, n) == [msg |-> m, count |-> n]

Idle == [pc |-> "idle"]

Busy(h)   == handler[h] # Idle
OnOpen(h) == Busy(h) /\ handler[h].open

\* The queues after one copy c was added to each of the queues qs.
Put(rdy, qs, c) == [q \in Queues |-> IF q \in qs THEN [rdy[q] EXCEPT ![c] = @ + 1] ELSE rdy[q]]
Take(rdy, q, c) == [rdy EXCEPT ![q][c] = @ - 1]

\* What the outbox worker's channel.publish does, as often as it retries.
Publish(m) ==
    /\ published[m] < MaxPublications
    /\ published' = [published EXCEPT ![m] = @ + 1]
    /\ ready' = Put(ready, Route(PAYMENT_EVENTS, RoutingKey(m)), Copy(m, 0))
    /\ UNCHANGED <<handler, subscribed, closes, handled, dropped, failures, stranded>>

StartConsumer(q) ==
    /\ q \notin subscribed
    /\ subscribed' = subscribed \cup {q}
    /\ UNCHANGED <<ready, handler, published, closes, handled, dropped, failures, stranded>>

Unacked(q) == {h \in Handlers : OnOpen(h) /\ handler[h].queue = q}

Deliver(h, q, c) ==
    /\ ~Busy(h)
    /\ q \in subscribed
    /\ ready[q][c] > 0
    /\ Cardinality(Unacked(q)) < Prefetch
    /\ ready' = Take(ready, q, c)
    /\ handler' = [handler EXCEPT ![h] =
                     [pc |-> "processing", queue |-> q, copy |-> c, open |-> TRUE]]
    /\ UNCHANGED <<subscribed, published, closes, handled, dropped, failures, stranded>>

(***************************************************************************)
(* The callbacks.                                                          *)
(***************************************************************************)
RetryRoutingKeys(q) == IF q = "order.confirmation" THEN ConfirmationRetryKeys ELSE RefundRetryKeys
DlqRoutingKey(q)    == IF q = "order.confirmation" THEN "order.confirmation.dlq"
                                                   ELSE "refund.processing.dlq"

At(h, pc) == Busy(h) /\ handler[h].pc = pc

\* The event's own consumer accepts its schema and finds its row.
Processable(h) == /\ handler[h].copy.msg \notin Invalid \cup Missing
                  /\ handler[h].queue \in Route(PAYMENT_EVENTS, RoutingKey(handler[h].copy.msg))

\* confirmOrderAfterPayment or processRefund returned, or the event was
\* emitted to the rooms.  The callback does not look at the channel before.
Handle(h) ==
    /\ At(h, "processing")
    /\ Processable(h)
    /\ handler' = [handler EXCEPT ![h].pc = "handled"]
    /\ handled' = handled \cup {handler[h].copy.msg}
    /\ UNCHANGED <<ready, subscribed, published, closes, dropped, failures, stranded>>

\* channel.ack after the effect.
Ack(h) ==
    /\ At(h, "handled")
    /\ OnOpen(h)
    /\ handler' = [handler EXCEPT ![h] = Idle]
    /\ UNCHANGED <<ready, subscribed, published, closes, handled, dropped, failures, stranded>>

\* channel.publish of a copy, not yet confirmed.
SendCopy(h, exchange, key, count) ==
    handler' = [handler EXCEPT ![h] =
        [pc |-> "publishing", queue |-> handler[h].queue, copy |-> handler[h].copy,
         open |-> TRUE, to |-> Route(exchange, key), count |-> count]]

Retried(h) == At(h, "processing") /\ OnOpen(h) /\ handler[h].queue # "order.status.realtime"

\* An invalid payload, or an error the classifier calls PERMANENT.
MoveToDlq(h) ==
    /\ Retried(h)
    /\ ~Processable(h)
    /\ SendCopy(h, PAYMENT_EVENTS_DLQ, DlqRoutingKey(handler[h].queue), handler[h].copy.count)
    /\ UNCHANGED <<ready, subscribed, published, closes, handled, dropped, failures, stranded>>

FailOnce(m) == failures' = [failures EXCEPT ![m] = IF @ > RetryLimit THEN @ ELSE @ + 1]

\* The last retry queue is never used: >= in place of >.
RetryOrMoveToDlq_OffByOne(h) ==
    LET q == handler[h].queue
        n == handler[h].copy.count + 1
    IN  /\ Retried(h)
        /\ FailOnce(handler[h].copy.msg)
        /\ IF n >= Len(RetryRoutingKeys(q))
           THEN SendCopy(h, PAYMENT_EVENTS_DLQ, DlqRoutingKey(q), n - 1)
           ELSE SendCopy(h, PAYMENT_EVENTS_RETRY, RetryRoutingKeys(q)[n], n)
        /\ UNCHANGED <<ready, subscribed, published, closes, handled, dropped, stranded>>
\* Any other error is TRANSIENT: also that of a payload that is not JSON, and
\* that of a moveToDlq that rejects inside the try, of an invalid message.
RetryOrMoveToDlq(h) ==
    LET q == handler[h].queue
        n == handler[h].copy.count + 1
    IN  /\ Retried(h)
        /\ FailOnce(handler[h].copy.msg)
        /\ IF n > Len(RetryRoutingKeys(q))
           THEN SendCopy(h, PAYMENT_EVENTS_DLQ, DlqRoutingKey(q), n - 1)
           ELSE SendCopy(h, PAYMENT_EVENTS_RETRY, RetryRoutingKeys(q)[n], n)
        /\ UNCHANGED <<ready, subscribed, published, closes, handled, dropped, stranded>>

\* The broker takes the published copy and confirms it.
BrokerTakes(h) ==
    /\ At(h, "publishing")
    /\ OnOpen(h)
    /\ ready' = Put(ready, handler[h].to, Copy(handler[h].copy.msg, handler[h].count))
    /\ handler' = [handler EXCEPT ![h] =
                     [pc |-> "confirmed", queue |-> @.queue, copy |-> @.copy, open |-> TRUE]]
    /\ UNCHANGED <<subscribed, published, closes, handled, dropped, failures, stranded>>

\* The original is acknowledged without waitForConfirms.
AckOriginal_Unconfirmed(h) ==
    /\ At(h, "publishing") \/ At(h, "confirmed")
    /\ OnOpen(h)
    /\ handler' = [handler EXCEPT ![h] = Idle]
    /\ UNCHANGED <<ready, subscribed, published, closes, handled, dropped, failures, stranded>>
AckOriginal(h) ==
    /\ At(h, "confirmed")
    /\ OnOpen(h)
    /\ handler' = [handler EXCEPT ![h] = Idle]
    /\ UNCHANGED <<ready, subscribed, published, closes, handled, dropped, failures, stranded>>

\* The realtime consumer rejects an invalid or failing event without requeueing
\* it, and its queue has no dead-letter exchange.
Reject(h) ==
    /\ At(h, "processing")
    /\ OnOpen(h)
    /\ handler[h].queue = "order.status.realtime"
    /\ handler' = [handler EXCEPT ![h] = Idle]
    /\ dropped' = dropped \cup {handler[h].copy.msg}
    /\ UNCHANGED <<ready, subscribed, published, closes, handled, failures, stranded>>

\* A retry queue declared without x-message-ttl.
Expire_NoTtl(q, c) ==
    /\ q # "refund.processing.retry.120s"
    /\ ready[q][c] > 0
    /\ ready' = Put(Take(ready, q, c), Route(PAYMENT_EVENTS, DeadLetterKey(q)), c)
    /\ UNCHANGED <<handler, subscribed, published, closes, handled, dropped, failures, stranded>>
\* After its time to live in a retry queue a copy is routed again.
Expire(q, c) ==
    /\ ready[q][c] > 0
    /\ ready' = Put(Take(ready, q, c), Route(PAYMENT_EVENTS, DeadLetterKey(q)), c)
    /\ UNCHANGED <<handler, subscribed, published, closes, handled, dropped, failures, stranded>>

(***************************************************************************)
(* Faults.                                                                 *)
(***************************************************************************)
\* The broker returns what the open channel has not acknowledged.
Requeued ==
    [q \in Queues |-> [c \in Copies |-> ready[q][c] +
        Cardinality({h \in Unacked(q) : handler[h].copy = c})]]

\* The callbacks of the closed channel go on; a copy on its way is lost.  When
\* the close is not one the recovery is made for (the channel closed alone, or
\* its connection while a recovery ran), nothing starts the consumers until
\* the next close: see RabbitConnection, whose strained this is.
CloseChannel(foreseen) ==
    /\ closes < MaxCloses
    /\ closes' = closes + 1
    /\ stranded' = ~foreseen
    /\ ready' = Requeued
    /\ subscribed' = {}
    /\ handler' = [h \in Handlers |-> IF Busy(h) THEN [handler[h] EXCEPT !.open = FALSE]
                                                 ELSE Idle]
    /\ UNCHANGED <<published, handled, dropped, failures>>

\* The startup of the next process starts its consumers.
ProcessDies ==
    /\ ready' = Requeued
    /\ subscribed' = {}
    /\ handler' = [h \in Handlers |-> Idle]
    /\ stranded' = FALSE
    /\ UNCHANGED <<published, handled, dropped, failures>>

Crash == closes < MaxCloses /\ closes' = closes + 1 /\ ProcessDies

\* Acknowledging, rejecting or publishing on a closed channel throws; nothing
\* in a consume callback catches it, and the unhandled rejection ends the process.
ThrowOnClosed(h) == Busy(h) /\ ~handler[h].open /\ ProcessDies /\ UNCHANGED closes

\* waitForConfirms of a closed channel may also never settle.
HangOnClosed(h) ==
    /\ At(h, "publishing")
    /\ ~handler[h].open
    /\ handler' = [handler EXCEPT ![h] = Idle]
    /\ UNCHANGED <<ready, subscribed, published, closes, handled, dropped, failures, stranded>>

Init ==
    /\ ready = [q \in Queues |-> [c \in Copies |-> 0]]
    /\ handler = [h \in Handlers |-> Idle]
    /\ subscribed = {}
    /\ published = [m \in Messages |-> 0]
    /\ closes = 0
    /\ handled = {}
    /\ dropped = {}
    /\ failures = [m \in Messages |-> 0]
    /\ stranded = FALSE

Callback(h) == \/ Handle(h) \/ Ack(h) \/ Reject(h)
               \/ MoveToDlq(h) \/ RetryOrMoveToDlq(h)
               \/ BrokerTakes(h) \/ AckOriginal(h)
               \/ ThrowOnClosed(h) \/ HangOnClosed(h)

Next == \/ \E m \in Messages : Publish(m)
        \/ \E q \in MainQueues : StartConsumer(q)
        \/ \E h \in Handlers, q \in MainQueues, c \in Copies : Deliver(h, q, c)
        \/ \E h \in Handlers : Callback(h)
        \/ \E q \in RetryQueues, c \in Copies : Expire(q, c)
        \/ \E foreseen \in BOOLEAN : CloseChannel(foreseen)
        \/ Crash

Spec == Init /\ [][Next]_vars

\* Consumers are started after a close the recovery is made for (the property
\* ConsumersComeBack of RabbitConnection) and after a restart, which is up to
\* whoever runs the process; after any other close they may stay off.  The
\* broker delivers and expires, and what a callback awaits settles, well or
\* badly: the code sets no timeouts, the clients of the database and of the
\* gateway are relied on.  Nothing is assumed of publications and of faults.
FairSpec ==
    /\ Spec
    /\ \A q \in MainQueues : WF_vars(~stranded /\ StartConsumer(q))
    /\ WF_vars(\E h \in Handlers, q \in MainQueues, c \in Copies : Deliver(h, q, c))
    /\ \A h \in Handlers : WF_vars(Callback(h))
    /\ WF_vars(\E q \in RetryQueues, c \in Copies : Expire(q, c))

-----------------------------------------------------------------------------
(***************************************************************************)
(* Properties.                                                             *)
(***************************************************************************)
HandlerStates ==
    {Idle}
      \cup [pc : {"processing", "handled", "confirmed"}, queue : MainQueues, copy : Copies,
            open : BOOLEAN]
      \cup [pc : {"publishing"}, queue : MainQueues, copy : Copies, open : BOOLEAN,
            to : SUBSET Queues, count : 0..RetryLimit]

\* Every variable has its type.
TypeOK ==
    /\ ready \in [Queues -> [Copies -> Nat]]
    /\ handler \in [Handlers -> HandlerStates]
    /\ subscribed \subseteq MainQueues
    /\ published \in [Messages -> 0..MaxPublications]
    /\ closes \in 0..MaxCloses
    /\ handled \subseteq Messages
    /\ dropped \subseteq StatusChanged
    /\ failures \in [Messages -> 0..(RetryLimit + 1)]
    /\ stranded \in BOOLEAN

LiesIn(m, q) == \E n \in 0..RetryLimit : ready[q][Copy(m, n)] > 0

\* Messages of which a copy waits in a queue or is held by the open channel.
Held == {m \in Messages :
            \/ \E h \in Handlers : OnOpen(h) /\ handler[h].copy.msg = m
            \/ \E q \in MainQueues \cup RetryQueues : LiesIn(m, q)}
Dead == {m \in Messages : \E q \in DeadQueues : LiesIn(m, q)}

\* The queues and consumers implement at-least-once delivery: whatever closes,
\* dies or is retried, a published payment or refund event is handled or
\* dead-lettered before its last copy is gone.  It rests on the order publish,
\* waitForConfirms, ack of retryOrMoveToDlq and moveToDlq.
Abstract == INSTANCE AtLeastOnce
              WITH BestEffort <- StatusChanged, held <- Held, dead <- Dead
DeliversAtLeastOnce == Abstract!Spec

\* A message that could be processed is dead-lettered only after the first try
\* and all three retries failed, even when copies of it were redelivered.
NoEarlyBurial == \A m \in Dead : m \in Invalid \cup Missing \/ failures[m] > RetryLimit

\* Every published message is eventually settled: no copy of it is left in a
\* queue, in a retry queue or with a consumer.  It may wait only while the
\* consumers are off after a close the recovery is not made for; the next
\* connection close or restart brings them back, and the promise with them.
EveryMessageSettles == \A m \in Messages : (m \in Held) ~> (m \notin Held \/ stranded)
=============================================================================
