# Delirium: TLA+ models, model checking and proofs

Delirium is a food-ordering backend (Express, Prisma on Postgres, RabbitMQ, Razorpay) with a
React frontend.  This directory models its services, its workers and the purchase page of its
frontend, checks the models with TLC on small instances and proves the main safety properties with
TLAPS for instances of every size.  Paths below are relative to `src/backend/src/` unless they start with
`src/`.

## 1. The system

| component | state it keeps | operations | hard behaviour |
|---|---|---|---|
| Payment (`modules/payment/payment.*`) | `Payment` (one per order), `PaymentAttempt` rows with a creation lease, per-order advisory lock | `initiatePayment`, `verifyPayment`, `markPaymentSuccessful` | concurrent requests, gateway calls between transactions, lost answers, lapsed leases |
| Webhook (`webhook.*`) | `WebhookEvent` (unique per provider event) | `handleRazorpayWebhook` | redelivery, concurrent delivery, death between any two steps |
| Orders (`modules/order/`) | `Order.status`, `OrderItem` | `createOrder`, `updateOrderStatus`, `confirmOrderAfterPayment`, `cancelOrder` | compare-and-set races between the admin, the customer and the confirmation consumer |
| Refunds (`refund.*`) | `Refund` (idempotency key, gateway id) | `processRefund`, `handleGatewayRefundStatus`, `reconcileProcessingRefunds` | lost gateway answers, two workers on one refund |
| Outbox (`outbox.*`) | `OutboxEvent` (status, attempts, availableAt, updatedAt) | `createEvent`, claim, publish, mark, requeue, give up | several workers, slow workers, crashes between publish and mark |
| Consumers (`lib/rabbitmq.consumer-retry.ts`, `*.consumer.ts`) | RabbitMQ queues, three retry queues and a DLQ per consumer, `x-retry-count` | consume, `retryOrMoveToDlq`, `moveToDlq` | at-least-once delivery, copies that outlive an unacked original |
| RabbitMQ connection (`config/rabbitmq.ts`, `server.ts`) | module variables: connection, two channels, timer, flags | connect, reconnect, recover | callbacks and awaits interleave on shared variables |
| Cart and checkout (`modules/cart/`, `createOrder`) | `Cart`, `CartItem` | add, update, remove, clear, checkout | edits that race the checkout |
| Google login (`modules/auth/`) | `User`, two cookies of the browser | `googleLogin`, `googleCallback` | tabs that overwrite each other's cookies, repeated callbacks |
| Sessions (`modules/auth/`, `AuthContext.tsx`) | `Session` (token hash, expiry, revokedAt), the refresh cookie | refresh (rotation), logout, logoutAll | concurrent refreshes of tabs that share a cookie, lost answers |
| Addresses (`modules/address/`) | `Address.isDefault` | create, update, remove, setDefault | overlapping transactions under READ COMMITTED |
| Realtime (`modules/realtime/`) | socket rooms | join, emit | none of its own |
| Menu (`modules/menu/`) | `MenuItem`, `MenuCategory` | create, update, delete of both | checks and writes without a transaction |
| Purchase page (`src/frontend/`: `CartContext.tsx`, `CheckoutPage.tsx`) | the cart shown, the order in hand, the payment window | cart calls, the order button, the payment's handler | answers that are lost, late or older than the next request |

How they interact.  `initiatePayment` creates the `PaymentAttempt` and the Razorpay order; the
customer pays at Razorpay; the client's verify call and Razorpay's webhook both end in
`markPaymentSuccessful`, which writes `PAYMENT_SUCCESS` to the outbox in its transaction.  The
outbox worker publishes it; the confirmation consumer moves the order to `CONFIRMED` and writes
`ORDER_STATUS_CHANGED`.  `cancelOrder` shares the per-order advisory lock with
`markPaymentSuccessful`, and writes a `Refund` and `REFUND_REQUESTED` if the order is paid; the
refund consumer and the reconciliation worker carry the refund out at Razorpay.
`updateOrderStatus` takes no lock and relies on a compare-and-set of the status.  All consumers and
the outbox worker take their channels from the module variables of `config/rabbitmq.ts`, which the
close events, the recovery and their own requests change.

What makes each correct: a payment is recorded exactly once and only when captured; whatever was
captured can be found, and a captured payment of an order is recorded in the end (of a second captured gateway order of
the same order the attempt is known, but nothing is recorded); the outbox says exactly what the rows say; an
order moves only along the table of allowed transitions; a refund exists exactly for the paid order
that was cancelled, once, and settles together with the payment and truthfully; a committed event is published at
least once or visibly given up; a published one is handled or dead-lettered; the consumers come back after
the connection was lost outside a recovery; a row of the cart is ordered once; a token that was exchanged is dead, and so is a
session that was logged out; requests about addresses that do not overlap leave one default; the menu has no duplicates and no
dangling references; the page orders nothing twice and claims nothing that is not so.

The hazards, each at its line with the properties that cover it, are in `PROJECT.json`.

## 2. Plan

| # | module | models | state |
|---|---|---|---|
| 1 | `OrderPayment`, `OrderPayment_proofs` | payment, webhook, order status, cancellation, database side of refunds | checked, proved |
| 2 | `Outbox`, its abstract specification `EventDelivery`, `Outbox_proofs` | claim, publish, retry, give up; several workers and crashes; refinement | checked, proved |
| 3 | `Delivery`, its abstract specification `AtLeastOnce`, `Messaging_proofs` | the consumers with their retry queues and dead-letter queues; closes, crashes, redelivery; refinement | checked, proved |
| 4 | `Refund`, `Refund_proofs` | `processRefund`, reconciliation, Razorpay's idempotent refunds | checked, proved |
| 5 | `OrderLifecycle`, `Lifecycle_proofs` | the abstract order, which `OrderPayment` implements | checked, proved |
| 6 | `Checkout`, `Checkout_proofs` | cart edits and overlapping checkouts under the cart's row lock | checked, proved |
| 7 | `Session`, `Accounts_proofs` | rotation and revocation, with the tabs that call them | checked, proved |
| 8 | `Login`, `Accounts_proofs` | the Google login | checked, proved |
| 9 | `RabbitConnection`, `Messaging_proofs` | the callbacks and awaits of `config/rabbitmq.ts` | checked, proved |
| 10 | `Address`, `Accounts_proofs` | the default flag under READ COMMITTED | checked, proved |
| 11 | `Storefront`, `Shop_proofs` | the purchase page | checked, proved |
| 12 | `Menu`, `Shop_proofs` | the six mutations of the menu | checked, proved |

"Proved" is said of the safety properties.  The liveness properties (`CapturedPaymentRecorded`, `EveryEventSettles`,
`EveryMessageSettles`, `SettledOrUnidentified`, `ConsumersComeBack`) are only model-checked: the provers at hand know neither
`ENABLED` nor fairness.

The modules compose along their interfaces: what `OrderPayment` writes to the outbox, `Outbox` publishes; what
`Outbox` publishes any number of times (`EventDelivery` promises no more), `Delivery` brings to a consumer at
least once; `OrderPayment`'s `ConfirmOrderAfterPayment` and `Refund`'s `Start` may therefore happen any number
of times and late.  The retry counts of `Refund` are those of `Delivery`, its deaths and lost acknowledgements
are what `Delivery`'s closes look like to the callback.  `Delivery` sees a close of a channel as one step,
`RabbitConnection` has what the process does about it.  `Storefront` has one step for a request that `Checkout`
or `OrderPayment` serve in several.

Open: a specification of the cart and its orders that `Checkout` and `Storefront` both implement, as `EventDelivery` is for
`Outbox`; an abstract refund for `Refund`.

## 3. `OrderPayment`

Every invocation of a service function is a small process with a program counter, because the code
runs many at once, in one Node process between awaits and in several processes.  A step is one
database statement or one transaction, split wherever another invocation can run in between and
change what was read.

| state | code |
|---|---|
| `orderStatus`, `payment`, `attempt`, `refund`, `webhookEvent` | the columns of those tables the control flow reads |
| `outbox` | `OutboxEvent` rows of an order in creation order (their publication is `Outbox`'s subject) |
| `orderLock` | `pg_advisory_xact_lock` on the order (`payment.repository.ts:250`), for the two transactions that hold it across awaits |
| `gatewayOrder` | external: what Razorpay knows of an order, `none`, `created`, `paid` |
| `request[r]` | a running `initiatePayment`: `tx` (checked), `claim`, `create`, `release`/`finalize`, `returned`/`failed` |
| `handler[h]` | a running `verifyPayment` or webhook: `lookup`, `mark`, `commit` (lock held, rows read), `processed` |
| `admin[x]` | a running `updateOrderStatus` (`patch`) or `cancelOrder` (`cancel`, lock held) |

| code | actions |
|---|---|
| `initiatePayment` | `InitiateCheck`, `InitiateTx`, `ClaimLease`, `GatewayCreateOrder`, `ReleaseLease` or `Finalize`; `AbortRequest` at any point |
| the customer at Razorpay | `CustomerPays` (external) |
| webhook, `verifyPayment` | `WebhookReceive`, `VerifyReceive`, `FindAttempt` |
| `markPaymentSuccessful` | `MarkBegin`, then `MarkAlreadyDone`, `MarkRejected` or `MarkCommit`; `MarkProcessed` for a webhook; `AbortHandler` |
| `updateOrderStatus` | `UpdateOrderStatusRead`, `UpdateOrderStatusCommit` |
| `cancelOrder` | `CancelBegin`, `CancelCommit`; `AbortAdmin` |
| `confirmOrderAfterPayment` | `ConfirmOrderAfterPayment`, enabled for ever once the event is written: late and repeated delivery |
| refund rows | `ClaimRefund`, `SettleRefund`, `FailRefund` |

Abstractions.  Amounts, users, names, signatures and HTTP are left out: no property is about them,
and the checks on them read columns that never change.  A lease's clock is a free choice (lapsed or
not).  A compare-and-set up to its COMMIT is one step, because the row stays locked in between.
`InitiateTx` is one step under the lock for the same reason.  A request names everything it creates,
because it creates at most one attempt, one token and one gateway order.  A `PaymentAttempt` is never
FAILED and a `Payment` never FAILED: no code writes those values.

`Name_Variant` definitions are deliberate mistakes, the kind a change to the code could make: each
property of a passing run is violated when its `Name` is replaced by the variant listed under
`mutants` in `PROJECT.json`, so each property is about something the code must get right.

### Properties

* `PaymentMatchesAttempt`: payment SUCCESS or REFUNDED exactly when one attempt is SUCCESS; never two.
* `RecordedPaymentIsCaptured`: a SUCCESS attempt carries the id of the capture of its own gateway order.
* `OnePaymentSuccessEvent`: exactly one `PAYMENT_SUCCESS` per recorded payment, under any redelivery.
* `RefundMatchesPayment`: refund only for a cancelled, paid order, one per order, settled with the payment.
* `StatusHistoryPublished`: the `ORDER_STATUS_CHANGED` events chain from PENDING to the current status along
  `allowedOrderStatusTransitions`; only `cancelOrder`'s last move is missing (it writes no such event).  What the
  first n events tell is a relation (`TellsStatus`): the last of them that is a move has it as its new status.
* `ProcessedWebhookIsRecorded`: `processedAt` is set only when the payment was recorded.
* `CapturedOrderIsKnown`: every captured gateway order belongs to exactly one attempt, whatever was lost on
  the way from Razorpay's `createOrder` to `finalizeGatewayOrderCreation`.
* `CancelRefundsPaidOrder`: the `cancelOrder` step that cancels a paid order creates its refund.
* `FollowsLifecycle`: the order implements `OrderLifecycle`, see below.
* `CapturedPaymentRecorded`: a captured payment is recorded in the end.

`LeaseNeverContended` (no two running requests share an unfinished attempt) is proved and not checked by a run.
The lease thus protects a case that cannot occur while `findActiveAttemptByPaymentId` ignores attempts
without a gateway order.

### The abstract order: `OrderLifecycle`

`OrderLifecycle` knows of an order its status, its money (`due`, `paid`, `refund due`, `refunded`, `refund
failed`), whether somebody paid at the gateway, and what was announced of it; nothing of requests, locks,
attempts or messages.  The mapping `Lifecycle` reads the money off the payment and the refund rows
(`MoneyOf`), the capture off the gateway, and the announcements off the outbox.  Refinement says more than
the invariants do: it relates each step to the state before.  No payment is taken back or recorded before it was captured,
no refund starts but by the cancellation of a paid order, a settled refund never changes its outcome, and each of these steps
commits together with exactly the event that announces it.  The promise leaves out what the code does not give: `Move`
may cancel a paid order without a refund (the status endpoint, finding 3), and `Pay` may follow a
cancellation (finding 2).

### Runs

| run | instance | shows |
|---|---|---|
| `order_payment_safety` | 1 order, 2 requests, 2 handlers, 2 administrators, 2 refund ids, symmetry | all safety properties and the refinement of `OrderLifecycle` |
| `order_payment_liveness` | 1 order, 2 requests, 1 handler, 1 administrator, 1 refund id | `CapturedPaymentRecorded` |
| `duplicate_attempts`, `paid_after_cancel`, `patch_cancel` | as the liveness instance | three statements of comments and of the README the code does not keep |

Why these bounds are enough.  Orders share nothing but the handlers' and administrators' slots, so one
order shows every interaction on an order.  Two requests give two attempts and two gateway orders, both of
which may be paid.  Two handlers meet on one gateway order or on two; two administrators and the consumer
race on one status.  Refunds are limited to one per order, and the second id is there so that a second
refund could be created if the code allowed it.  The theorems below need none of these bounds.
Deadlock is not checked: a request is made once and an order ends, so the system may stop.

The violated statements:

1. `NoDuplicateAttempts`.  `payment.service.ts:48` says the order lock prevents duplicate local records.
   `findActiveAttemptByPaymentId` (`payment.repository.ts:57`) only finds attempts that have their gateway order, so
   a second request before the first one's finalize makes a second attempt.
2. `UnrefundedCancellationIsComplete`.  `order.service.ts:380` calls an unpaid cancellation complete without a refund.
   The open gateway order can still be paid, `markPaymentSuccessful` does not read the order's status, and the
   payment becomes SUCCESS on a CANCELLED order that has no refund.
3. `EveryPaidCancellationRefunds`.  `src/README.md:882` says cancelling a paid order creates a refund; the status
   endpoint (`order.service.ts:188`) also accepts CANCELLED and creates none.

### Fairness

`FairSpec` adds: a running handler or administrator that does not die goes on (WF); a waiter of the advisory lock gets it (SF on
`MarkBegin`: Postgres grants the lock in the order of waiting, and `CancelBegin` and other handlers take and
leave it in between); Razorpay delivers the paid event again until it is answered 200 (SF on
`WebhookReceive`, since the slot it needs may be busy with other invocations); and deaths stop at some point
(`AbortsStop`).  That last one excludes only a step that is nothing but a death: a death that leaves the state an
ordinary step would have left (a 404, a rollback after a lost race) is not excluded, or fairness towards that ordinary
step could not be met and the formula would hold of no behaviour that takes it again and again.  No fairness is assumed of customers, requests, verify calls, consumers or
new administrators.

## 4. Proofs: `OrderPayment_proofs`

All theorems hold for arbitrary sets of orders, requests, handlers, administrators and refund ids; the only
assumption is `ConstantsAssumption` (NULL is none of them, handlers and administrators are different).

The safety properties are not inductive by themselves.  That a payment is recorded once rests on what a
handler read under the lock being still true when it commits, and that rests on the lock being held.  `IInv`
adds those facts:

* `RequestInv`: a creating request works on its own attempt, which has no gateway order yet; what a request
  returned is stored in the attempt.
* `AttemptInv`: an attempt stores only its own gateway order; it is SUCCESS only with the capture's id; a
  captured gateway order is stored.
* `HandlerInv`: a handler works on a captured gateway order and its attempt; at `commit` it holds the lock
  and what it saw of the attempt still holds; PENDING seen means PENDING now.
* `AdminInv`: at `cancel` the administrator holds the lock, the payment is as it saw it and no refund exists.
* `RefundInv`, and the properties `PaymentMatchesAttempt`, `RefundMatchesPayment`, `OnePaymentSuccessEvent`,
  `ProcessedWebhookIsRecorded`.

`Invariance` proves `Spec => [](TypeOK /\ IInv)`: one lemma per part of the invariant, one step per action.
The other theorems follow from it; `CancelRefunds` proves the action property from the invariant.

Only model-checked: the liveness property.

`Lifecycle_proofs` proves `Spec => FollowsLifecycle` from the same assumption.  It adds two facts to `IInv`: a REFUNDED payment has
a refund row (`RefundedHasRefund`), and who is at `cancel` cancels (`CancellationCancels`).  Then one
lemma per kind of step: preparing a payment stutters, `CustomerPays` is `Capture`, `MarkCommit` is `Pay`, the
three compare-and-sets of a status are `Move`, `CancelCommit` is `Cancel`, and a refund's claim stutters while its end is
`Settle`.  That `MarkCommit` finds the money due rests on `IInv`: PENDING means that no attempt is SUCCESS,
and a refund row exists only for a payment that has one.

The module also proves `StatusHistoryPublished`.  It is inductive given the rest: a move is written only
from the status the mover read, which is still the order's (the compare-and-set), and that status is not CANCELLED, since nothing leads
out of it; so the events so far tell exactly the status the move starts from (`HistoryMoves`).  Other events tell nothing
(`HistoryOther`), and a cancellation without an event is the one move the property allows to be missing.

## 5. `Outbox`

The outbox worker of every running process loops over `publishOutboxEvents`.  The processes share only the
`OutboxEvent` table and the broker; nothing keeps a worker from being slow for longer than the one minute after
which another one takes its events over.

| state | code |
|---|---|
| `status`, `attempts` | the columns; `NONE` is a row not yet committed |
| `due`, `stale` | the two comparisons with the clock: `availableAt <= now`, `updatedAt < now - 60 s` |
| `sent[e]` | external: for which attempts of the event the broker has received the message |
| `worker[w]` | where the loop is, the events and attempts its claim returned, the event in hand |

| code | actions |
|---|---|
| `createEvent` | `CreateEvent` |
| `requeueFailedEvents` | `RequeueFailed` |
| `requeueStaleProcessingEvents` | `RequeueStale`, then `ExpireStale`: two statements, other workers run in between |
| `claimPendingEvents` | `Claim`: one statement; `FOR UPDATE SKIP LOCKED` makes concurrent ones take different rows |
| `channel.publish`, `waitForConfirms` | `Publish`: confirmed, failed, or received with the confirm lost |
| `markPublished` | `MarkPublished`: it may also throw, before or after it took effect, into the same catch block |
| the catch block | `MarkPermanentlyFailed` after the last attempt, else `MarkFailed` |
| death of the process, an exception outside the inner `try` | `Abandon` |
| time | `BecomeDue`, `BecomeStale` |

Message contents, routing keys and the lengths of delays are left out.  Rows are numbered in creation
order, which `ORDER BY "createdAt"` follows.  A claim that is refused by the database, and a cycle that cannot connect to
RabbitMQ, change nothing.

`EventDelivery` is the promise without the mechanism: a committed event is open, copies of it reach the broker
any number of times, and it is closed once and for good, as published (the broker has a copy) or as given up.
`KeepsPromise` says that `Outbox` implements it under the mapping `Delivery`, `BrokerHas`: FAILED with attempts left
is still open, FAILED without is given up.  Note what the promise leaves out, because the code does not give it:
an event may reach the broker more than once, also after it was closed, and an event that was given up may have
reached it (a slow worker's `markFailed` hits the row while the attempt of another worker succeeds).

Properties: `PendingIsClaimable` (no path back to PENDING without an attempt left, where the claim would pass
the row over for ever), `ClaimsAreExclusive` (rows have no owner column, but the attempts number acts as one),
`KeepsPromise`, and `EveryEventSettles` (liveness).

| run | instance | shows |
|---|---|---|
| `events_safety`, its part `outbox` | 2 events, 2 workers, 3 attempts, batches of 2, symmetry of workers | the safety properties and the refinement |
| `events_liveness`, its part `outbox` | 2 events, 2 workers, 2 attempts, batches of 1 | `EveryEventSettles`, with an event waiting for the next batch |
| `outbox_given_up` | 1 event, 1 worker, the code's 5 attempts | `src/README.md:738`, "The event remains available until it can be published.", is not kept: five failures end it |

Three attempts give a first, a middle and a last one; with two workers an event is taken over and given up under a
slow worker; two events in one batch show what a death does to the rest of the batch.  More workers only add more takeovers, and
the number of takeovers is bounded by the attempts.

`MCEvents` runs the outbox beside the three modules of section 6, as one more part.

Fairness: every worker claims again and again (`[]<><<Claim(w)>>_vars`), and time passes (WF on `BecomeDue` and `BecomeStale`).
As a worker can always do something, the first is the same as WF on `WorkerStep`, the loop of a living worker goes on, with SF on
`RequeueStale`, `ExpireStale` and `Claim`, the three statements a cycle starts with: a worker may die any number of times, but not before
the same statement of every cycle for ever.  It is stated in the short form because TLC checks it faster.  WF on `WorkerStep` includes that
`waitForConfirms` settles, well or badly; the code sets no timeout.  Nothing else is assumed of the sends: the broker may refuse
for ever, and a worker may die in every batch, since the attempts run out.

`Outbox_proofs` proves, for any number of events, workers, attempts and any batch size (`EventsConstants`, which `MCEvents` assumes: they are numbers,
attempts and batch size positive), about `EventsSpec` of `MCEvents`, the specification its runs check: `TypeOK`,
`PendingIsClaimable`, `ClaimsAreExclusive`, and the refinement `KeepsPromise`.  The invariant adds `WorkerInv` (no batch holds an attempt above the row's; an event about to be marked
published was sent) and `RowInv` (a published row was sent; a row that does not exist was not).  Exclusion follows because a claim
takes an attempt above every attempt in any batch; the refinement is one lemma per kind of step.
Only model-checked: `EveryEventSettles`.

## 6. Messaging: `Delivery`, `Refund`, `RabbitConnection`

`MCMessaging` puts the three side by side.  They share no variable, so each behaviour chooses a `part` at its start and
the others stay as they begin: this checks each completely and costs the sum of their states.  The runs of
sections 7 and 8 do the same.  `MCEvents` adds the outbox of section 5 as a fourth part and is what the runs are of.

### `Delivery`

| state | code |
|---|---|
| `ready[q][c]` | external: RabbitMQ's queues, a bag of copies (message, `x-retry-count`) for each queue of `setupRabbitMQTopology` |
| `handler[h]` | a running callback of a consumer: `processing`, `handled`, `publishing` (a copy not yet confirmed), `confirmed`; and whether its channel is still open |
| `subscribed` | the queues that are consumed |
| `stranded` | the last close is one after which nothing starts the consumers, until the next close |
| `handled`, `dropped`, `failures` | what has been applied, what the realtime consumer rejected, and failures of each message so far |

| code | actions |
|---|---|
| the outbox's `publish` | `Publish`, several times for an event |
| `channel.consume`, prefetch | `StartConsumer`, `Deliver` |
| the three consumers | `Handle`, `Ack`, `Reject` (realtime) |
| `retryOrMoveToDlq`, `moveToDlq` | `RetryOrMoveToDlq`, `MoveToDlq`, then `BrokerTakes` (the confirm) and `AckOriginal` |
| the broker | `Expire` (time to live of a retry queue), routing through the bindings of the topology |
| faults | `CloseChannel`, `Crash`; a callback of a closed channel throws (`ThrowOnClosed`, which ends the process) or hangs (`HangOnClosed`) |

`AtLeastOnce` is the promise: from its publication the broker holds a message until it is handled or dead-lettered;
only a realtime message may be dropped.  `DeliversAtLeastOnce` says that `Delivery` implements it, which rests
on the order publish, `waitForConfirms`, ack.  `NoEarlyBurial`: a processable message is dead-lettered only after its
first try and all three retries failed, also when copies of it are redelivered.  `EveryMessageSettles`: no copy
stays for ever in a queue, in a retry queue or under the prefetch of a consumer, unless the consumers are off after a close the
recovery is not made for.

`Messaging_proofs` proves types, the refinement and `NoEarlyBurial` for any messages, any number of publications, closes and
callbacks and any prefetch (`DeliveryConstants`: a message has one kind, the callbacks are finitely many).  The
refinement needs that a copy which is acknowledged is never the last of a message that is not settled, and no property says so by itself.
The invariant `DeliveryInv` does: a copy lies only in queues on its message's way, and in a dead-letter queue only if its
message cannot be processed or has failed four times (`QueuesOK`); what a callback holds was handled, or is being put where it
belongs, and a message that is not settled has a copy in a queue or with a callback that is not about to acknowledge
(`HandlersOK`, `Safe`).  A callback that waits to acknowledge the original has seen the confirm of the copy, so the copy is
what stays; a close puts all that was unacknowledged back.  For the burials, the retry count of a copy is at most
the number of failures of its message, however often copies are delivered again.

Fairness: consumers are started after a close the recovery is made for, which `RabbitConnection` shows, and after a restart,
which is an assumption about whoever runs the process.  After any other close (`stranded`: a channel alone, or a connection during a recovery)
no fairness starts them, as nothing in the code does; the next close or restart brings them back and `EveryMessageSettles`
with them.  The broker delivers and expires.  A callback makes progress, well or badly: what it awaits settles, which is an
assumption about the clients of the database and of Razorpay, since the code sets no timeouts.  Nothing is assumed of
publications and faults.

Not modelled: that the broker takes a copy for the dead-letter queue while `moveToDlq` rejects, so that the callback retries in
the same try what is dead-lettered already; a copy of the model whose confirm is lost is one whose channel has closed.

### `Refund`

| state | code |
|---|---|
| `row`, `payment` | `Refund.status`, `Refund.gatewayRefundId`, the payment's status |
| `gateway[k]` | external: Razorpay's refund with idempotency key k, its status, the payment it refunds |
| `copies`, `dead` | the copies of the refund's event still to be settled (their retry counts), and whether it was dead-lettered |
| `call[c]` | a running `processRefund`, at each of its awaits, with what it read before |
| `recon` | the reconciliation worker: its batch, the refund in hand with the gateway's answer |

| code | actions |
|---|---|
| `processRefund` | `Start`, `Load`, `Claim`, `Reload`, `Fetch` or `CreateRefund` and `SaveGatewayId`, `Settle`; `Fail` at any await |
| the end of the callback | inside these: `Return` (ack) and `Throw` (retry or dead-letter), each with an acknowledgement that may be lost |
| `reconcileProcessingRefunds` | `BeginCycle`, `ReconcileFetch`, `ReconcileSettle`, `ReconcileFail`, `EndCycle` |
| Razorpay | `Decide`; `CreateRefund` includes what the idempotency key does and the loss of the answer |
| a death of the process | `Die` |

Properties: `OneGatewayRefund` (the customer is refunded once, however many overlapping calls ask and lose
the answer), `SettledTruthfully` (a settled row says what the gateway did, and the payment agrees, although two
parties settle with answers of different age), `AcknowledgedIsReconcilable` (an event that is gone left
a row that is settled or that `findProcessingRefunds` returns), `SettledOrUnidentified`: a requested refund is settled in the end, by the
consumer or by the worker, also when its event was dead-lettered, if its row has the gateway's id.  A dead-lettered row without it is
what `ReconciledWithGateway` is about: the README's "Refund Reconciliation" (`src/README.md:918`) says that a row which says PROCESSING where
the gateway says SUCCESS is brought back in line, and the run `refund_unreconciled` shows that it is not when no try has got the
id: each of the code's four tries reaches the gateway or not, none gets or stores the answer, the event is
dead-lettered, and `findProcessingRefunds` does not return the row.
`Settle` may end in `Throw` although it committed: the reads after the transaction (`refund.service.ts:257`, `:281`) may fail.

Fairness: a waiting copy is delivered, a call ends, the worker goes on with its cycles, the gateway decides, and it
does not fail the worker's fetch or the update of one refund for ever (SF on `ReconcileFetch`, `ReconcileSettle`): the code
retries such a failure in every cycle without end and cannot do more.

`Refund_proofs` proves type correctness and the three safety properties for any number of refunds, calls, retries and
faults (`RefundConstants`: each refund has a key, numbers are numbers).  The argument of the invariant `RefundInv`: the key of a
refund is its own, so the gateway's refund of a row is the one with its key, whoever asked (`GatewayOK`); a call
past the claim has a row in PROCESSING or settled, and its answer was true when given, and what is decided stays
so (`CallOK`, `ReconOK`); a settled row has the gateway's id and status (`RowOK`); the last copy of an event goes only
when the id is stored (`CopiesOK`).

### `RabbitConnection`

The state is that of the module: `connection`, `publisherChannel`, `consumerChannel`, `reconnectTimer`, `isRecovering`
and the registered recovery handler; `open` and `subscribed` are the broker's side, connections the process has
forgotten included.  `task` is what the startup, the recovery and the outbox worker await.

| code | actions |
|---|---|
| `connectRabbitMQ`, `getConnection`, the channel getters | `Connect`, `ConnectFails`, `OpenChannel`, between whose awaits others change the variables |
| `setupRabbitMQTopology`, the consumers' start | `SetTopology`, `Consume` |
| the recovery | `TimerFires`, then the same; an await that rejects is `Rejected` |
| the outbox worker's cycle | `OutboxCycle` |
| close events | `Close` of any open connection, `CloseChannel` of a consumer channel alone |

Properties: `VariablesAreLive` (the variables never hold what has closed, also when two callers have opened two connections
and the forgotten one closes later), `NobodyForgotten` (whenever a consumer is off, the startup, a recovery or a timer
will start it), `ConsumersComeBack`.  The last two are said while the last close is one the recovery is made for (`Foreseen`): a connection,
and not during a recovery.  Such a close makes up for the others before it, and section 9 says what
happens until then.  So a timer that is lost to a recovery which then succeeds is outside these two properties.
Fairness: timers fire, the worker goes on with its cycles, and what is awaited settles.

`Messaging_proofs` proves types, `VariablesAreLive` and `NobodyForgotten` for any number of closes and failed
connects.  A connection is a number and a channel one of its connection (`Fresh`), without a bound: those open or still subscribed are finitely
many, so one is always free.  The invariant `RabbitInv`: what a task has taken from the variables is open as long as it was not
told otherwise (`IsLive`), a timer and a recovery never wait at the same time, and while only foreseen closes have happened the
consumers that the startup has passed are subscribed or a recovery or timer is to come, and those a recovery has passed
are subscribed (`OnTheWay`).

### Runs

| run | instance | shows |
|---|---|---|
| `events_safety` | a refund event and a status event, 2 callbacks, one close or crash; one refund, 2 overlapping calls, 2 retries, 2 faults, a second key; 2 connection closes, 2 failed connects, one channel close | the safety properties and the refinement |
| `events_liveness` | one refund with 2 calls, one retry and one fault; 2 connection closes, 1 failed connect, one channel close | `SettledOrUnidentified`, `ConsumersComeBack` |
| `delivery_liveness` | one event of a missing row published twice, 2 callbacks, prefetch 1, one close (foreseen or not) or crash | `EveryMessageSettles`, with copies that wait for the prefetch |
| `refund_unreconciled` | one refund, one call at a time, the code's 3 retries, no fault but what a call fails to get | `ReconciledWithGateway` is not kept |

Messages share only the callbacks and the prefetch; an original that is delivered again and its own copy already overlap.
Names of callbacks, calls and workers are the same in the configuration so that one symmetry is of all.  The three retry
queues have the code's number in `Delivery`; `Refund` only needs a first, a middle and a last try.  Two calls are what
overlaps at the gateway, with the worker as a third; a third call adds nothing but another of the same.  Two closes put one into
a recovery that an earlier one started.  The theorems of `Refund_proofs` and `Messaging_proofs` need none of these bounds.

## 7. Accounts: `Login`, `Session`, `Address`

### `Login`

`cookie` holds the state and the page that `googleLogin` sets together, `flow` is Google's side, `callback[c]` is a
running `googleCallback`, `used` the codes Google has exchanged.  Actions: `Start` (`googleLogin`), `Consent` (external),
`Request`, then one action for each await of the callback (`Check`, `Exchange`, `FindUser`, `CreateUser`,
`CreateSession`, `Answer`), `Lose` (the answer is lost and the browser asks again), `Expire`.

`OneSessionPerFlow`: a flow creates one session however often its callback is requested; the state does not
prevent that while a callback runs, Google's exchange does.  `ReturnsWhereItStarted`: tabs overwrite
each other's cookies, and a login still returns to its own page.  `Accounts_proofs` proves both for any number of flows, browsers
and callbacks (`LoginConstants`: `None` is none of them): at most one callback of a flow is past the exchange, and it got there
with its own flow in its cookie (`ExchangedOnce`, `StateWasChecked`).

### `Session`

The rows of `Session`, the cookie `jar` that the tabs of a browser share, what each tab shows (`page`, `waiting`: the
`refreshPromise` of `AuthContext`), and the requests under way.  Actions: `Load`, `SignIn`, `GetMe`, `Logout`,
`LogoutAll` of the pages; `RefreshRead`, `RotateSession`, `LogoutRead`, `RevokeSession`, `RevokeAllSessions` of
`auth.service.ts`, one per statement; `Answer`, `Disconnect` (the request or the answer is lost, the server may carry on), `Tick`.
A refresh token is a function of the session and the second of its issue, as `lib/jwt.ts` makes it.

`ExchangedIsDead`: a token that was exchanged is never accepted again.  `RevokedForGood`: no refresh that read a
session before its logout renews it after.

`Accounts_proofs` proves types and both for any number of sessions, browsers, tabs and requests, any lifetime and any time
(`SessionConstants`; MCAccounts calls the browsers `Devices`).  The invariant `SessionInv`: a token that anybody holds was issued by now for a session
that exists (`Known`), a row's token is its own (`RowOK`), and a renewal is of a token no newer than the one it gave (`RequestOK`).  So
the token of a row only becomes newer, and every token exchanged before is behind it (`Past`); one that is as new is the
row's own because it was exchanged for itself.  `EndedNext` shows that no step gives a revoked row another end, from which the
action property follows.

### `Address`

The four transactions of `address.service.ts` under READ COMMITTED: `rows` are committed, `writes` the uncommitted rows of each
transaction with their locks, and each statement sees the committed rows and its own.  `updateMany` is three actions: the rows it
finds when it begins (`ClearBegin`), each of them when its lock is free and as it has become (`ClearRow`), and the end (`ClearEnd`).
`Find`, `Insert`, `Set`, `Delete`, `FindSuccessor`, `Commit` are the other statements; `Abort` ends a transaction that waits.

`OneDefault`: requests that do not overlap leave one default, and one there is unless the customer switched it off (what
happens to overlapping ones is in section 9).  `ChosenIsDefault`: an address that a request makes the default
is the default when the request is answered, whatever it overlapped.

`Accounts_proofs` proves types and both for any number of addresses and requests (`AddressConstants`).  `AddressInv` holds whatever
overlaps: a write is to a row that exists or that the transaction inserted (`WritesOK`), a row that is being created is known to its creator
alone (`CreatedOK`), and a transaction at its commit has made the chosen address the default (`ChosenOK`).  `AloneInv` says of a
transaction that runs alone what it sees after each statement (`AloneOK`): at `clearing`, every default it sees is among
the rows still to be cleared; at `insert` and `set`, none is left; so the table it commits is as good as the one it found.

### Run

`accounts_safety`: 3 flows in 2 browsers with 3 callbacks (a second flow in one browser, a repeated callback, and both at once);
one session in 2 tabs, 3 requests, two seconds (a rotation with two rivals; tokens of one second and of different ones); 4
requests about 3 addresses (two may set a default, one may delete it, one may begin in between).  Sessions share nothing but
`logoutAll`, which treats each alike.  The theorems need none of these bounds.

## 8. The shop: `Checkout`, `Storefront`, `Menu`

### `Checkout`

`cart`, `items`, `orders`, the row lock `cartLock`, and `req[r]`, what each request is doing.

| code | actions |
|---|---|
| `addItem` | `AddCheckMenu`, `AddFindCart`, `CreateCart`, `AddFindItem`, `Increment` or `Insert` |
| `updateItem`, `removeItem`, `clearCart` | `FindItem`, then `UpdateQuantity` or `DeleteItem`; `ClearCart` |
| `createOrder` | `LockCart`, `ReadItems`, `ReadMenu`, `Commit` |
| administrators | `ChangeMenu` |

The lock makes another checkout wait and, through the foreign key of `CartItem`, the insert of a new item, but not the update or delete
of one.  `OrderedOnce`: two orders share no row of the cart.  `ClearedWasOrdered`: `clearCart`, which names no row, deletes
only what the order contains.  Both are about checkouts that found a cart to lock; a checkout that began before the
customer had a cart locks nothing.  That a raised quantity may be cleared unordered is in section 9; that an
item is never twice in the cart nor more than 20 times is part of `TypeOK`.

`Checkout_proofs` proves type correctness and both properties for any number of requests, items and quantities
(`CheckoutConstants`).  The argument: ids are never used again and a commit empties the cart, so what is in an order is
not in the cart (`OrderedIsGone`); a checkout with the lock carries all the cart holds, and nothing of it is ordered by another
(`CarriesTheCart`), since inserts wait for the lock and so do other checkouts (`LockIsHeld`).

### `Storefront`

The server's `cart` and `orders` in one step each, and the page: the cart shown (`view`), the calls of `CartContext`
(`op`), the handler of the order button (`click`), the payment window, the payment's handler (`told`) and the `screen`.  One action
per event handler up to its next await; every answer may be lost.  `NothingOrderedTwice`: pressing again after a lost answer, a failed payment or a
closed window orders nothing twice.  `ScreenIsTrue`: "confirmed" and "received" are shown of orders that are.

`Shop_proofs` proves types and both for any number of items, calls and orders (`StorefrontConstants`).  The invariant `PageInv`: the
server's cart is apart from every order, whatever the page still shows (`CartIsApart`); the handler of the button, the window and its handler
come one at a time, so the order they are about is not replaced before they have ended (`OneAtATime`); and the payment's handler
runs only for what was paid (`ToldIsPaid`).

### `Menu`

The six mutations of `menu.service.ts`, check by check and write by write, with the constraints of the schema at the write.
`MenuIsConsistent`: names are unique and references exist, although no transaction spans check and write.

`Shop_proofs` proves types and the property for any number of categories, items, names and requests (`MenuConstants`).  What a request has
found before does not matter: every row is written under the constraints of that moment (`Put`).  To show is that a request writes only rows of its
own kind (`Asked`, `Fits`), and a row with references to it cannot go.

### Run

`shop_safety`: 3 overlapping requests of a customer about 2 menu items, quantities to 2 (one fills the cart, two check out or one
checks out and one edits); a page with 3 cart calls and 2 orders; 2 overlapping requests of administrators on every menu of 2 categories
and 2 items with 2 names.  The theorems need none of these bounds.

## 9. Observations without a run

Behaviour met while modelling that no run calls a violation: no document of the repository denies it, except where the
item says so.

* Two overlapping requests that each make another address the default may leave two defaults: each `updateMany` clears only the
  defaults it saw (`address.service.ts:29`, `:130`).  `OneDefault` is therefore stated for requests that do not overlap.
* A refresh within the second of the token's issue returns the same token (`lib/jwt.ts:39`), which stays valid;
  `ExchangedIsDead` excepts it.
* Two tabs that refresh at once end the session of both: the loser of `rotateSession` revokes it (`auth.service.ts:159`).
* The OAuth state is accepted again while a callback runs, because only its answer clears it (`auth.controller.ts:182`), although the
  comment at `auth.controller.ts:212` says "State is one-time-use."  The comment stands over no code; what it is for holds, since Google exchanges a
  code once (`OneSessionPerFlow`).  Two concurrent logins in one browser cancel each other, since any answer clears the cookies of both.
* A quantity raised while a checkout runs is cleared with its row and not ordered (`cart.repository.ts:89`).
* A consumer channel that closes alone leaves its consumers off until the connection closes (`config/rabbitmq.ts:233`); so does a connection
  that closes during a recovery which then succeeds, when its timer fires before the end (`:97`).
* A consume callback that acknowledges or publishes on a closed channel throws outside any `try`, and the unhandled rejection ends the process.
* On the address page a late answer is not recognised as late: of two points chosen in quick succession the slower
  geocoder answer selects its own point while the marker is at the other (`DeliveryLocationMap.tsx:171`), and a GPS fix
  that arrives after the customer chose a point replaces it (`:132`).
* A payment window that was dismissed cannot be opened again from the page: its order exists, and the cart is empty.

## 10. Not modelled

* Request validation, authentication middleware, rate limits, configuration, logging, health checks: stateless, or state no
  other part reads.
* The rooms of socket.io: they are the library's, and the program keeps no state for them.
* The other pages of the frontend, which load and show; the address page with its map
  (`DeliveryLocationMap.tsx`), of which section 9 says what was met in it.
* `prisma/seed.ts`, the generated Prisma client, `dist/`.
* Amounts, prices, distances, signatures and texts, wherever they only decide whether a request is refused.

## 11. Running

    tlc -config OrderPayment_safety.cfg MCOrderPayment.tla
    tlc -config Events_safety.cfg MCEvents.tla
    tlc -config Delivery_liveness.cfg Delivery.tla
    tlc -config Accounts_safety.cfg MCAccounts.tla
    tlc -config Shop_safety.cfg MCShop.tla
    tlapm OrderPayment_proofs.tla

and the same with the other configurations, listed under `runs` in `PROJECT.json`, and with `Lifecycle_proofs`, `Outbox_proofs`,
`Refund_proofs`, `Messaging_proofs`, `Checkout_proofs`, `Shop_proofs` and `Accounts_proofs`.  The modules that check several components
in one run (`MCMessaging`, `MCAccounts`, `MCShop`) are the modules the theorems about those components are stated in: the
theorems are about the same specification as the run, for every value of the constants.  `MCEvents`, which the runs of the
events are of, adds `Outbox` to `MCMessaging` as a part of its own: `Outbox_proofs` is about it, `Messaging_proofs` about `MCMessaging`.
