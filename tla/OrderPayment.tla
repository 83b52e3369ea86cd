---------------------------- MODULE OrderPayment ----------------------------
(***************************************************************************)
(* The money path of the Delirium backend: paying for an order, recording  *)
(* the captured payment, moving and cancelling the order, refunding it.    *)
(*                                                                         *)
(*   payment.service.ts     initiatePayment, verifyPayment,                *)
(*                          markPaymentSuccessful                          *)
(*   webhook.controller.ts  handleRazorpayWebhook                          *)
(*   order.service.ts       updateOrderStatus, cancelOrder,                *)
(*                          confirmOrderAfterPayment                       *)
(*   refund.service.ts      the database transitions of a refund           *)
(*                                                                         *)
(* Every invocation of a service function is a small process with a        *)
(* program counter.  One step is one database statement or one             *)
(* transaction, split wherever another invocation can run in between and   *)
(* change what was read.  Two reductions are made, both exact:             *)
(*   - taking the advisory lock and reading under it is one step: the      *)
(*     lock is what the reader waits for;                                  *)
(*   - a compare-and-set up to the COMMIT of its transaction is one step:  *)
(*     the row stays locked from the UPDATE to the COMMIT, so another      *)
(*     writer of that row waits and a reader sees the old row.             *)
(*                                                                         *)
(* A request identifier also names what that request creates: its creation *)
(* token, its PaymentAttempt row, its Razorpay order, and the payment      *)
(* Razorpay captures for that order.  A request creates at most one of     *)
(* each.                                                                   *)
(*                                                                         *)
(* A definition Name_Variant is Name with a mistake in it.  Nothing here   *)
(* uses it: it is what a property is tried against, see README.md.         *)
(***************************************************************************)
EXTENDS Naturals, Sequences, FiniteSets

CONSTANTS Orders,     \* orders, created PENDING by createOrder
          Requests,   \* invocations of initiatePayment
          Handlers,   \* slots for concurrent verifyPayment/webhook invocations
          Admins,     \* slots for concurrent status/cancel invocations
          RefundIds,  \* refund ids crypto.randomUUID() hands out
          NULL        \* SQL NULL, "nobody", "nothing"

ASSUME ConstantsAssumption ==
    /\ NULL \notin Orders \cup Requests \cup Handlers \cup Admins \cup RefundIds
    /\ Handlers \cap Admins = {}

VARIABLES orderStatus,   \* Order.status
          payment,       \* Payment.status of the order, "NONE": no row
          attempt,       \* PaymentAttempt rows, by the request that made them
          refund,        \* Refund rows
          outbox,        \* OutboxEvent rows of each order, oldest first
          webhookEvent,  \* WebhookEvent row of a gateway order's paid event
          gatewayOrder,  \* external: the order as Razorpay knows it
          orderLock,     \* holder of the order's advisory lock
          request,       \* the running initiatePayment invocations
          handler,       \* the running verifyPayment/webhook invocations
          admin          \* the running updateOrderStatus/cancelOrder ones

database == <<orderStatus, payment, attempt, refund, outbox, webhookEvent>>
vars == <<database, gatewayOrder, orderLock, request, handler, admin>>

-----------------------------------------------------------------------------
OrderStatus == {"PENDING", "CONFIRMED", "PREPARING", "READY",
                "OUT_FOR_DELIVERY", "DELIVERED", "CANCELLED"}

allowedOrderStatusTransitions ==
    [s \in OrderStatus |->
        CASE s = "PENDING"          -> {"CONFIRMED", "CANCELLED"}
          [] s = "CONFIRMED"        -> {"PREPARING", "CANCELLED"}
          [] s = "PREPARING"        -> {"READY"}
          [] s = "READY"            -> {"OUT_FOR_DELIVERY"}
          [] s = "OUT_FOR_DELIVERY" -> {"DELIVERED"}
          [] OTHER                  -> {}]

PaymentStatus == {"NONE", "PENDING", "SUCCESS", "REFUNDED"}
RefundStatus  == {"NONE", "PENDING", "PROCESSING", "SUCCESS", "FAILED"}

Attempt == [order: Orders \cup {NULL},
            status: {"NONE", "CREATED", "SUCCESS"},
            gatewayOrderId: Requests \cup {NULL},
            creationToken: Requests \cup {NULL},
            gatewayPaymentId: Requests \cup {NULL}]

Refund == [order: Orders \cup {NULL}, status: RefundStatus,
           gatewayPaymentId: Requests \cup {NULL}]

PaymentSuccess(a)          == [eventType |-> "PAYMENT_SUCCESS", attempt |-> a]
OrderStatusChanged(s, t)   == [eventType |-> "ORDER_STATUS_CHANGED",
                               previousStatus |-> s, newStatus |-> t]
RefundRequested(f)         == [eventType |-> "REFUND_REQUESTED", refund |-> f]

Event == {PaymentSuccess(a) : a \in Requests}
           \cup {OrderStatusChanged(s, t) : s \in OrderStatus, t \in OrderStatus}
           \cup {RefundRequested(f) : f \in RefundIds}

NoAttempt == [order |-> NULL, status |-> "NONE", gatewayOrderId |-> NULL,
              creationToken |-> NULL, gatewayPaymentId |-> NULL]
NoRefund  == [order |-> NULL, status |-> "NONE", gatewayPaymentId |-> NULL]

RequestProcess ==
    [pc: {"idle", "tx", "claim", "create", "release", "finalize", "returned",
          "failed"},
     order: Orders \cup {NULL}, attempt: Requests \cup {NULL},
     gatewayOrderId: Requests \cup {NULL}]
HandlerProcess ==
    [pc: {"idle", "lookup", "mark", "commit", "processed"},
     kind: {"none", "webhook", "verify"},
     gatewayOrder: Requests \cup {NULL}, attempt: Requests \cup {NULL},
     seenAttempt: {"NONE", "CREATED", "SUCCESS"}, seenPayment: PaymentStatus]
AdminProcess ==
    [pc: {"idle", "patch", "cancel"}, order: Orders \cup {NULL},
     seenStatus: OrderStatus, seenPayment: PaymentStatus, newStatus: OrderStatus]

IdleRequest == [pc |-> "idle", order |-> NULL, attempt |-> NULL,
                gatewayOrderId |-> NULL]
IdleHandler == [pc |-> "idle", kind |-> "none", gatewayOrder |-> NULL,
                attempt |-> NULL, seenAttempt |-> "NONE", seenPayment |-> "NONE"]
IdleAdmin   == [pc |-> "idle", order |-> NULL, seenStatus |-> "PENDING",
                seenPayment |-> "NONE", newStatus |-> "PENDING"]

TypeOK ==
    /\ orderStatus \in [Orders -> OrderStatus]
    /\ payment \in [Orders -> PaymentStatus]
    /\ attempt \in [Requests -> Attempt]
    /\ refund \in [RefundIds -> Refund]
    /\ outbox \in [Orders -> Seq(Event)]
    /\ webhookEvent \in [Requests -> {"none", "received", "processed"}]
    /\ gatewayOrder \in [Requests -> {"none", "created", "paid"}]
    /\ orderLock \in [Orders -> Handlers \cup Admins \cup {NULL}]
    /\ request \in [Requests -> RequestProcess]
    /\ handler \in [Handlers -> HandlerProcess]
    /\ admin \in [Admins -> AdminProcess]

Init ==
    /\ orderStatus = [o \in Orders |-> "PENDING"]
    /\ payment = [o \in Orders |-> "NONE"]
    /\ attempt = [a \in Requests |-> NoAttempt]
    /\ refund = [f \in RefundIds |-> NoRefund]
    /\ outbox = [o \in Orders |-> << >>]
    /\ webhookEvent = [g \in Requests |-> "none"]
    /\ gatewayOrder = [g \in Requests |-> "none"]
    /\ orderLock = [o \in Orders |-> NULL]
    /\ request = [r \in Requests |-> IdleRequest]
    /\ handler = [h \in Handlers |-> IdleHandler]
    /\ admin = [x \in Admins |-> IdleAdmin]

-----------------------------------------------------------------------------
(* Repository functions.                                                   *)

\* pg_advisory_xact_lock: waits until free, held until COMMIT or ROLLBACK.
OrderLockFree(o) == orderLock[o] = NULL

AcquireOrderLock_NotTaken(o, p) == orderLock' = orderLock
AcquireOrderLock(o, p) == orderLock' = [orderLock EXCEPT ![o] = p]

ReleaseOrderLock(o) == orderLock' = [orderLock EXCEPT ![o] = NULL]

\* The WHERE clause of orderRepository.updateOrderStatus.
StatusIsStill_Unchecked(o, currentStatus) == TRUE
StatusIsStill(o, currentStatus) == orderStatus[o] = currentStatus

\* outboxRepository.createEvent, inside the caller's transaction.
CreateEvent(o, e) == outbox' = [outbox EXCEPT ![o] = Append(@, e)]

\* findActiveAttemptByPaymentId: any row the query may return first.
ActiveAttempts(o) ==
    {a \in Requests : /\ attempt[a].order = o
                      /\ attempt[a].status = "CREATED"
                      /\ attempt[a].gatewayOrderId # NULL}

SuccessfulAttempts(o) ==
    {a \in Requests : attempt[a].order = o /\ attempt[a].status = "SUCCESS"}

\* createPaymentAttempt, with the column defaults of the schema.
CreatedAttempt_PaymentStatus(o) == [NoAttempt EXCEPT !.order = o, !.status = "PENDING"]
CreatedAttempt(o) == [NoAttempt EXCEPT !.order = o, !.status = "CREATED"]

\* An initiatePayment call answers its client with the id of a gateway order.
Return(r, g) == request' = [request EXCEPT ![r].pc = "returned",
                                           ![r].gatewayOrderId = g]

-----------------------------------------------------------------------------
(* initiatePayment                                                         *)

\* Reads the order outside any lock and refuses one that is not PENDING.
InitiateCheck(r, o) ==
    /\ request[r].pc = "idle"
    /\ orderStatus[o] = "PENDING"
    /\ request' = [request EXCEPT ![r].pc = "tx", ![r].order = o]
    /\ UNCHANGED <<database, gatewayOrder, orderLock, handler, admin>>

\* The transaction under the order lock: get or create the Payment, get or
\* create the active attempt.  An attempt that has its gateway order already is
\* returned to the client at once.
InitiateTx(r) ==
    LET o == request[r].order IN
    /\ request[r].pc = "tx"
    /\ OrderLockFree(o)
    /\ \/ /\ payment[o] = "SUCCESS"
          /\ request' = [request EXCEPT ![r].pc = "failed"]
          /\ UNCHANGED <<payment, attempt>>
       \/ /\ payment[o] # "SUCCESS"
          /\ payment' = [payment EXCEPT ![o] = IF @ = "NONE" THEN "PENDING" ELSE @]
          /\ \/ \E a \in ActiveAttempts(o) :
                   /\ request' = [request EXCEPT ![r] =
                         [pc |-> IF attempt[a].gatewayOrderId # NULL
                                 THEN "returned" ELSE "claim",
                          order |-> o, attempt |-> a,
                          gatewayOrderId |-> attempt[a].gatewayOrderId]]
                   /\ UNCHANGED attempt
             \/ /\ ActiveAttempts(o) = {}
                /\ attempt' = [attempt EXCEPT ![r] = CreatedAttempt(o)]
                /\ request' = [request EXCEPT ![r] =
                      [pc |-> "claim", order |-> o, attempt |-> r,
                       gatewayOrderId |-> NULL]]
    /\ UNCHANGED <<orderStatus, refund, outbox, webhookEvent, gatewayOrder,
                   orderLock, handler, admin>>

\* claimGatewayOrderCreationLease.  The clock is abstracted: a lease that is
\* held may have lapsed or not.  A refused request rereads the attempt and
\* returns its gateway order if it has one by now.
ClaimLease(r) ==
    LET a == request[r].attempt IN
    /\ request[r].pc = "claim"
    /\ \E lapsed \in BOOLEAN :
         IF /\ attempt[a].gatewayOrderId = NULL
            /\ attempt[a].status = "CREATED"
            /\ attempt[a].creationToken = NULL \/ lapsed
         THEN /\ attempt' = [attempt EXCEPT ![a].creationToken = r]
              /\ request' = [request EXCEPT ![r].pc = "create"]
         ELSE /\ IF attempt[a].gatewayOrderId # NULL
                 THEN Return(r, attempt[a].gatewayOrderId)
                 ELSE request' = [request EXCEPT ![r].pc = "failed"]
              /\ UNCHANGED attempt
    /\ UNCHANGED <<orderStatus, payment, refund, outbox, webhookEvent,
                   gatewayOrder, orderLock, handler, admin>>

\* paymentGateway.createOrder: it answers, or it throws, and a call that throws
\* may have created the order at Razorpay all the same (a lost answer).
GatewayCreateOrder(r) ==
    /\ request[r].pc = "create"
    /\ \E result \in {"answered", "failed", "answerLost"} :
         /\ gatewayOrder' = [gatewayOrder EXCEPT ![r] =
                                IF result = "failed" THEN "none" ELSE "created"]
         /\ request' = [request EXCEPT ![r].pc =
                                IF result = "answered" THEN "finalize" ELSE "release"]
    /\ UNCHANGED <<database, orderLock, handler, admin>>

HoldsLease(r, a) ==
    attempt[a].gatewayOrderId = NULL /\ attempt[a].creationToken = r

\* releaseGatewayOrderCreationLease, then the error is rethrown.
ReleaseLease(r) ==
    LET a == request[r].attempt IN
    /\ request[r].pc = "release"
    /\ attempt' = IF HoldsLease(r, a)
                  THEN [attempt EXCEPT ![a].creationToken = NULL] ELSE attempt
    /\ request' = [request EXCEPT ![r].pc = "failed"]
    /\ UNCHANGED <<orderStatus, payment, refund, outbox, webhookEvent,
                   gatewayOrder, orderLock, handler, admin>>

\* finalizeGatewayOrderCreation and the answer to the client.
Finalize_OrderIdNotSaved(r) ==
    /\ request[r].pc = "finalize"
    /\ attempt' = [attempt EXCEPT ![request[r].attempt].creationToken = NULL]
    /\ Return(r, r)
    /\ UNCHANGED <<orderStatus, payment, refund, outbox, webhookEvent,
                   gatewayOrder, orderLock, handler, admin>>
Finalize(r) ==
    LET a == request[r].attempt IN
    /\ request[r].pc = "finalize"
    /\ IF HoldsLease(r, a)
       THEN /\ attempt' = [attempt EXCEPT ![a].gatewayOrderId = r,
                                          ![a].creationToken = NULL]
            /\ Return(r, r)
       ELSE /\ request' = [request EXCEPT ![r].pc = "failed"]
            /\ UNCHANGED attempt
    /\ UNCHANGED <<orderStatus, payment, refund, outbox, webhookEvent,
                   gatewayOrder, orderLock, handler, admin>>

\* The process dies, the client goes away or a statement fails: the rest of the
\* invocation never runs, a lease it took stays in the row.
AbortRequest(r) ==
    /\ request[r].pc \in {"tx", "claim", "create", "release", "finalize"}
    /\ request' = [request EXCEPT ![r].pc = "failed"]
    /\ UNCHANGED <<database, gatewayOrder, orderLock, handler, admin>>

\* External: the customer pays a gateway order whose id the client was given.
CustomerPays(g) ==
    /\ \E r \in Requests :
          request[r].pc = "returned" /\ request[r].gatewayOrderId = g
    /\ gatewayOrder[g] = "created"
    /\ gatewayOrder' = [gatewayOrder EXCEPT ![g] = "paid"]
    /\ UNCHANGED <<database, orderLock, request, handler, admin>>

-----------------------------------------------------------------------------
(* verifyPayment, handleRazorpayWebhook and markPaymentSuccessful          *)

\* fetchPayment says "captured".
Captured_NotChecked(g) == gatewayOrder[g] # "none"
Captured(g) == gatewayOrder[g] = "paid"

Received(kind, g) ==
    [IdleHandler EXCEPT !.pc = "lookup", !.kind = kind, !.gatewayOrder = g]

\* The idempotency check on the WebhookEvent row of the paid event.
AlreadyHandled_RowExists(g) == webhookEvent[g] # "none"
AlreadyHandled(g) == webhookEvent[g] = "processed"

\* A delivery of the paid event: answered 200 at once if the event is processed,
\* otherwise its row is inserted, or found when another delivery inserted it.
WebhookReceive(h, g) ==
    /\ handler[h].pc = "idle"
    /\ Captured(g)
    /\ ~AlreadyHandled(g)
    /\ webhookEvent' = [webhookEvent EXCEPT ![g] = "received"]
    /\ handler' = [handler EXCEPT ![h] = Received("webhook", g)]
    /\ UNCHANGED <<orderStatus, payment, attempt, refund, outbox, gatewayOrder,
                   orderLock, request, admin>>

\* The client posts the payment it made.
VerifyReceive(h, g) ==
    /\ handler[h].pc = "idle"
    /\ Captured(g)
    /\ handler' = [handler EXCEPT ![h] = Received("verify", g)]
    /\ UNCHANGED <<database, gatewayOrder, orderLock, request, admin>>

\* findAttemptByGatewayOrderId and the checks on the row it returns.  They read
\* only columns that never change once set (ids, amounts, gatewayOrderId).
FindAttempt(h) ==
    LET found == {a \in Requests :
                     attempt[a].gatewayOrderId = handler[h].gatewayOrder} IN
    /\ handler[h].pc = "lookup"
    /\ \/ /\ found = {}
          /\ handler' = [handler EXCEPT ![h] = IdleHandler]
       \/ \E a \in found :
             handler' = [handler EXCEPT ![h].pc = "mark", ![h].attempt = a]
    /\ UNCHANGED <<database, gatewayOrder, orderLock, request, admin>>

\* markPaymentSuccessful: take the order lock, read the attempt and its payment.
MarkBegin(h) ==
    LET a == handler[h].attempt
        o == attempt[a].order IN
    /\ handler[h].pc = "mark"
    /\ OrderLockFree(o)
    /\ AcquireOrderLock(o, h)
    /\ handler' = [handler EXCEPT ![h] =
          [pc |-> "commit", kind |-> handler[h].kind,
           gatewayOrder |-> handler[h].gatewayOrder, attempt |-> a,
           seenAttempt |-> attempt[a].status, seenPayment |-> payment[o]]]
    /\ UNCHANGED <<database, gatewayOrder, request, admin>>

\* The transaction ends; a webhook that got an answer goes on to markProcessed,
\* everything else has answered its caller.
MarkReturns_EvenIfThrown(h, ok) ==
    /\ ReleaseOrderLock(attempt[handler[h].attempt].order)
    /\ handler' = [handler EXCEPT ![h] =
          IF handler[h].kind = "webhook"
          THEN [handler[h] EXCEPT !.pc = "processed"] ELSE IdleHandler]
MarkReturns(h, ok) ==
    /\ ReleaseOrderLock(attempt[handler[h].attempt].order)
    /\ handler' = [handler EXCEPT ![h] =
          IF ok /\ handler[h].kind = "webhook"
          THEN [handler[h] EXCEPT !.pc = "processed"] ELSE IdleHandler]

MarkAlreadyDone_EventAgain(h) ==
    /\ handler[h].pc = "commit"
    /\ handler[h].seenAttempt = "SUCCESS" /\ handler[h].seenPayment = "SUCCESS"
    /\ CreateEvent(attempt[handler[h].attempt].order,
                   PaymentSuccess(handler[h].attempt))
    /\ MarkReturns(h, TRUE)
    /\ UNCHANGED <<orderStatus, payment, attempt, refund, webhookEvent,
                   gatewayOrder, request, admin>>

\* The payment is recorded already: nothing is written, no second event.
MarkAlreadyDone(h) ==
    /\ handler[h].pc = "commit"
    /\ handler[h].seenAttempt = "SUCCESS" /\ handler[h].seenPayment = "SUCCESS"
    /\ MarkReturns(h, TRUE)
    /\ UNCHANGED <<database, gatewayOrder, request, admin>>

\* The attempt is not CREATED or the payment not PENDING: 409, rolled back.
MarkRejected(h) ==
    /\ handler[h].pc = "commit"
    /\ handler[h].seenAttempt # "CREATED" \/ handler[h].seenPayment # "PENDING"
    /\ ~(handler[h].seenAttempt = "SUCCESS" /\ handler[h].seenPayment = "SUCCESS")
    /\ MarkReturns(h, FALSE)
    /\ UNCHANGED <<database, gatewayOrder, request, admin>>

\* CREATED -> SUCCESS and PENDING -> SUCCESS, then the gateway payment id and the
\* PAYMENT_SUCCESS event.  When one of the two updates hits no row the code rereads
\* and commits what it has if both rows are SUCCESS by now, else it rolls back.
MarkCommit(h) ==
    LET a == handler[h].attempt
        o == attempt[a].order
        attemptUpdated == attempt[a].status = "CREATED"
        paymentUpdated == payment[o] = "PENDING"
        bothSuccess    == /\ attemptUpdated \/ attempt[a].status = "SUCCESS"
                          /\ paymentUpdated \/ payment[o] = "SUCCESS" IN
    /\ handler[h].pc = "commit"
    /\ handler[h].seenAttempt = "CREATED" /\ handler[h].seenPayment = "PENDING"
    /\ IF bothSuccess
       THEN /\ payment' = [payment EXCEPT ![o] = "SUCCESS"]
            /\ IF attemptUpdated /\ paymentUpdated
               THEN /\ attempt' = [attempt EXCEPT
                          ![a].status = "SUCCESS",
                          ![a].gatewayPaymentId = IF @ = NULL
                              THEN handler[h].gatewayOrder ELSE @]
                    /\ CreateEvent(o, PaymentSuccess(a))
               ELSE /\ attempt' = [attempt EXCEPT ![a].status = "SUCCESS"]
                    /\ UNCHANGED outbox
       ELSE UNCHANGED <<payment, attempt, outbox>>
    /\ MarkReturns(h, bothSuccess)
    /\ UNCHANGED <<orderStatus, refund, webhookEvent, gatewayOrder, request, admin>>

\* webhookRepository.markProcessed, after the payment's transaction committed.
MarkProcessed(h) ==
    /\ handler[h].pc = "processed"
    /\ webhookEvent' = [webhookEvent EXCEPT ![handler[h].gatewayOrder] = "processed"]
    /\ handler' = [handler EXCEPT ![h] = IdleHandler]
    /\ UNCHANGED <<orderStatus, payment, attempt, refund, outbox, gatewayOrder,
                   orderLock, request, admin>>

\* The invocation dies; an open transaction rolls back and gives up its lock.
AbortHandler(h) ==
    /\ handler[h].pc # "idle"
    /\ handler' = [handler EXCEPT ![h] = IdleHandler]
    /\ IF handler[h].pc = "commit"
       THEN ReleaseOrderLock(attempt[handler[h].attempt].order)
       ELSE UNCHANGED orderLock
    /\ UNCHANGED <<database, gatewayOrder, request, admin>>

-----------------------------------------------------------------------------
(* updateOrderStatus, cancelOrder, confirmOrderAfterPayment                *)

\* PATCH /orders/:id/status reads the order without a lock and looks the new
\* status up in the table of allowed transitions.
UpdateOrderStatusRead(x, o, s) ==
    /\ admin[x].pc = "idle"
    /\ s \in allowedOrderStatusTransitions[orderStatus[o]]
    /\ admin' = [admin EXCEPT ![x] = [IdleAdmin EXCEPT !.pc = "patch",
            !.order = o, !.seenStatus = orderStatus[o], !.newStatus = s]]
    /\ UNCHANGED <<database, gatewayOrder, orderLock, request, handler>>

\* It then moves the order if its status is still the one it read.
UpdateOrderStatusCommit(x) ==
    LET o == admin[x].order IN
    /\ admin[x].pc = "patch"
    /\ IF StatusIsStill(o, admin[x].seenStatus)
       THEN /\ orderStatus' = [orderStatus EXCEPT ![o] = admin[x].newStatus]
            /\ CreateEvent(o, OrderStatusChanged(admin[x].seenStatus,
                                                 admin[x].newStatus))
       ELSE UNCHANGED <<orderStatus, outbox>>
    /\ admin' = [admin EXCEPT ![x] = IdleAdmin]
    /\ UNCHANGED <<payment, attempt, refund, webhookEvent, gatewayOrder,
                   orderLock, request, handler>>

\* cancelOrder: take the order lock, read the order with its payment.
CancelBegin(x, o) ==
    /\ admin[x].pc = "idle"
    /\ OrderLockFree(o)
    /\ "CANCELLED" \in allowedOrderStatusTransitions[orderStatus[o]]
    /\ AcquireOrderLock(o, x)
    /\ admin' = [admin EXCEPT ![x] = [IdleAdmin EXCEPT !.pc = "cancel",
            !.order = o, !.seenStatus = orderStatus[o],
            !.seenPayment = payment[o], !.newStatus = "CANCELLED"]]
    /\ UNCHANGED <<database, gatewayOrder, request, handler>>

\* The order is cancelled; if the payment it read was SUCCESS, the refund and its
\* REFUND_REQUESTED event are written in the same transaction.
\* Without a successful attempt or its payment id it throws, which is AbortAdmin.
CancelCommit(x) ==
    LET o == admin[x].order IN
    /\ admin[x].pc = "cancel"
    /\ \/ /\ ~StatusIsStill(o, admin[x].seenStatus)
          /\ UNCHANGED <<orderStatus, refund, outbox>>
       \/ /\ StatusIsStill(o, admin[x].seenStatus)
          /\ admin[x].seenPayment # "SUCCESS"
          /\ orderStatus' = [orderStatus EXCEPT ![o] = "CANCELLED"]
          /\ UNCHANGED <<refund, outbox>>
       \/ /\ StatusIsStill(o, admin[x].seenStatus)
          /\ admin[x].seenPayment = "SUCCESS"
          /\ \E a \in SuccessfulAttempts(o), f \in RefundIds :
               /\ attempt[a].gatewayPaymentId # NULL
               /\ refund[f].status = "NONE"
               /\ refund' = [refund EXCEPT ![f] = [order |-> o,
                     status |-> "PENDING",
                     gatewayPaymentId |-> attempt[a].gatewayPaymentId]]
               /\ CreateEvent(o, RefundRequested(f))
          /\ orderStatus' = [orderStatus EXCEPT ![o] = "CANCELLED"]
    /\ ReleaseOrderLock(o)
    /\ admin' = [admin EXCEPT ![x] = IdleAdmin]
    /\ UNCHANGED <<payment, attempt, webhookEvent, gatewayOrder, request, handler>>

AbortAdmin(x) ==
    /\ admin[x].pc # "idle"
    /\ admin' = [admin EXCEPT ![x] = IdleAdmin]
    /\ IF admin[x].pc = "cancel"
       THEN ReleaseOrderLock(admin[x].order)
       ELSE UNCHANGED orderLock
    /\ UNCHANGED <<database, gatewayOrder, request, handler>>

\* The consumer of PAYMENT_SUCCESS may run at any time after the event is written,
\* any number of times.  It moves a PENDING order and changes nothing otherwise.
ConfirmOrderAfterPayment(o) ==
    /\ \E a \in Requests, i \in DOMAIN outbox[o] : outbox[o][i] = PaymentSuccess(a)
    /\ StatusIsStill(o, "PENDING")
    /\ orderStatus' = [orderStatus EXCEPT ![o] = "CONFIRMED"]
    /\ CreateEvent(o, OrderStatusChanged("PENDING", "CONFIRMED"))
    /\ UNCHANGED <<payment, attempt, refund, webhookEvent, gatewayOrder,
                   orderLock, request, handler, admin>>

-----------------------------------------------------------------------------
(* Database transitions of a refund (processRefund, handleGatewayRefund-   *)
(* Status).  The calls to the gateway between them are left out here.      *)

\* A FAILED refund is taken up again.
RefundMoves_Retried(f, from, to) ==
    /\ refund[f].status \in {from, "FAILED"}
    /\ refund' = [refund EXCEPT ![f].status = to]
RefundMoves(f, from, to) ==
    /\ refund[f].status = from
    /\ refund' = [refund EXCEPT ![f].status = to]

ClaimRefund(f) ==
    /\ RefundMoves(f, "PENDING", "PROCESSING")
    /\ UNCHANGED <<orderStatus, payment, attempt, outbox, webhookEvent,
                   gatewayOrder, orderLock, request, handler, admin>>

\* "processed": the refund and its payment move in one transaction, or neither.
SettleRefund_PaymentLeft(f) ==
    /\ RefundMoves(f, "PROCESSING", "SUCCESS")
    /\ UNCHANGED <<orderStatus, payment, attempt, outbox, webhookEvent,
                   gatewayOrder, orderLock, request, handler, admin>>
SettleRefund(f) ==
    LET o == refund[f].order IN
    /\ RefundMoves(f, "PROCESSING", "SUCCESS")
    /\ payment[o] = "SUCCESS"
    /\ payment' = [payment EXCEPT ![o] = "REFUNDED"]
    /\ UNCHANGED <<orderStatus, attempt, outbox, webhookEvent, gatewayOrder,
                   orderLock, request, handler, admin>>

\* "failed": terminal.
FailRefund(f) ==
    /\ RefundMoves(f, "PROCESSING", "FAILED")
    /\ UNCHANGED <<orderStatus, payment, attempt, outbox, webhookEvent,
                   gatewayOrder, orderLock, request, handler, admin>>

-----------------------------------------------------------------------------
RequestNext(r) ==
    \/ \E o \in Orders : InitiateCheck(r, o)
    \/ InitiateTx(r)
    \/ ClaimLease(r)
    \/ GatewayCreateOrder(r)
    \/ ReleaseLease(r)
    \/ Finalize(r)
    \/ AbortRequest(r)

HandlerStep(h) ==
    \/ FindAttempt(h)
    \/ MarkBegin(h)
    \/ MarkAlreadyDone(h)
    \/ MarkRejected(h)
    \/ MarkCommit(h)
    \/ MarkProcessed(h)

HandlerNext(h) ==
    \/ \E g \in Requests : WebhookReceive(h, g) \/ VerifyReceive(h, g)
    \/ HandlerStep(h)
    \/ AbortHandler(h)

AdminStep(x) == UpdateOrderStatusCommit(x) \/ CancelCommit(x)

AdminNext(x) ==
    \/ \E o \in Orders, s \in OrderStatus : UpdateOrderStatusRead(x, o, s)
    \/ \E o \in Orders : CancelBegin(x, o)
    \/ AdminStep(x)
    \/ AbortAdmin(x)

RefundNext(f) == ClaimRefund(f) \/ SettleRefund(f) \/ FailRefund(f)

Next ==
    \/ \E r \in Requests : RequestNext(r) \/ CustomerPays(r)
    \/ \E h \in Handlers : HandlerNext(h)
    \/ \E x \in Admins : AdminNext(x)
    \/ \E o \in Orders : ConfirmOrderAfterPayment(o)
    \/ \E f \in RefundIds : RefundNext(f)

Spec == Init /\ [][Next]_vars

-----------------------------------------------------------------------------
(* Safety                                                                  *)

\* markPaymentSuccessful: an order's payment is SUCCESS or REFUNDED exactly when
\* one attempt of the order is SUCCESS, and no order ever has two, however verify
\* calls, webhooks, redeliveries and second gateway orders interleave.
PaymentMatchesAttempt ==
    \A o \in Orders :
        /\ payment[o] \in {"SUCCESS", "REFUNDED"} <=> SuccessfulAttempts(o) # {}
        /\ \A a, b \in SuccessfulAttempts(o) : a = b

\* An attempt is SUCCESS only with the id of the payment Razorpay captured for its
\* own gateway order, which is what cancelOrder later asks Razorpay to refund.
RecordedPaymentIsCaptured ==
    \A a \in Requests : attempt[a].status = "SUCCESS" =>
        /\ attempt[a].gatewayOrderId \in Requests
        /\ gatewayOrder[attempt[a].gatewayOrderId] = "paid"
        /\ attempt[a].gatewayPaymentId = attempt[a].gatewayOrderId

\* The outbox never disagrees with the payment: an order has one PAYMENT_SUCCESS
\* event exactly when its payment was recorded, naming the successful attempt.
OnePaymentSuccessEvent ==
    \A o \in Orders :
        LET paid == {i \in DOMAIN outbox[o] :
                        outbox[o][i].eventType = "PAYMENT_SUCCESS"} IN
        /\ paid # {} <=> payment[o] \in {"SUCCESS", "REFUNDED"}
        /\ \A i, j \in paid : i = j
        /\ \A i \in paid : outbox[o][i].attempt \in SuccessfulAttempts(o)

\* A refund exists only for a cancelled order, at most one per order, it asks for
\* the payment that was recorded, its event is in the outbox, and it is SUCCESS
\* exactly when the payment is REFUNDED.
RefundMatchesPayment ==
    \A f \in RefundIds : refund[f].status # "NONE" =>
        LET o == refund[f].order IN
        /\ o \in Orders /\ orderStatus[o] = "CANCELLED"
        /\ \E a \in SuccessfulAttempts(o) :
              refund[f].gatewayPaymentId = attempt[a].gatewayPaymentId
        /\ \E i \in DOMAIN outbox[o] : outbox[o][i] = RefundRequested(f)
        /\ \A f2 \in RefundIds : refund[f2].order = o => f2 = f
        /\ refund[f].status = "SUCCESS" <=> payment[o] = "REFUNDED"

\* The first n events of an order tell that its status is s.
TellsStatus(o, n, s) ==
    LET moves == {i \in 1..n : outbox[o][i].eventType = "ORDER_STATUS_CHANGED"} IN
    \/ moves = {} /\ s = "PENDING"
    \/ \E i \in moves : (\A j \in moves : j <= i) /\ s = outbox[o][i].newStatus

\* The ORDER_STATUS_CHANGED events of an order, in the order they were written,
\* are a chain of allowed moves from PENDING to its status.  Only cancelOrder
\* writes none, so a cancelled order's chain may stop one allowed move earlier.
StatusHistoryPublished ==
    \A o \in Orders :
        /\ \A i \in DOMAIN outbox[o] :
              LET e == outbox[o][i] IN
              e.eventType = "ORDER_STATUS_CHANGED" =>
                  /\ TellsStatus(o, i - 1, e.previousStatus)
                  /\ e.newStatus \in allowedOrderStatusTransitions[e.previousStatus]
        /\ \E s \in OrderStatus :
              /\ TellsStatus(o, Len(outbox[o]), s)
              /\ \/ orderStatus[o] = s
                 \/ /\ orderStatus[o] = "CANCELLED"
                    /\ "CANCELLED" \in allowedOrderStatusTransitions[s]

\* A webhook event is marked processed, and so never handled again, only when the
\* payment it reports was recorded; a delivery that died before is still open.
ProcessedWebhookIsRecorded ==
    \A g \in Requests : webhookEvent[g] = "processed" =>
        \E a \in Requests : attempt[a].gatewayOrderId = g
                            /\ attempt[a].status = "SUCCESS"

\* Whatever the customer paid can be found again: every captured gateway order is
\* the gatewayOrderId of exactly one attempt, so a webhook for it never gets a 404.
CapturedOrderIsKnown ==
    \A g \in Requests : gatewayOrder[g] = "paid" =>
        \E a \in Requests : \A b \in Requests :
            attempt[b].gatewayOrderId = g <=> b = a

Creating == {"claim", "create", "release", "finalize"}

\* The creation lease is never contended: findActiveAttemptByPaymentId only returns
\* attempts that have their gateway order, so no two running invocations work on
\* the same unfinished attempt.
LeaseNeverContended ==
    \A r, q \in Requests :
        (/\ request[r].pc \in Creating /\ request[q].pc \in Creating
         /\ request[r].attempt = request[q].attempt) => r = q

\* cancelOrder decides on the payment it read under the lock: when it cancels an
\* order whose payment is SUCCESS at that moment, the same step creates the refund.
CancelRefundsPaidOrder ==
    [][\A x \in Admins : LET o == admin[x].order IN
          (/\ admin[x].pc = "cancel" /\ admin'[x].pc = "idle"
           /\ orderStatus'[o] # orderStatus[o] /\ payment[o] = "SUCCESS")
          => \E f \in RefundIds : /\ refund[f].status = "NONE"
                                  /\ refund'[f].status = "PENDING"
                                  /\ refund'[f].order = o]_vars

-----------------------------------------------------------------------------
(* The order these rows stand for                                          *)

RefundFailed(o) == \E f \in RefundIds : refund[f].order = o /\ refund[f].status = "FAILED"

RefundOpen(o) ==
    \E f \in RefundIds : refund[f].order = o /\ refund[f].status \in {"PENDING", "PROCESSING"}

\* What a SUCCESS payment means is told by the order's refund, if it has one.
MoneyOf(o) ==
    CASE payment[o] \in {"NONE", "PENDING"} -> "due"
      [] payment[o] = "REFUNDED" -> "refunded"
      [] payment[o] = "SUCCESS" /\ RefundFailed(o) -> "refund failed"
      [] payment[o] = "SUCCESS" /\ RefundOpen(o) -> "refund due"
      [] OTHER -> "paid"

Money == [o \in Orders |-> MoneyOf(o)]

CapturedOrders ==
    {o \in Orders : \E a \in Requests : attempt[a].order = o /\ gatewayOrder[a] = "paid"}

News(e) ==
    CASE e.eventType = "PAYMENT_SUCCESS"  -> [what |-> "paid"]
      [] e.eventType = "REFUND_REQUESTED" -> [what |-> "refund asked"]
      [] OTHER -> [what |-> "moved", from |-> e.previousStatus, to |-> e.newStatus]

Announced == [o \in Orders |-> [i \in DOMAIN outbox[o] |-> News(outbox[o][i])]]

Lifecycle == INSTANCE OrderLifecycle
               WITH status <- orderStatus, money <- Money, captured <- CapturedOrders,
                    announced <- Announced

\* However requests, handlers, administrators, consumers and refunds interleave and
\* die, an order only ever does what OrderLifecycle lets it do: no status outside the
\* table, no payment recorded twice, uncaptured or taken back, no refund that was not
\* paid and cancelled first or that changes its outcome, and each of these steps with
\* the outbox event that belongs to it in the same transaction.
FollowsLifecycle == Lifecycle!Spec

-----------------------------------------------------------------------------
(* The inductive invariant behind the safety properties                    *)

\* A request that is creating works on its own attempt, which has no gateway order
\* yet; before its transaction its row does not exist; what it returned is stored.
RequestInv ==
    \A r \in Requests :
        /\ request[r].pc # "idle" => request[r].order \in Orders
        /\ request[r].pc \in {"idle", "tx"} => attempt[r].status = "NONE"
        /\ request[r].pc \in Creating =>
              /\ request[r].attempt = r
              /\ attempt[r].status # "NONE"
              /\ attempt[r].gatewayOrderId = NULL
        /\ request[r].pc = "returned" =>
              /\ request[r].gatewayOrderId \in Requests
              /\ attempt[request[r].gatewayOrderId].gatewayOrderId
                    = request[r].gatewayOrderId

\* A row belongs to an order with a payment, stores only its own gateway order,
\* and has the captured payment's id exactly when it is SUCCESS.
AttemptInv ==
    \A a \in Requests :
        /\ attempt[a].status = "NONE" => attempt[a].gatewayOrderId = NULL
        /\ attempt[a].status # "NONE" =>
              attempt[a].order \in Orders /\ payment[attempt[a].order] # "NONE"
        /\ attempt[a].gatewayOrderId \in {NULL, a}
        /\ attempt[a].status = "CREATED" => attempt[a].gatewayPaymentId = NULL
        /\ attempt[a].status = "SUCCESS" =>
              /\ attempt[a].gatewayOrderId = a
              /\ attempt[a].gatewayPaymentId = a
        /\ attempt[a].status = "SUCCESS" => gatewayOrder[a] = "paid"
        /\ gatewayOrder[a] = "paid" => attempt[a].gatewayOrderId = a

\* A handler works on a captured gateway order and its attempt; what it read under
\* the lock is still true when it commits.
HandlerInv ==
    \A h \in Handlers :
        /\ handler[h].pc # "idle" =>
              /\ handler[h].gatewayOrder \in Requests
              /\ gatewayOrder[handler[h].gatewayOrder] = "paid"
        /\ handler[h].pc \in {"mark", "commit", "processed"} =>
              handler[h].attempt = handler[h].gatewayOrder
        /\ handler[h].pc = "commit" =>
              /\ orderLock[attempt[handler[h].attempt].order] = h
              /\ handler[h].seenAttempt = attempt[handler[h].attempt].status
              /\ handler[h].seenPayment = "PENDING" =>
                    payment[attempt[handler[h].attempt].order] = "PENDING"
        /\ handler[h].pc = "processed" =>
              attempt[handler[h].gatewayOrder].status = "SUCCESS"

\* A cancellation holds the order's lock, the payment is still as it read it and
\* the order has no refund; a move it is about to make is an allowed one.
AdminInv ==
    \A x \in Admins :
        /\ admin[x].pc # "idle" =>
              /\ admin[x].order \in Orders
              /\ admin[x].newStatus \in
                    allowedOrderStatusTransitions[admin[x].seenStatus]
        /\ admin[x].pc = "cancel" =>
              /\ orderLock[admin[x].order] = x
              /\ admin[x].seenPayment = payment[admin[x].order]
              /\ \A f \in RefundIds : refund[f].order # admin[x].order

\* A refund row has an order exactly when it exists.
RefundInv ==
    \A f \in RefundIds : refund[f].status = "NONE" <=> refund[f].order = NULL

IInv ==
    /\ RequestInv
    /\ AttemptInv
    /\ HandlerInv
    /\ AdminInv
    /\ RefundInv
    /\ PaymentMatchesAttempt
    /\ RefundMatchesPayment
    /\ OnePaymentSuccessEvent
    /\ ProcessedWebhookIsRecorded

-----------------------------------------------------------------------------
(* What comments and documents say that the code does not do               *)

\* payment.service.ts: "Lock this order so concurrent payment-initiation requests
\* cannot create duplicate local records": an order has one unpaid attempt.
NoDuplicateAttempts ==
    \A o \in Orders, a, b \in Requests :
        (/\ attempt[a].order = o /\ attempt[a].status = "CREATED"
         /\ attempt[b].order = o /\ attempt[b].status = "CREATED") => a = b

\* order.service.ts: "No payment or unsuccessful payment: cancellation is complete
\* without a refund": an order cancelOrder cancelled without a refund stays unpaid.
UnrefundedCancellationIsComplete ==
    \A o \in Orders :
        (/\ orderStatus[o] = "CANCELLED"
         /\ \A i \in DOMAIN outbox[o] : \A s \in OrderStatus :
               outbox[o][i] # OrderStatusChanged(s, "CANCELLED")
         /\ \A f \in RefundIds : refund[f].order # o)
        => payment[o] # "SUCCESS"

\* README.md: cancelling a paid order creates the refund in the same transaction.
EveryPaidCancellationRefunds ==
    [][\A o \in Orders :
          (/\ orderStatus[o] # "CANCELLED" /\ orderStatus'[o] = "CANCELLED"
           /\ payment[o] = "SUCCESS")
          => \E f \in RefundIds : refund'[f].order = o]_vars

-----------------------------------------------------------------------------
(* Liveness                                                                *)

\* A running invocation goes on or dies; a handler does not wait for the advisory
\* lock for ever (Postgres queues the waiters); Razorpay delivers the paid event
\* again until it is answered 200.
Fairness ==
    /\ \A h \in Handlers : WF_vars(HandlerStep(h)) /\ SF_vars(MarkBegin(h))
    /\ \A x \in Admins : WF_vars(AdminStep(x))
    /\ \A g \in Requests : SF_vars(\E h \in Handlers : WebhookReceive(h, g))

\* The process and the database fail any number of times, but not for ever.  Only a
\* step that is nothing but a death is excluded in the end: one that could as well
\* be the invocation's own next step (a 404, a rollback) still happens.
AbortsStop ==
    <>[][/\ \A h \in Handlers : AbortHandler(h) => HandlerStep(h)
         /\ \A x \in Admins : AbortAdmin(x) => AdminStep(x)]_vars

FairSpec == Spec /\ Fairness /\ AbortsStop

\* Once Razorpay has captured a payment for an order, the order's payment is
\* recorded in the end, whoever crashed, raced or cancelled in the meantime.
CapturedPaymentRecorded ==
    \A g \in Requests, o \in Orders :
        (gatewayOrder[g] = "paid" /\ request[g].order = o)
            ~> payment[o] \in {"SUCCESS", "REFUNDED"}
=============================================================================
