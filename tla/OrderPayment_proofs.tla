------------------------ MODULE OrderPayment_proofs -------------------------
(***************************************************************************)
(* Safety of OrderPayment for any number of orders, requests, handlers,    *)
(* administrators and refunds.                                             *)
(***************************************************************************)
EXTENDS OrderPayment, TLAPS

USE DEF database, vars

-----------------------------------------------------------------------------
(* Facts about the data the actions build.                                 *)

\* The rows the actions write have the types of their tables.
LEMMA AttemptRowType ==
    NoAttempt \in Attempt /\ \A o \in Orders : CreatedAttempt(o) \in Attempt
<1>1. NoAttempt \in Attempt
  BY DEF NoAttempt, Attempt
<1>2. \A o \in Orders : CreatedAttempt(o) \in Attempt
  BY DEF CreatedAttempt, NoAttempt, Attempt
<1> QED BY <1>1, <1>2

LEMMA RefundRowType == NoRefund \in Refund
BY DEF NoRefund, Refund, RefundStatus

\* So have the events.
LEMMA EventType ==
    /\ \A a \in Requests : PaymentSuccess(a) \in Event
    /\ \A s, t \in OrderStatus : OrderStatusChanged(s, t) \in Event
    /\ \A f \in RefundIds : RefundRequested(f) \in Event
<1>1. \A a \in Requests : PaymentSuccess(a) \in Event
  BY DEF Event
<1>2. \A s, t \in OrderStatus : OrderStatusChanged(s, t) \in Event
  BY DEF Event
<1>3. \A f \in RefundIds : RefundRequested(f) \in Event
  BY DEF Event
<1> QED BY <1>1, <1>2, <1>3

\* So have the idle processes.
LEMMA IdleType ==
    /\ IdleRequest \in RequestProcess
    /\ IdleHandler \in HandlerProcess
    /\ IdleAdmin \in AdminProcess
<1>1. IdleRequest \in RequestProcess
  BY DEF IdleRequest, RequestProcess
<1>2. IdleHandler \in HandlerProcess
  BY DEF IdleHandler, HandlerProcess, PaymentStatus
<1>3. IdleAdmin \in AdminProcess
  BY DEF IdleAdmin, AdminProcess, PaymentStatus, OrderStatus
<1> QED BY <1>1, <1>2, <1>3

\* Appending an event of the right type keeps the outbox well typed.
LEMMA CreateEventType ==
    ASSUME NEW o \in Orders, NEW e \in Event, outbox \in [Orders -> Seq(Event)],
           CreateEvent(o, e)
    PROVE  outbox' \in [Orders -> Seq(Event)]
BY DEF CreateEvent

\* allowedOrderStatusTransitions leads from a status to statuses.
LEMMA TransitionsType ==
    \A s \in OrderStatus : allowedOrderStatusTransitions[s] \subseteq OrderStatus
BY DEF allowedOrderStatusTransitions, OrderStatus

-----------------------------------------------------------------------------
(* Type correctness.                                                       *)

LEMMA InitTypeOK == Init => TypeOK
BY AttemptRowType, RefundRowType, IdleType
   DEF Init, TypeOK, OrderStatus, PaymentStatus

LEMMA RequestTypeOK ==
    ASSUME TypeOK, RequestInv, NEW r \in Requests, RequestNext(r)
    PROVE  TypeOK'
<1>0. request \in [Requests -> RequestProcess] /\ attempt \in [Requests -> Attempt]
  BY DEF TypeOK
<1>1. ASSUME NEW o \in Orders, InitiateCheck(r, o)  PROVE TypeOK'
  <2>1. request' \in [Requests -> RequestProcess]
    BY <1>0, <1>1, ZenonT(40) DEF InitiateCheck, RequestProcess
  <2> QED BY <1>1, <2>1 DEF InitiateCheck, TypeOK
<1>2. CASE InitiateTx(r)
  <2>1. request[r].order \in Orders
    BY <1>2 DEF InitiateTx, RequestInv
  <2>2. attempt' \in [Requests -> Attempt]
    BY <1>0, <1>2, <2>1, AttemptRowType DEF InitiateTx
  <2>3. ASSUME NEW a \in Requests  PROVE attempt[a].gatewayOrderId \in Requests \cup {NULL}
    BY <1>0 DEF Attempt
  <2>4. request' \in [Requests -> RequestProcess]
    BY <1>0, <1>2, <2>3 DEF InitiateTx, ActiveAttempts, RequestProcess
  <2>5. payment' \in [Orders -> PaymentStatus]
    <3>1. payment \in [Orders -> PaymentStatus] /\ "PENDING" \in PaymentStatus
      BY DEF TypeOK, PaymentStatus
    <3>2. payment' = payment \/ payment' = [payment EXCEPT ![request[r].order] = "PENDING"]
      BY <1>2, <2>1, <3>1 DEF InitiateTx
    <3> QED BY <2>1, <3>1, <3>2
  <2> QED BY <1>2, <2>2, <2>4, <2>5 DEF InitiateTx, TypeOK
<1>3. CASE ClaimLease(r)
  <2>1. request[r].attempt \in Requests
    BY <1>3 DEF ClaimLease, RequestInv, Creating
  <2>2. attempt[request[r].attempt].gatewayOrderId \in Requests \cup {NULL}
    BY <1>0, <2>1 DEF Attempt
  <2>3. attempt' \in [Requests -> Attempt]
    BY <1>0, <1>3, <2>1 DEF ClaimLease, Attempt
  <2>4. request' \in [Requests -> RequestProcess]
    BY <1>0, <1>3, <2>2 DEF ClaimLease, Return, RequestProcess
  <2> QED BY <1>3, <2>3, <2>4 DEF ClaimLease, TypeOK
<1>4. CASE GatewayCreateOrder(r)
  <2>1. request' \in [Requests -> RequestProcess]
    BY <1>0, <1>4 DEF GatewayCreateOrder, RequestProcess
  <2> QED BY <1>4, <2>1 DEF GatewayCreateOrder, TypeOK
<1>5. CASE ReleaseLease(r)
  <2>1. attempt' \in [Requests -> Attempt]
    BY <1>0, <1>5 DEF ReleaseLease, RequestInv, Creating, Attempt
  <2>2. request' \in [Requests -> RequestProcess]
    BY <1>0, <1>5 DEF ReleaseLease, RequestProcess
  <2> QED BY <1>5, <2>1, <2>2 DEF ReleaseLease, TypeOK
<1>6. CASE Finalize(r)
  <2>1. attempt' \in [Requests -> Attempt]
    BY <1>0, <1>6 DEF Finalize, RequestInv, Creating, Attempt
  <2>2. request' \in [Requests -> RequestProcess]
    BY <1>0, <1>6 DEF Finalize, Return, RequestProcess
  <2> QED BY <1>6, <2>1, <2>2 DEF Finalize, TypeOK
<1>7. CASE AbortRequest(r)
  <2>1. request' \in [Requests -> RequestProcess]
    BY <1>0, <1>7 DEF AbortRequest, RequestProcess
  <2> QED BY <1>7, <2>1 DEF AbortRequest, TypeOK
<1> QED BY <1>1, <1>2, <1>3, <1>4, <1>5, <1>6, <1>7 DEF RequestNext

LEMMA HandlerTypeOK ==
    ASSUME TypeOK, AttemptInv, HandlerInv, NEW h \in Handlers, HandlerNext(h)
    PROVE  TypeOK'
<1> DEFINE a == handler[h].attempt
           o == attempt[a].order
<1>0. handler \in [Handlers -> HandlerProcess] /\ attempt \in [Requests -> Attempt]
  BY DEF TypeOK
<1>1. ASSUME NEW g \in Requests, WebhookReceive(h, g) \/ VerifyReceive(h, g)
      PROVE  TypeOK'
  <2>1. handler' \in [Handlers -> HandlerProcess]
    <3>1. ASSUME NEW k \in {"webhook", "verify"}  PROVE Received(k, g) \in HandlerProcess
      BY DEF Received, IdleHandler, HandlerProcess, PaymentStatus
    <3> QED BY <1>0, <1>1, <3>1 DEF WebhookReceive, VerifyReceive
  <2> QED BY <1>1, <2>1 DEF WebhookReceive, VerifyReceive, TypeOK
<1>2. CASE FindAttempt(h)
  <2>1. handler' \in [Handlers -> HandlerProcess]
    BY <1>0, <1>2, IdleType DEF FindAttempt, HandlerProcess
  <2> QED BY <1>2, <2>1 DEF FindAttempt, TypeOK
<1>3. ASSUME handler[h].pc \in {"mark", "commit"}
      PROVE  a \in Requests /\ o \in Orders
  BY <1>3, ConstantsAssumption DEF HandlerInv, AttemptInv, NoAttempt
<1>4. ASSUME NEW ok, MarkReturns(h, ok)
      PROVE  /\ orderLock' \in [Orders -> Handlers \cup Admins \cup {NULL}]
             /\ handler' \in [Handlers -> HandlerProcess]
  <2>1. handler' \in [Handlers -> HandlerProcess]
    BY <1>0, <1>4, IdleType DEF MarkReturns, HandlerProcess
  <2> QED BY <1>4, <2>1 DEF MarkReturns, ReleaseOrderLock, TypeOK
<1>5. CASE MarkBegin(h)
  <2>1. attempt[a].status \in {"NONE", "CREATED", "SUCCESS"} /\ payment[o] \in PaymentStatus
    BY <1>0, <1>3, <1>5 DEF MarkBegin, Attempt, TypeOK
  <2>2. handler' \in [Handlers -> HandlerProcess]
    BY <1>0, <1>5, <2>1 DEF MarkBegin, HandlerProcess
  <2> QED BY <1>5, <2>2 DEF MarkBegin, AcquireOrderLock, TypeOK
<1>6. CASE MarkAlreadyDone(h)
  BY <1>4, <1>6 DEF MarkAlreadyDone, TypeOK
<1>7. CASE MarkRejected(h)
  BY <1>4, <1>7 DEF MarkRejected, TypeOK
<1>8. CASE MarkCommit(h)
  <2>1. a \in Requests /\ o \in Orders /\ handler[h].gatewayOrder \in Requests
    BY <1>3, <1>8 DEF MarkCommit, HandlerInv
  <2>2. attempt' \in [Requests -> Attempt]
    BY <1>0, <1>8, <2>1 DEF MarkCommit, Attempt
  <2>3. payment' \in [Orders -> PaymentStatus]
    <3>1. payment \in [Orders -> PaymentStatus] /\ "SUCCESS" \in PaymentStatus
      BY DEF TypeOK, PaymentStatus
    <3>2. payment' = payment \/ payment' = [payment EXCEPT ![o] = "SUCCESS"]
      BY <1>8 DEF MarkCommit
    <3> QED BY <2>1, <3>1, <3>2
  <2>4. outbox' \in [Orders -> Seq(Event)]
    BY <1>8, <2>1, EventType, CreateEventType DEF MarkCommit, TypeOK
  <2> QED BY <1>4, <1>8, <2>2, <2>3, <2>4 DEF MarkCommit, TypeOK
<1>9. CASE MarkProcessed(h)
  BY <1>9, IdleType DEF MarkProcessed, TypeOK
<1>10. CASE AbortHandler(h)
  BY <1>10, IdleType DEF AbortHandler, ReleaseOrderLock, TypeOK
<1> QED BY <1>1, <1>2, <1>5, <1>6, <1>7, <1>8, <1>9, <1>10
        DEF HandlerNext, HandlerStep

LEMMA AdminTypeOK ==
    ASSUME TypeOK, AdminInv, NEW x \in Admins, AdminNext(x)
    PROVE  TypeOK'
<1>0. /\ "PENDING" \in OrderStatus /\ "CANCELLED" \in OrderStatus
      /\ admin \in [Admins -> AdminProcess]
      /\ \A o \in Orders : orderStatus[o] \in OrderStatus /\ payment[o] \in PaymentStatus
  BY DEF OrderStatus, TypeOK
<1>1. ASSUME NEW o \in Orders, NEW s \in OrderStatus, UpdateOrderStatusRead(x, o, s)
      PROVE  TypeOK'
  <2>1. admin' \in [Admins -> AdminProcess]
    BY <1>0, <1>1, IdleType DEF UpdateOrderStatusRead, AdminProcess
  <2> QED BY <1>1, <2>1 DEF UpdateOrderStatusRead, TypeOK
<1>2. ASSUME NEW o \in Orders, CancelBegin(x, o)  PROVE TypeOK'
  <2>1. admin' \in [Admins -> AdminProcess]
    BY <1>0, <1>2, IdleType DEF CancelBegin, AdminProcess
  <2> QED BY <1>2, <2>1 DEF CancelBegin, AcquireOrderLock, TypeOK
<1>3. CASE UpdateOrderStatusCommit(x)
  <2>1. /\ admin[x].order \in Orders
        /\ admin[x].seenStatus \in OrderStatus /\ admin[x].newStatus \in OrderStatus
    BY <1>0, <1>3 DEF UpdateOrderStatusCommit, AdminInv, AdminProcess
  <2>2. outbox' \in [Orders -> Seq(Event)]
    BY <1>3, <2>1, EventType, CreateEventType DEF UpdateOrderStatusCommit, TypeOK
  <2> QED BY <1>3, <2>1, <2>2, IdleType DEF UpdateOrderStatusCommit, TypeOK
<1>4. CASE CancelCommit(x)
  <2> DEFINE o == admin[x].order
  <2>1. o \in Orders
    BY <1>4 DEF CancelCommit, AdminInv
  <2>2. orderStatus' \in [Orders -> OrderStatus]
    BY <1>0, <1>4 DEF CancelCommit, TypeOK
  <2>3. refund' \in [RefundIds -> Refund] /\ outbox' \in [Orders -> Seq(Event)]
    <3>1. CASE refund' = refund /\ outbox' = outbox
      BY <3>1 DEF TypeOK
    <3>2. ASSUME NEW a \in SuccessfulAttempts(o), NEW f \in RefundIds,
                 refund' = [refund EXCEPT ![f] = [order |-> o,
                     status |-> "PENDING",
                     gatewayPaymentId |-> attempt[a].gatewayPaymentId]],
                 CreateEvent(o, RefundRequested(f))
          PROVE  refund' \in [RefundIds -> Refund] /\ outbox' \in [Orders -> Seq(Event)]
      <4>1. attempt[a].gatewayPaymentId \in Requests \cup {NULL}
        BY DEF SuccessfulAttempts, Attempt, TypeOK
      <4>2. refund' \in [RefundIds -> Refund]
        BY <2>1, <3>2, <4>1 DEF Refund, RefundStatus, TypeOK
      <4> QED BY <2>1, <3>2, <4>2, EventType, CreateEventType DEF TypeOK
    <3> QED BY <1>4, <3>1, <3>2 DEF CancelCommit
  <2> QED BY <1>4, <2>2, <2>3, IdleType DEF CancelCommit, ReleaseOrderLock, TypeOK
<1>5. CASE AbortAdmin(x)
  BY <1>5, IdleType DEF AbortAdmin, ReleaseOrderLock, TypeOK
<1> QED BY <1>1, <1>2, <1>3, <1>4, <1>5 DEF AdminNext, AdminStep

LEMMA OtherTypeOK ==
    ASSUME TypeOK,
           \/ \E g \in Requests : CustomerPays(g)
           \/ \E o \in Orders : ConfirmOrderAfterPayment(o)
           \/ \E f \in RefundIds : RefundNext(f)
    PROVE  TypeOK'
<1>1. ASSUME NEW g \in Requests, CustomerPays(g)  PROVE TypeOK'
  BY <1>1 DEF CustomerPays, TypeOK
<1>2. ASSUME NEW o \in Orders, ConfirmOrderAfterPayment(o)  PROVE TypeOK'
  <2>1. "PENDING" \in OrderStatus /\ "CONFIRMED" \in OrderStatus
    BY DEF OrderStatus
  <2>2. outbox' \in [Orders -> Seq(Event)]
    BY <1>2, <2>1, EventType, CreateEventType DEF ConfirmOrderAfterPayment, TypeOK
  <2> QED BY <1>2, <2>1, <2>2 DEF ConfirmOrderAfterPayment, TypeOK
<1>3. ASSUME NEW f \in RefundIds, RefundNext(f)  PROVE TypeOK'
  <2>1. refund' \in [RefundIds -> Refund]
    <3>1. refund \in [RefundIds -> Refund]
      BY DEF TypeOK
    <3>2. PICK s \in RefundStatus : refund' = [refund EXCEPT ![f].status = s]
      BY <1>3 DEF RefundNext, ClaimRefund, SettleRefund, FailRefund, RefundMoves,
          RefundStatus
    <3> QED BY <3>1, <3>2 DEF Refund
  <2>2. payment' \in [Orders -> PaymentStatus]
    BY <1>3 DEF RefundNext, ClaimRefund, SettleRefund, FailRefund, PaymentStatus, TypeOK
  <2> QED BY <1>3, <2>1, <2>2
          DEF RefundNext, ClaimRefund, SettleRefund, FailRefund, TypeOK
<1> QED BY <1>1, <1>2, <1>3

-----------------------------------------------------------------------------
(* What leaves the inductive invariant alone.                              *)

\* The columns of attempt the invariant speaks of (all but the creation token).
SameAttempts ==
    \A a \in Requests : /\ attempt'[a].order = attempt[a].order
                        /\ attempt'[a].status = attempt[a].status
                        /\ attempt'[a].gatewayOrderId = attempt[a].gatewayOrderId
                        /\ attempt'[a].gatewayPaymentId = attempt[a].gatewayPaymentId

SameCaptured ==
    \A g \in Requests : gatewayOrder'[g] = "paid" <=> gatewayOrder[g] = "paid"

LEMMA AttemptFrame ==
    ASSUME SameAttempts
    PROVE  /\ AttemptInv /\ SameCaptured /\ payment' = payment => AttemptInv'
           /\ PaymentMatchesAttempt /\ payment' = payment => PaymentMatchesAttempt'
           /\ OnePaymentSuccessEvent /\ payment' = payment /\ outbox' = outbox
                 => OnePaymentSuccessEvent'
           /\ ProcessedWebhookIsRecorded /\ webhookEvent' = webhookEvent
                 => ProcessedWebhookIsRecorded'
           /\ \A o \in Orders : SuccessfulAttempts(o)' = SuccessfulAttempts(o)
<1>1. \A o \in Orders : SuccessfulAttempts(o)' = SuccessfulAttempts(o)
  BY DEF SameAttempts, SuccessfulAttempts
<1>2. AttemptInv /\ SameCaptured /\ payment' = payment => AttemptInv'
  BY DEF SameAttempts, SameCaptured, AttemptInv
<1>3. PaymentMatchesAttempt /\ payment' = payment => PaymentMatchesAttempt'
  BY <1>1 DEF PaymentMatchesAttempt
<1>4. OnePaymentSuccessEvent /\ payment' = payment /\ outbox' = outbox
        => OnePaymentSuccessEvent'
  BY <1>1 DEF OnePaymentSuccessEvent
<1>5. ProcessedWebhookIsRecorded /\ webhookEvent' = webhookEvent
        => ProcessedWebhookIsRecorded'
  BY DEF SameAttempts, ProcessedWebhookIsRecorded
<1> QED BY <1>1, <1>2, <1>3, <1>4, <1>5

LEMMA RefundFrame ==
    ASSUME SameAttempts, RefundMatchesPayment, RefundInv,
           UNCHANGED <<refund, orderStatus, outbox, payment>>
    PROVE  RefundMatchesPayment' /\ RefundInv'
<1>1. \A o \in Orders : SuccessfulAttempts(o)' = SuccessfulAttempts(o)
  BY DEF SameAttempts, SuccessfulAttempts
<1>2. \A o \in Orders : SuccessfulAttempts(o) \subseteq Requests
  BY DEF SuccessfulAttempts
<1> QED BY <1>1, <1>2 DEF RefundMatchesPayment, RefundInv, SameAttempts

LEMMA HandlerFrame ==
    ASSUME TypeOK, SameAttempts, HandlerInv, SameCaptured,
           UNCHANGED <<handler, orderLock, payment>>
    PROVE  HandlerInv'
BY DEF HandlerInv, SameAttempts, SameCaptured

LEMMA AdminFrame ==
    ASSUME AdminInv, UNCHANGED <<admin, orderLock, payment, refund>>
    PROVE  AdminInv'
BY DEF AdminInv

LEMMA RequestFrame ==
    ASSUME SameAttempts, RequestInv, request' = request
    PROVE  RequestInv'
BY DEF RequestInv, SameAttempts, Creating

-----------------------------------------------------------------------------
(* initiatePayment preserves the invariant.                                *)

LEMMA InitiateTxIInv ==
    ASSUME TypeOK, IInv, NEW r \in Requests, InitiateTx(r)
    PROVE  IInv'
<1> DEFINE o == request[r].order
<1>0. /\ request[r].pc = "tx" /\ OrderLockFree(o) /\ o \in Orders
      /\ attempt[r].status = "NONE"
      /\ attempt[r].gatewayOrderId = NULL /\ gatewayOrder[r] # "paid"
  <2>1. request[r].pc = "tx" /\ OrderLockFree(o)
    BY DEF InitiateTx
  <2>2. o \in Orders /\ attempt[r].status = "NONE"
    BY <2>1 DEF IInv, RequestInv
  <2>3. attempt[r].gatewayOrderId = NULL /\ gatewayOrder[r] # "paid"
    BY <2>2, ConstantsAssumption DEF IInv, AttemptInv
  <2> QED BY <2>1, <2>2, <2>3
<1>1. CASE request' = [request EXCEPT ![r].pc = "failed"] /\ UNCHANGED <<payment, attempt>>
  <2>1. RequestInv'
    BY <1>0, <1>1 DEF IInv, RequestInv, Creating, TypeOK
  <2> QED BY <1>1, <2>1, AttemptFrame, RefundFrame, HandlerFrame, AdminFrame
          DEF IInv, InitiateTx, SameAttempts, SameCaptured
<1>2. ASSUME payment[o] # "SUCCESS",
             payment' = [payment EXCEPT ![o] = IF @ = "NONE" THEN "PENDING" ELSE @]
      PROVE  /\ payment'[o] # "NONE"
             /\ \A o2 \in Orders :
                   /\ payment'[o2] \in {"SUCCESS", "REFUNDED"}
                        <=> payment[o2] \in {"SUCCESS", "REFUNDED"}
                   /\ payment'[o2] = "REFUNDED" <=> payment[o2] = "REFUNDED"
                   /\ payment[o2] # "NONE" => payment'[o2] = payment[o2]
                   /\ orderLock[o2] # NULL => payment'[o2] = payment[o2]
  BY <1>0, <1>2 DEF TypeOK, OrderLockFree
<1>3. ASSUME NEW a \in ActiveAttempts(o), attempt' = attempt,
             request' = [request EXCEPT ![r] =
                 [pc |-> IF attempt[a].gatewayOrderId # NULL
                         THEN "returned" ELSE "claim",
                  order |-> o, attempt |-> a,
                  gatewayOrderId |-> attempt[a].gatewayOrderId]]
      PROVE  RequestInv' /\ SameAttempts
  <2>1. a \in Requests /\ attempt[a].gatewayOrderId = a /\ a # NULL
    BY ConstantsAssumption DEF ActiveAttempts, IInv, AttemptInv
  <2> QED BY <1>0, <1>3, <2>1 DEF IInv, RequestInv, Creating, TypeOK, SameAttempts
<1>4. ASSUME attempt' = [attempt EXCEPT ![r] = CreatedAttempt(o)],
             request' = [request EXCEPT ![r] =
                 [pc |-> "claim", order |-> o, attempt |-> r, gatewayOrderId |-> NULL]]
      PROVE  RequestInv'
  <2>1. /\ attempt'[r].status = "CREATED" /\ attempt'[r].gatewayOrderId = NULL
        /\ \A a \in Requests \ {r} : attempt'[a] = attempt[a]
    BY <1>4 DEF CreatedAttempt, NoAttempt, TypeOK
  <2> QED BY <1>0, <1>4, <2>1, ConstantsAssumption
          DEF IInv, RequestInv, Creating, TypeOK
<1>5. ASSUME payment[o] # "SUCCESS",
             payment' = [payment EXCEPT ![o] = IF @ = "NONE" THEN "PENDING" ELSE @],
             \/ attempt' = attempt
             \/ attempt' = [attempt EXCEPT ![r] = CreatedAttempt(o)]
      PROVE  /\ AttemptInv' /\ HandlerInv' /\ AdminInv' /\ RefundInv'
             /\ PaymentMatchesAttempt' /\ RefundMatchesPayment'
             /\ OnePaymentSuccessEvent' /\ ProcessedWebhookIsRecorded'
  <2>1. /\ \A a \in Requests \ {r} : attempt'[a] = attempt[a]
        /\ attempt'[r] = attempt[r] \/
             /\ attempt'[r].status = "CREATED" /\ attempt'[r].order = o
             /\ attempt'[r].gatewayOrderId = NULL /\ attempt'[r].gatewayPaymentId = NULL
    BY <1>5 DEF CreatedAttempt, NoAttempt, TypeOK
  <2>2. \A o2 \in Orders : SuccessfulAttempts(o2)' = SuccessfulAttempts(o2)
                           /\ SuccessfulAttempts(o2) \subseteq Requests \ {r}
    BY <1>0, <2>1 DEF SuccessfulAttempts
  <2>3. UNCHANGED <<orderStatus, refund, outbox, webhookEvent, gatewayOrder,
                    orderLock, handler, admin>>
    BY DEF InitiateTx
  <2>4. AttemptInv'
    BY <1>0, <1>2, <1>5, <2>1, <2>3, ConstantsAssumption DEF IInv, AttemptInv
  <2>5. HandlerInv'
    <3>1. ASSUME NEW h \in Handlers, handler[h].pc \in {"mark", "commit", "processed"}
          PROVE  /\ handler[h].attempt \in Requests \ {r}
                 /\ handler[h].gatewayOrder = handler[h].attempt
                 /\ attempt[handler[h].attempt].order \in Orders
                 /\ payment[attempt[handler[h].attempt].order] # "NONE"
      BY <1>0, <3>1, ConstantsAssumption DEF IInv, HandlerInv, AttemptInv
    <3> QED BY <1>2, <1>5, <2>1, <2>3, <3>1 DEF IInv, HandlerInv
  <2>6. AdminInv'
    BY <1>2, <1>5, <2>3, ConstantsAssumption DEF IInv, AdminInv
  <2>7. RefundInv'
    BY <2>3 DEF IInv, RefundInv
  <2>8. PaymentMatchesAttempt'
    BY <1>2, <1>5, <2>2 DEF IInv, PaymentMatchesAttempt
  <2>9. RefundMatchesPayment'
    BY <1>2, <1>5, <2>1, <2>2, <2>3 DEF IInv, RefundMatchesPayment
  <2>10. OnePaymentSuccessEvent'
    BY <1>2, <1>5, <2>2, <2>3 DEF IInv, OnePaymentSuccessEvent
  <2>11. ProcessedWebhookIsRecorded'
    BY <1>0, <2>1, <2>3 DEF IInv, ProcessedWebhookIsRecorded
  <2> QED BY <2>4, <2>5, <2>6, <2>7, <2>8, <2>9, <2>10, <2>11
<1>6. CASE payment[o] # "SUCCESS" /\ UNCHANGED attempt
           /\ \E a \in ActiveAttempts(o) :
                 request' = [request EXCEPT ![r] =
                     [pc |-> IF attempt[a].gatewayOrderId # NULL
                             THEN "returned" ELSE "claim",
                      order |-> o, attempt |-> a,
                      gatewayOrderId |-> attempt[a].gatewayOrderId]]
  BY <1>3, <1>5, <1>6 DEF IInv, InitiateTx
<1>7. CASE payment[o] # "SUCCESS" /\ attempt' = [attempt EXCEPT ![r] = CreatedAttempt(o)]
           /\ request' = [request EXCEPT ![r] =
                 [pc |-> "claim", order |-> o, attempt |-> r, gatewayOrderId |-> NULL]]
  BY <1>4, <1>5, <1>7 DEF IInv, InitiateTx
<1> QED BY <1>1, <1>6, <1>7 DEF InitiateTx

\* A step that moves only the program counter of one request.
LEMMA RequestMoves ==
    ASSUME TypeOK, NEW r \in Requests, NEW p,
           request' = [request EXCEPT ![r].pc = p]
    PROVE  /\ request'[r].pc = p
           /\ request'[r].order = request[r].order
           /\ request'[r].attempt = request[r].attempt
           /\ \A q \in Requests \ {r} : request'[q] = request[q]
BY DEF TypeOK, RequestProcess

LEMMA RequestIInv ==
    ASSUME TypeOK, IInv, NEW r \in Requests, RequestNext(r)
    PROVE  IInv'
<1>1. ASSUME RequestInv', SameAttempts, SameCaptured,
             UNCHANGED <<orderStatus, payment, refund, outbox, webhookEvent,
                         orderLock, handler, admin>>
      PROVE  IInv'
  BY <1>1, AttemptFrame, RefundFrame, HandlerFrame, AdminFrame DEF IInv
<1>2. ASSUME request[r].pc \in Creating
      PROVE  /\ request[r].order \in Orders /\ request[r].attempt = r
             /\ attempt[r].status # "NONE" /\ attempt[r].gatewayOrderId = NULL
             /\ gatewayOrder[r] # "paid" /\ attempt[r].status = "CREATED"
  BY <1>2, ConstantsAssumption DEF IInv, RequestInv, AttemptInv, Creating, TypeOK, Attempt
<1>3. ASSUME NEW o \in Orders, InitiateCheck(r, o)  PROVE IInv'
  <2>1. RequestInv'
    BY <1>3 DEF InitiateCheck, IInv, RequestInv, Creating, TypeOK, RequestProcess
  <2> QED BY <1>1, <1>3, <2>1 DEF InitiateCheck, SameAttempts, SameCaptured
<1>4. CASE InitiateTx(r)
  BY <1>4, InitiateTxIInv
<1>5. CASE ClaimLease(r)
  <2>1. attempt[r].gatewayOrderId = NULL /\ request[r].attempt = r
        /\ request[r].order \in Orders /\ attempt[r].status # "NONE"
    BY <1>2, <1>5 DEF ClaimLease, Creating
  <2>2. \/ request' = [request EXCEPT ![r].pc = "create"]
        \/ request' = [request EXCEPT ![r].pc = "failed"]
    BY <1>5, <2>1 DEF ClaimLease
  <2>3. attempt' = attempt \/ attempt' = [attempt EXCEPT ![r].creationToken = r]
    BY <1>5, <2>1 DEF ClaimLease
  <2>4. SameAttempts
    BY <2>3 DEF SameAttempts, TypeOK, Attempt
  <2>5. RequestInv'
    <3>1. /\ request'[r].pc \in {"create", "failed"}
          /\ request'[r].order = request[r].order
          /\ request'[r].attempt = request[r].attempt
          /\ \A q \in Requests \ {r} : request'[q] = request[q]
      BY <2>2, RequestMoves
    <3> QED BY <2>1, <2>4, <3>1 DEF IInv, RequestInv, SameAttempts, Creating
  <2> QED BY <1>1, <1>5, <2>4, <2>5 DEF ClaimLease, SameCaptured
<1>6. CASE GatewayCreateOrder(r)
  <2>1. SameCaptured
    BY <1>2, <1>6 DEF GatewayCreateOrder, Creating, SameCaptured, TypeOK
  <2>2. RequestInv'
    BY <1>2, <1>6 DEF GatewayCreateOrder, IInv, RequestInv, Creating, TypeOK, RequestProcess
  <2> QED BY <1>1, <1>6, <2>1, <2>2 DEF GatewayCreateOrder, SameAttempts
<1>7. CASE ReleaseLease(r)
  <2>1. attempt' = attempt \/ attempt' = [attempt EXCEPT ![r].creationToken = NULL]
    BY <1>2, <1>7 DEF ReleaseLease, Creating
  <2>2. SameAttempts
    BY <2>1 DEF SameAttempts, TypeOK, Attempt
  <2>3. RequestInv'
    BY <1>2, <1>7, <2>2
       DEF ReleaseLease, IInv, RequestInv, SameAttempts, Creating, TypeOK, RequestProcess
  <2> QED BY <1>1, <1>7, <2>2, <2>3 DEF ReleaseLease, SameCaptured
<1>8. CASE Finalize(r)
  <2>1. /\ request[r].attempt = r /\ request[r].order \in Orders
        /\ attempt[r].status = "CREATED"
        /\ attempt[r].gatewayOrderId = NULL /\ gatewayOrder[r] # "paid"
    BY <1>2, <1>8 DEF Finalize, Creating
  <2>2. CASE ~HoldsLease(r, r)
    <3>1. RequestInv'
      <4>1. /\ request'[r].pc = "failed"
            /\ request'[r].order = request[r].order
            /\ \A q \in Requests \ {r} : request'[q] = request[q]
        BY <1>8, <2>1, <2>2, RequestMoves DEF Finalize
      <4> QED BY <1>8, <2>1, <2>2, <4>1 DEF Finalize, IInv, RequestInv, Creating
    <3> QED BY <1>1, <1>8, <2>1, <2>2, <3>1 DEF Finalize, SameAttempts, SameCaptured
  <2>3. CASE HoldsLease(r, r)
    <3>1. /\ attempt'[r].gatewayOrderId = r
          /\ attempt'[r].order = attempt[r].order
          /\ attempt'[r].status = attempt[r].status
          /\ attempt'[r].gatewayPaymentId = attempt[r].gatewayPaymentId
          /\ \A a \in Requests \ {r} : attempt'[a] = attempt[a]
      BY <1>8, <2>1, <2>3 DEF Finalize, TypeOK, Attempt
    <3>2. request' = [request EXCEPT ![r].pc = "returned", ![r].gatewayOrderId = r]
      BY <1>8, <2>1, <2>3 DEF Finalize, Return
    <3>3. /\ request'[r].pc = "returned" /\ request'[r].gatewayOrderId = r
          /\ request'[r].order = request[r].order
          /\ \A q \in Requests \ {r} : request'[q] = request[q]
      BY <3>2 DEF TypeOK, RequestProcess
    <3>4. RequestInv'
      BY <2>1, <3>1, <3>3 DEF IInv, RequestInv, Creating
    <3>5. UNCHANGED <<orderStatus, payment, refund, outbox, webhookEvent,
                      gatewayOrder, orderLock, handler, admin>>
      BY <1>8 DEF Finalize
    <3>6. \A o \in Orders : SuccessfulAttempts(o)' = SuccessfulAttempts(o)
                            /\ SuccessfulAttempts(o) \subseteq Requests
      BY <3>1 DEF SuccessfulAttempts
    <3>7. AttemptInv'
      BY <2>1, <3>1, <3>5 DEF IInv, AttemptInv
    <3>8. HandlerInv'
      BY <2>1, <3>1, <3>5 DEF IInv, HandlerInv
    <3>9. AdminInv' /\ RefundInv'
      BY <3>5 DEF IInv, AdminInv, RefundInv
    <3>10. PaymentMatchesAttempt'
      BY <3>5, <3>6 DEF IInv, PaymentMatchesAttempt
    <3>11. RefundMatchesPayment'
      BY <3>1, <3>5, <3>6 DEF IInv, RefundMatchesPayment
    <3>12. OnePaymentSuccessEvent'
      BY <3>5, <3>6 DEF IInv, OnePaymentSuccessEvent
    <3>13. ProcessedWebhookIsRecorded'
      BY <2>1, <3>1, <3>5 DEF IInv, ProcessedWebhookIsRecorded
    <3> QED BY <3>4, <3>7, <3>8, <3>9, <3>10, <3>11, <3>12, <3>13 DEF IInv
  <2> QED BY <2>2, <2>3
<1>9. CASE AbortRequest(r)
  <2>1. RequestInv'
    BY <1>9 DEF AbortRequest, IInv, RequestInv, Creating, TypeOK, RequestProcess
  <2> QED BY <1>1, <1>9, <2>1 DEF AbortRequest, SameAttempts, SameCaptured
<1> QED BY <1>3, <1>4, <1>5, <1>6, <1>7, <1>8, <1>9 DEF RequestNext

-----------------------------------------------------------------------------
(* verifyPayment, the webhook and markPaymentSuccessful preserve it.       *)

\* A step of one handler that writes nothing but perhaps its webhook's row.
LEMMA HandlerLocalIInv ==
    ASSUME TypeOK, IInv, HandlerInv', AdminInv',
           UNCHANGED <<orderStatus, payment, attempt, refund, outbox,
                       gatewayOrder, request>>,
           ProcessedWebhookIsRecorded'
    PROVE  IInv'
BY AttemptFrame, RefundFrame, RequestFrame DEF IInv, SameAttempts, SameCaptured

\* A lock its holder gives up, or one that was free, is nobody else's.
LEMMA LockOfOthers ==
    ASSUME TypeOK, NEW o \in Orders, NEW p,
           \/ orderLock[o] = p /\ ReleaseOrderLock(o)
           \/ orderLock[o] = NULL /\ AcquireOrderLock(o, p)
           \/ orderLock' = orderLock
    PROVE  \A o2 \in Orders : \A q \in (Handlers \cup Admins) \ {p} :
               orderLock[o2] = q => orderLock'[o2] = q
BY ConstantsAssumption DEF TypeOK, ReleaseOrderLock, AcquireOrderLock

\* Appending an event moves no event that is there already.
LEMMA CreateEventKeeps ==
    ASSUME NEW o \in Orders, NEW e, outbox \in [Orders -> Seq(Event)], CreateEvent(o, e)
    PROVE  /\ \A o2 \in Orders : \A i \in DOMAIN outbox[o2] :
                 i \in DOMAIN outbox'[o2] /\ outbox'[o2][i] = outbox[o2][i]
           /\ \A o2 \in Orders \ {o} : outbox'[o2] = outbox[o2]
           /\ \A i \in DOMAIN outbox'[o] : i \notin DOMAIN outbox[o] =>
                 i = Len(outbox[o]) + 1
           /\ Len(outbox[o]) + 1 \in DOMAIN outbox'[o]
           /\ outbox'[o][Len(outbox[o]) + 1] = e
BY DEF CreateEvent

\* The same with a name for the index of the new event.
LEMMA CreateEventAdds ==
    ASSUME TypeOK, NEW o \in Orders, NEW e, CreateEvent(o, e)
    PROVE  \E n :
      /\ \A o2 \in Orders : \A i \in DOMAIN outbox[o2] :
             i \in DOMAIN outbox'[o2] /\ outbox'[o2][i] = outbox[o2][i]
      /\ \A o2 \in Orders \ {o} : outbox'[o2] = outbox[o2]
      /\ \A i \in DOMAIN outbox'[o] : i \notin DOMAIN outbox[o] => i = n
      /\ n \in DOMAIN outbox'[o] /\ outbox'[o][n] = e
<1>1. outbox \in [Orders -> Seq(Event)]
  BY DEF TypeOK
<1> DEFINE m == Len(outbox[o]) + 1
<1>2. /\ \A o2 \in Orders : \A i \in DOMAIN outbox[o2] :
             i \in DOMAIN outbox'[o2] /\ outbox'[o2][i] = outbox[o2][i]
      /\ \A o2 \in Orders \ {o} : outbox'[o2] = outbox[o2]
      /\ \A i \in DOMAIN outbox'[o] : i \notin DOMAIN outbox[o] => i = m
      /\ m \in DOMAIN outbox'[o] /\ outbox'[o][m] = e
  BY <1>1, CreateEventKeeps
<1> HIDE DEF m
<1> QED BY <1>2

\* A payment that is recorded is announced.
LEMMA MarkCommitAnnounces ==
    ASSUME NEW h \in Handlers, MarkCommit(h),
           attempt[handler[h].attempt].status = "CREATED",
           payment[attempt[handler[h].attempt].order] = "PENDING"
    PROVE  CreateEvent(attempt[handler[h].attempt].order, PaymentSuccess(handler[h].attempt))
BY DEF MarkCommit

LEMMA MarkCommitIInv ==
    ASSUME TypeOK, IInv, NEW h \in Handlers, MarkCommit(h),
           NEW a \in Requests, a = handler[h].attempt,
           NEW o \in Orders, o = attempt[a].order
    PROVE  IInv'
<1>1. /\ handler[h].gatewayOrder = a /\ a # NULL
      /\ attempt[a].gatewayOrderId = a /\ gatewayOrder[a] = "paid"
      /\ attempt[a].status = "CREATED" /\ payment[o] = "PENDING"
      /\ attempt[a].gatewayPaymentId = NULL /\ orderLock[o] = h
  <2>1. /\ handler[h].pc = "commit" /\ handler[h].seenAttempt = "CREATED"
        /\ handler[h].seenPayment = "PENDING"
    BY DEF MarkCommit
  <2>2. /\ handler[h].gatewayOrder = a /\ gatewayOrder[a] = "paid"
        /\ attempt[a].status = "CREATED" /\ payment[o] = "PENDING" /\ orderLock[o] = h
    BY <2>1 DEF IInv, HandlerInv
  <2>3. attempt[a].gatewayOrderId = a /\ attempt[a].gatewayPaymentId = NULL
    BY <2>2 DEF IInv, AttemptInv
  <2> QED BY <2>2, <2>3, ConstantsAssumption
<1>2. /\ payment' = [payment EXCEPT ![o] = "SUCCESS"]
      /\ attempt' = [attempt EXCEPT
            ![a].status = "SUCCESS",
            ![a].gatewayPaymentId = IF @ = NULL THEN handler[h].gatewayOrder ELSE @]
  BY <1>1 DEF MarkCommit
<1>17. UNCHANGED <<orderStatus, refund, webhookEvent, gatewayOrder, request, admin>>
  BY DEF MarkCommit
<1>18. CreateEvent(o, PaymentSuccess(a))
  BY <1>1, MarkCommitAnnounces
<1>19. /\ ReleaseOrderLock(o)
       /\ handler' = [handler EXCEPT ![h] =
             IF handler[h].kind = "webhook"
             THEN [handler[h] EXCEPT !.pc = "processed"] ELSE IdleHandler]
  BY <1>1 DEF MarkCommit, MarkReturns, ReleaseOrderLock
<1>3. /\ attempt'[a].status = "SUCCESS" /\ attempt'[a].gatewayPaymentId = a
      /\ attempt'[a].order = o /\ attempt'[a].gatewayOrderId = a
      /\ \A b \in Requests \ {a} : attempt'[b] = attempt[b]
  BY <1>1, <1>2 DEF TypeOK, Attempt
<1>4. /\ payment'[o] = "SUCCESS"
      /\ \A o2 \in Orders \ {o} : payment'[o2] = payment[o2]
  BY <1>1, <1>2 DEF TypeOK
<1>5. /\ SuccessfulAttempts(o) = {}
      /\ \A o2 \in Orders : SuccessfulAttempts(o2)' =
                               IF o2 = o THEN {a} ELSE SuccessfulAttempts(o2)
      /\ \A o2 \in Orders : SuccessfulAttempts(o2) \subseteq Requests \ {a}
  <2>1. SuccessfulAttempts(o) = {}
    BY <1>1 DEF IInv, PaymentMatchesAttempt
  <2> QED BY <1>1, <1>3, <2>1 DEF SuccessfulAttempts
<1>6. /\ \A h2 \in Handlers \ {h} : handler'[h2] = handler[h2]
      /\ \/ handler'[h].pc = "idle"
         \/ /\ handler'[h].pc = "processed"
            /\ handler'[h].gatewayOrder = a /\ handler'[h].attempt = a
      /\ \A o2 \in Orders : \A q \in (Handlers \cup Admins) \ {h} :
             orderLock[o2] = q => orderLock'[o2] = q
  <2>1. \A o2 \in Orders : \A q \in (Handlers \cup Admins) \ {h} :
            orderLock[o2] = q => orderLock'[o2] = q
    BY <1>1, <1>19, LockOfOthers
  <2> QED BY <1>1, <1>19, <2>1 DEF IdleHandler, TypeOK, HandlerProcess
<1>7. PICK n :
      /\ \A o2 \in Orders : \A i \in DOMAIN outbox[o2] :
             i \in DOMAIN outbox'[o2] /\ outbox'[o2][i] = outbox[o2][i]
      /\ \A o2 \in Orders \ {o} : outbox'[o2] = outbox[o2]
      /\ \A i \in DOMAIN outbox'[o] : i \notin DOMAIN outbox[o] => i = n
      /\ n \in DOMAIN outbox'[o] /\ outbox'[o][n] = PaymentSuccess(a)
  BY <1>18, CreateEventAdds
<1>8. RequestInv'
  <2>1. \A b \in Requests :
           /\ attempt'[b].gatewayOrderId = attempt[b].gatewayOrderId
           /\ attempt'[b].status = "NONE" <=> attempt[b].status = "NONE"
    BY <1>1, <1>3
  <2> QED BY <1>17, <2>1 DEF IInv, RequestInv, Creating
<1>9. AttemptInv'
  <2>1. \A b \in Requests : attempt[b].status # "NONE" =>
           attempt[b].order \in Orders /\ payment'[attempt[b].order] # "NONE"
    BY <1>4 DEF IInv, AttemptInv
  <2> QED BY <1>1, <1>3, <1>4, <1>17, <2>1 DEF IInv, AttemptInv
<1>10. HandlerInv'
  <2>1. ASSUME NEW h2 \in Handlers \ {h}, handler[h2].pc = "commit"
        PROVE  /\ handler[h2].attempt \in Requests \ {a}
               /\ attempt[handler[h2].attempt].order \in Orders \ {o}
    <3>1. /\ handler[h2].attempt \in Requests
          /\ attempt[handler[h2].attempt].order \in Orders
          /\ orderLock[attempt[handler[h2].attempt].order] = h2
      BY <2>1, ConstantsAssumption DEF IInv, HandlerInv, AttemptInv
    <3> QED BY <1>1, <3>1
  <2>2. ASSUME NEW h2 \in Handlers \ {h}, handler[h2].pc = "processed"
        PROVE  attempt'[handler[h2].gatewayOrder].status = "SUCCESS"
    BY <1>3, <2>2 DEF IInv, HandlerInv
  <2>3. /\ gatewayOrder' = gatewayOrder /\ gatewayOrder[a] = "paid"
        /\ attempt'[a].status = "SUCCESS"
    BY <1>1, <1>3, <1>17
  <2>4. ASSUME NEW h2 \in Handlers \ {h}, handler[h2].pc = "commit"
        PROVE  /\ orderLock'[attempt'[handler[h2].attempt].order] = h2
               /\ handler[h2].seenAttempt = attempt'[handler[h2].attempt].status
               /\ handler[h2].seenPayment = "PENDING" =>
                     payment'[attempt'[handler[h2].attempt].order] = "PENDING"
    <3>1. /\ attempt'[handler[h2].attempt] = attempt[handler[h2].attempt]
          /\ payment'[attempt[handler[h2].attempt].order] = payment[attempt[handler[h2].attempt].order]
      BY <1>3, <1>4, <2>1, <2>4
    <3>2. /\ orderLock[attempt[handler[h2].attempt].order] = h2
          /\ handler[h2].seenAttempt = attempt[handler[h2].attempt].status
          /\ handler[h2].seenPayment = "PENDING" =>
                payment[attempt[handler[h2].attempt].order] = "PENDING"
      BY <2>4 DEF IInv, HandlerInv
    <3>3. orderLock'[attempt[handler[h2].attempt].order] = h2
      BY <1>6, <2>1, <2>4, <3>2
    <3> QED BY <3>1, <3>2, <3>3
  <2>5. ASSUME NEW h2 \in Handlers \ {h}
        PROVE  /\ handler'[h2] = handler[h2]
               /\ handler[h2].pc # "idle" =>
                     /\ handler[h2].gatewayOrder \in Requests
                     /\ gatewayOrder'[handler[h2].gatewayOrder] = "paid"
               /\ handler[h2].pc \in {"mark", "commit", "processed"} =>
                     handler[h2].attempt = handler[h2].gatewayOrder
    BY <1>6, <2>3 DEF IInv, HandlerInv
  <2> HIDE DEF HandlerInv
  <2> QED BY <1>1, <1>6, <2>2, <2>3, <2>4, <2>5 DEF HandlerInv
<1>11. AdminInv'
  <2>1. ASSUME NEW x \in Admins, admin[x].pc = "cancel"
        PROVE  admin[x].order \in Orders \ {o} /\ orderLock'[admin[x].order] = x
    <3>1. orderLock[admin[x].order] = x /\ admin[x].order \in Orders /\ x # h
      BY <2>1, ConstantsAssumption DEF IInv, AdminInv
    <3> QED BY <1>1, <1>6, <3>1
  <2> QED BY <1>4, <1>17, <2>1 DEF IInv, AdminInv
<1>12. RefundInv'
  BY <1>17 DEF IInv, RefundInv
<1>13. PaymentMatchesAttempt'
  BY <1>4, <1>5 DEF IInv, PaymentMatchesAttempt
<1>14. RefundMatchesPayment'
  <2>1. ASSUME NEW f \in RefundIds, refund[f].status # "NONE"
        PROVE  refund[f].order \in Orders \ {o}
    BY <1>5, <2>1 DEF IInv, RefundMatchesPayment
  <2>2. ASSUME NEW f \in RefundIds, refund[f].status # "NONE", NEW o2, o2 = refund[f].order
        PROVE  /\ o2 \in Orders /\ orderStatus'[o2] = "CANCELLED"
               /\ \E b \in SuccessfulAttempts(o2)' :
                     refund[f].gatewayPaymentId = attempt'[b].gatewayPaymentId
               /\ \E i \in DOMAIN outbox'[o2] : outbox'[o2][i] = RefundRequested(f)
               /\ \A f2 \in RefundIds : refund[f2].order = o2 => f2 = f
               /\ refund[f].status = "SUCCESS" <=> payment'[o2] = "REFUNDED"
    <3>2. /\ o2 \in Orders \ {o} /\ orderStatus[o2] = "CANCELLED"
          /\ \E b \in SuccessfulAttempts(o2) :
                refund[f].gatewayPaymentId = attempt[b].gatewayPaymentId
          /\ \E i \in DOMAIN outbox[o2] : outbox[o2][i] = RefundRequested(f)
          /\ \A f2 \in RefundIds : refund[f2].order = o2 => f2 = f
          /\ refund[f].status = "SUCCESS" <=> payment[o2] = "REFUNDED"
      BY <2>1, <2>2 DEF IInv, RefundMatchesPayment
    <3>3. /\ orderStatus'[o2] = "CANCELLED"
          /\ payment'[o2] = payment[o2] /\ outbox'[o2] = outbox[o2]
      BY <1>4, <1>7, <1>17, <3>2
    <3>4. /\ SuccessfulAttempts(o2)' = SuccessfulAttempts(o2)
          /\ \A b \in SuccessfulAttempts(o2) : attempt'[b] = attempt[b]
      BY <1>3, <1>5, <3>2
    <3>5. \E b \in SuccessfulAttempts(o2)' :
             refund[f].gatewayPaymentId = attempt'[b].gatewayPaymentId
      BY <3>2, <3>4
    <3>6. \E i \in DOMAIN outbox'[o2] : outbox'[o2][i] = RefundRequested(f)
      BY <3>2, <3>3
    <3>7. refund[f].status = "SUCCESS" <=> payment'[o2] = "REFUNDED"
      BY <3>2, <3>3
    <3> QED BY <3>2, <3>3, <3>5, <3>6, <3>7
  <2> QED BY <1>17, <2>2 DEF RefundMatchesPayment
<1>15. OnePaymentSuccessEvent'
  <2>1. \A i \in DOMAIN outbox[o] : outbox[o][i].eventType # "PAYMENT_SUCCESS"
    BY <1>1 DEF IInv, OnePaymentSuccessEvent
  <2>2. PaymentSuccess(a).eventType = "PAYMENT_SUCCESS" /\ PaymentSuccess(a).attempt = a
    BY DEF PaymentSuccess
  <2>3. \A i \in DOMAIN outbox'[o] :
           outbox'[o][i].eventType = "PAYMENT_SUCCESS" <=> i = n
    BY <1>7, <2>1, <2>2
  <2>4. outbox'[o][n].attempt = a
    BY <1>7, <2>2
  <2>5. ASSUME NEW o2 \in Orders
        PROVE  /\ (\E i \in DOMAIN outbox'[o2] :
                       outbox'[o2][i].eventType = "PAYMENT_SUCCESS")
                    <=> payment'[o2] \in {"SUCCESS", "REFUNDED"}
               /\ \A i, j \in DOMAIN outbox'[o2] :
                    (/\ outbox'[o2][i].eventType = "PAYMENT_SUCCESS"
                     /\ outbox'[o2][j].eventType = "PAYMENT_SUCCESS") => i = j
               /\ \A i \in DOMAIN outbox'[o2] :
                    outbox'[o2][i].eventType = "PAYMENT_SUCCESS"
                       => outbox'[o2][i].attempt \in SuccessfulAttempts(o2)'
    <3>1. CASE o2 = o
      <4>1. \E i \in DOMAIN outbox'[o2] : outbox'[o2][i].eventType = "PAYMENT_SUCCESS"
        BY <1>7, <2>3, <3>1
      <4>2. payment'[o2] \in {"SUCCESS", "REFUNDED"}
        BY <1>4, <3>1
      <4>3. \A i \in DOMAIN outbox'[o2] :
               outbox'[o2][i].eventType = "PAYMENT_SUCCESS" => i = n
        BY <2>3, <3>1
      <4>4. a \in SuccessfulAttempts(o2)'
        BY <1>5, <3>1
      <4>5. \A i \in DOMAIN outbox'[o2] :
               outbox'[o2][i].eventType = "PAYMENT_SUCCESS"
                  => outbox'[o2][i].attempt \in SuccessfulAttempts(o2)'
        BY <2>4, <3>1, <4>3, <4>4
      <4> QED BY <4>1, <4>2, <4>3, <4>5
    <3>2. CASE o2 # o
      BY <1>4, <1>5, <1>7, <3>2 DEF IInv, OnePaymentSuccessEvent
    <3> QED BY <3>1, <3>2
  <2> QED BY <2>5 DEF OnePaymentSuccessEvent
<1>16. ProcessedWebhookIsRecorded'
  BY <1>1, <1>3, <1>17 DEF IInv, ProcessedWebhookIsRecorded
<1> QED BY <1>8, <1>9, <1>10, <1>11, <1>12, <1>13, <1>14, <1>15, <1>16 DEF IInv

LEMMA HandlerIInv ==
    ASSUME TypeOK, IInv, NEW h \in Handlers, HandlerNext(h)
    PROVE  IInv'
<1> DEFINE a == handler[h].attempt
           o == attempt[a].order
<1>1. ASSUME handler[h].pc \in {"mark", "commit", "processed"}
      PROVE  /\ a \in Requests /\ o \in Orders /\ handler[h].gatewayOrder = a
             /\ attempt[a].gatewayOrderId = a /\ gatewayOrder[a] = "paid"
             /\ attempt[a].status \in {"CREATED", "SUCCESS"}
  BY <1>1, ConstantsAssumption DEF IInv, HandlerInv, AttemptInv, TypeOK, Attempt
<1>2. ASSUME NEW g \in Requests, WebhookReceive(h, g) \/ VerifyReceive(h, g)
      PROVE  IInv'
  <2>1. /\ gatewayOrder[g] = "paid"
        /\ handler'[h].pc = "lookup" /\ handler'[h].gatewayOrder = g
        /\ \A h2 \in Handlers \ {h} : handler'[h2] = handler[h2]
    <3>1. ASSUME NEW k  PROVE Received(k, g).pc = "lookup" /\ Received(k, g).gatewayOrder = g
      BY DEF Received, IdleHandler
    <3>2. PICK k : handler' = [handler EXCEPT ![h] = Received(k, g)]
      BY <1>2 DEF WebhookReceive, VerifyReceive
    <3> QED BY <1>2, <3>1, <3>2 DEF WebhookReceive, VerifyReceive, Captured, TypeOK
  <2>2. UNCHANGED <<orderStatus, payment, attempt, refund, outbox, gatewayOrder,
                    orderLock, request, admin>>
    BY <1>2 DEF WebhookReceive, VerifyReceive
  <2>3. HandlerInv'
    BY <2>1, <2>2 DEF IInv, HandlerInv
  <2>4. ProcessedWebhookIsRecorded'
    BY <1>2, <2>2 DEF WebhookReceive, VerifyReceive, AlreadyHandled, IInv,
        ProcessedWebhookIsRecorded, TypeOK
  <2> QED BY <2>2, <2>3, <2>4, HandlerLocalIInv, AdminFrame DEF IInv
<1>3. CASE FindAttempt(h)
  <2>1. \A b \in Requests : attempt[b].gatewayOrderId = handler[h].gatewayOrder
                             => b = handler[h].gatewayOrder
    BY <1>3, ConstantsAssumption DEF FindAttempt, IInv, AttemptInv, HandlerInv
  <2>2. /\ \A h2 \in Handlers \ {h} : handler'[h2] = handler[h2]
        /\ \/ handler'[h].pc = "idle"
           \/ /\ handler'[h].pc = "mark"
              /\ handler'[h].gatewayOrder = handler[h].gatewayOrder
              /\ handler'[h].attempt = handler[h].gatewayOrder
    BY <1>3, <2>1 DEF FindAttempt, IdleHandler, TypeOK, HandlerProcess
  <2>3. HandlerInv'
    BY <1>3, <2>2 DEF FindAttempt, IInv, HandlerInv
  <2> QED BY <1>3, <2>3, HandlerLocalIInv, AdminFrame
          DEF FindAttempt, IInv, ProcessedWebhookIsRecorded
<1>4. CASE MarkBegin(h)
  <2>1. o \in Orders /\ a \in Requests
    BY <1>1, <1>4 DEF MarkBegin
  <2>2. /\ orderLock'[o] = h
        /\ \A o2 \in Orders : \A q \in (Handlers \cup Admins) \ {h} :
               orderLock[o2] = q => orderLock'[o2] = q
    <3>1. orderLock[o] = NULL /\ AcquireOrderLock(o, h)
      BY <1>1, <1>4 DEF MarkBegin, OrderLockFree
    <3>2. orderLock'[o] = h
      BY <2>1, <3>1 DEF AcquireOrderLock, TypeOK
    <3> QED BY <2>1, <3>1, <3>2, LockOfOthers
  <2>3. /\ \A h2 \in Handlers \ {h} : handler'[h2] = handler[h2]
        /\ handler'[h].pc = "commit" /\ handler'[h].attempt = a
        /\ handler'[h].gatewayOrder = handler[h].gatewayOrder
        /\ handler'[h].seenAttempt = attempt[a].status
        /\ handler'[h].seenPayment = payment[o]
    BY <1>4 DEF MarkBegin, TypeOK
  <2>4. UNCHANGED <<database, gatewayOrder, request, admin>>
    BY <1>4 DEF MarkBegin
  <2>5. HandlerInv'
    <3>1. ASSUME NEW h2 \in Handlers \ {h}, handler[h2].pc = "commit"
          PROVE  attempt[handler[h2].attempt].order \in Orders
      BY <3>1, ConstantsAssumption DEF IInv, HandlerInv, AttemptInv
    <3>2. handler[h].gatewayOrder = a /\ gatewayOrder[a] = "paid"
      BY <1>1, <1>4 DEF MarkBegin
    <3> QED BY <2>1, <2>2, <2>3, <2>4, <3>1, <3>2 DEF IInv, HandlerInv
  <2>6. AdminInv'
    BY <2>2, <2>4, ConstantsAssumption DEF IInv, AdminInv
  <2> QED BY <2>4, <2>5, <2>6, HandlerLocalIInv DEF IInv, ProcessedWebhookIsRecorded
<1>5. ASSUME NEW ok, handler[h].pc = "commit", MarkReturns(h, ok)
      PROVE  /\ \A h2 \in Handlers \ {h} : handler'[h2] = handler[h2]
             /\ \/ handler'[h].pc = "idle"
                \/ /\ handler'[h].pc = "processed" /\ ok
                   /\ handler'[h].gatewayOrder = a /\ handler'[h].attempt = a
             /\ \A o2 \in Orders : \A q \in (Handlers \cup Admins) \ {h} :
                    orderLock[o2] = q => orderLock'[o2] = q
  <2>1. orderLock[o] = h /\ o \in Orders /\ handler[h].gatewayOrder = a
    BY <1>1, <1>5 DEF IInv, HandlerInv
  <2>2. \A o2 \in Orders : \A q \in (Handlers \cup Admins) \ {h} :
            orderLock[o2] = q => orderLock'[o2] = q
    BY <1>5, <2>1, LockOfOthers DEF MarkReturns
  <2> QED BY <1>5, <2>1, <2>2 DEF MarkReturns, IdleHandler, TypeOK, HandlerProcess
<1>6. ASSUME \A h2 \in Handlers \ {h} : handler'[h2] = handler[h2],
             \/ handler'[h].pc = "idle"
             \/ /\ handler'[h].pc = "processed"
                /\ handler'[h].gatewayOrder = a /\ handler'[h].attempt = a
                /\ a \in Requests /\ gatewayOrder[a] = "paid"
                /\ attempt[a].status = "SUCCESS",
             \A o2 \in Orders : \A q \in (Handlers \cup Admins) \ {h} :
                 orderLock[o2] = q => orderLock'[o2] = q,
             UNCHANGED <<orderStatus, payment, attempt, refund, outbox,
                         gatewayOrder, request, admin>>,
             ProcessedWebhookIsRecorded'
      PROVE  IInv'
  <2>1. HandlerInv'
    <3>1. ASSUME NEW h2 \in Handlers \ {h}, handler[h2].pc = "commit"
          PROVE  attempt[handler[h2].attempt].order \in Orders
      BY <3>1, ConstantsAssumption DEF IInv, HandlerInv, AttemptInv
    <3> QED BY <1>6, <3>1 DEF IInv, HandlerInv
  <2>2. AdminInv'
    BY <1>6, ConstantsAssumption DEF IInv, AdminInv
  <2> QED BY <1>6, <2>1, <2>2, HandlerLocalIInv
<1>7. CASE MarkAlreadyDone(h)
  <2>1. attempt[a].status = "SUCCESS"
    BY <1>7 DEF MarkAlreadyDone, IInv, HandlerInv
  <2> QED BY <1>1, <1>5, <1>6, <1>7, <2>1
          DEF MarkAlreadyDone, IInv, ProcessedWebhookIsRecorded
<1>8. CASE MarkRejected(h)
  BY <1>5, <1>6, <1>8 DEF MarkRejected, IInv, ProcessedWebhookIsRecorded
<1>10. CASE MarkProcessed(h)
  <2>1. attempt[a].status = "SUCCESS" /\ attempt[a].gatewayOrderId = a /\ a \in Requests
        /\ handler[h].gatewayOrder = a
    BY <1>1, <1>10 DEF MarkProcessed, IInv, HandlerInv
  <2>2. ProcessedWebhookIsRecorded'
    BY <1>10, <2>1 DEF MarkProcessed, IInv, ProcessedWebhookIsRecorded, TypeOK
  <2> QED BY <1>6, <1>10, <2>2 DEF MarkProcessed, IdleHandler, TypeOK
<1>11. CASE AbortHandler(h)
  <2>1. \A o2 \in Orders : \A q \in (Handlers \cup Admins) \ {h} :
            orderLock[o2] = q => orderLock'[o2] = q
    <3>1. CASE handler[h].pc = "commit"
      <4>1. orderLock[o] = h /\ o \in Orders
        BY <1>1, <3>1 DEF IInv, HandlerInv
      <4> QED BY <1>11, <3>1, <4>1, LockOfOthers DEF AbortHandler
    <3> QED BY <1>11, <3>1 DEF AbortHandler
  <2> QED BY <1>6, <1>11, <2>1
          DEF AbortHandler, IdleHandler, TypeOK, IInv, ProcessedWebhookIsRecorded
<1>9. CASE MarkCommit(h)
  BY <1>1, <1>9, MarkCommitIInv DEF MarkCommit
<1> QED BY <1>2, <1>3, <1>4, <1>7, <1>8, <1>9, <1>10, <1>11
        DEF HandlerNext, HandlerStep

-----------------------------------------------------------------------------
(* updateOrderStatus, cancelOrder, the consumer and the refund preserve it. *)

\* An event that is not PAYMENT_SUCCESS leaves the payment events as they are.
LEMMA OtherEventKeepsPaid ==
    ASSUME TypeOK, OnePaymentSuccessEvent, NEW o \in Orders, NEW e \in Event,
           e.eventType # "PAYMENT_SUCCESS", CreateEvent(o, e),
           payment' = payment, attempt' = attempt
    PROVE  OnePaymentSuccessEvent'
<1>1. /\ \A o2 \in Orders : \A i \in DOMAIN outbox[o2] :
             i \in DOMAIN outbox'[o2] /\ outbox'[o2][i] = outbox[o2][i]
      /\ \A o2 \in Orders \ {o} : outbox'[o2] = outbox[o2]
      /\ \A i \in DOMAIN outbox'[o] : i \notin DOMAIN outbox[o] =>
             outbox'[o][i] = e
  BY CreateEventKeeps DEF TypeOK
<1>2. \A o2 \in Orders : \A i :
         (i \in DOMAIN outbox'[o2] /\ outbox'[o2][i].eventType = "PAYMENT_SUCCESS")
           <=> (i \in DOMAIN outbox[o2] /\ outbox[o2][i].eventType = "PAYMENT_SUCCESS")
  BY <1>1
<1>3. \A o2 \in Orders : SuccessfulAttempts(o2)' = SuccessfulAttempts(o2)
  BY DEF SuccessfulAttempts
<1> QED BY <1>1, <1>2, <1>3 DEF OnePaymentSuccessEvent

\* A move of an order that is not cancelled, with its event, keeps the refunds.
LEMMA MoveKeepsRefunds ==
    ASSUME TypeOK, RefundMatchesPayment, NEW o \in Orders, NEW e,
           orderStatus[o] # "CANCELLED", CreateEvent(o, e),
           \A o2 \in Orders \ {o} : orderStatus'[o2] = orderStatus[o2],
           UNCHANGED <<payment, attempt, refund>>
    PROVE  RefundMatchesPayment'
<1>1. \A o2 \in Orders : \A i \in DOMAIN outbox[o2] :
         i \in DOMAIN outbox'[o2] /\ outbox'[o2][i] = outbox[o2][i]
  BY CreateEventKeeps DEF TypeOK
<1>2. \A o2 \in Orders : SuccessfulAttempts(o2)' = SuccessfulAttempts(o2)
  BY DEF SuccessfulAttempts
<1>3. \A f \in RefundIds : refund[f].status # "NONE" => refund[f].order # o
  BY DEF RefundMatchesPayment
<1> QED BY <1>1, <1>2, <1>3 DEF RefundMatchesPayment

LEMMA NotCancelled ==
    \A s, t \in OrderStatus : t \in allowedOrderStatusTransitions[s] => s # "CANCELLED"
BY DEF allowedOrderStatusTransitions, OrderStatus

LEMMA AdminIInv ==
    ASSUME TypeOK, IInv, NEW x \in Admins, AdminNext(x)
    PROVE  IInv'
<1>1. ASSUME NEW o \in Orders, NEW s \in OrderStatus, UpdateOrderStatusRead(x, o, s)
      PROVE  IInv'
  <2>1. /\ admin'[x].pc = "patch" /\ admin'[x].order = o
        /\ admin'[x].newStatus = s /\ admin'[x].seenStatus = orderStatus[o]
        /\ \A y \in Admins \ {x} : admin'[y] = admin[y]
    BY <1>1 DEF UpdateOrderStatusRead, IdleAdmin, TypeOK
  <2>2. UNCHANGED <<database, gatewayOrder, orderLock, request, handler>>
        /\ s \in allowedOrderStatusTransitions[orderStatus[o]]
    BY <1>1 DEF UpdateOrderStatusRead
  <2>3. AdminInv'
    BY <2>1, <2>2 DEF IInv, AdminInv
  <2> QED BY <2>2, <2>3, HandlerFrame, HandlerLocalIInv
          DEF IInv, SameAttempts, SameCaptured, ProcessedWebhookIsRecorded
<1>2. ASSUME NEW o \in Orders, CancelBegin(x, o)  PROVE IInv'
  <2>1. /\ admin'[x].pc = "cancel" /\ admin'[x].order = o
        /\ admin'[x].newStatus = "CANCELLED" /\ admin'[x].seenStatus = orderStatus[o]
        /\ admin'[x].seenPayment = payment[o]
        /\ \A y \in Admins \ {x} : admin'[y] = admin[y]
    BY <1>2 DEF CancelBegin, IdleAdmin, TypeOK
  <2>2. UNCHANGED <<database, gatewayOrder, request, handler>>
        /\ "CANCELLED" \in allowedOrderStatusTransitions[orderStatus[o]]
    BY <1>2 DEF CancelBegin
  <2>3. /\ orderLock'[o] = x
        /\ \A o2 \in Orders : \A q \in (Handlers \cup Admins) \ {x} :
               orderLock[o2] = q => orderLock'[o2] = q
    BY <1>2, LockOfOthers DEF CancelBegin, OrderLockFree, AcquireOrderLock, TypeOK
  <2>4. \A f \in RefundIds : refund[f].order # o
    <3>1. orderStatus[o] # "CANCELLED"
      BY <2>2, NotCancelled DEF TypeOK, OrderStatus
    <3> QED BY <3>1, ConstantsAssumption DEF IInv, RefundInv, RefundMatchesPayment
  <2>5. AdminInv'
    BY <2>1, <2>2, <2>3, <2>4 DEF IInv, AdminInv
  <2>6. HandlerInv'
    <3>1. ASSUME NEW h \in Handlers, handler[h].pc = "commit"
          PROVE  attempt[handler[h].attempt].order \in Orders /\ h # x
      BY <3>1, ConstantsAssumption DEF IInv, HandlerInv, AttemptInv
    <3> QED BY <2>2, <2>3, <3>1 DEF IInv, HandlerInv
  <2> QED BY <2>2, <2>5, <2>6, HandlerLocalIInv DEF IInv, ProcessedWebhookIsRecorded
<1>3. ASSUME NEW o \in Orders, admin[x].order = o, admin[x].pc # "idle",
             admin' = [admin EXCEPT ![x] = IdleAdmin],
             \/ orderLock[o] = x /\ ReleaseOrderLock(o)
             \/ orderLock' = orderLock,
             UNCHANGED <<payment, attempt, gatewayOrder, handler>>
      PROVE  /\ HandlerInv'
             /\ admin'[x].pc = "idle"
             /\ \A y \in Admins \ {x} :
                   /\ admin'[y] = admin[y]
                   /\ admin[y].pc = "cancel" =>
                         orderLock'[admin[y].order] = y
                         /\ (orderLock[o] = x => admin[y].order # o)
  <2>1. \A o2 \in Orders : \A q \in (Handlers \cup Admins) \ {x} :
            orderLock[o2] = q => orderLock'[o2] = q
    BY <1>3, LockOfOthers
  <2>2. HandlerInv'
    <3>1. ASSUME NEW h \in Handlers, handler[h].pc = "commit"
          PROVE  attempt[handler[h].attempt].order \in Orders /\ h # x
      BY <3>1, ConstantsAssumption DEF IInv, HandlerInv, AttemptInv
    <3> QED BY <1>3, <2>1, <3>1 DEF IInv, HandlerInv
  <2> QED BY <1>3, <2>1, <2>2 DEF IdleAdmin, TypeOK, IInv, AdminInv
<1>4. CASE UpdateOrderStatusCommit(x)
  <2>1. PICK o \in Orders : o = admin[x].order
    BY <1>4 DEF UpdateOrderStatusCommit, IInv, AdminInv
  <2>2. /\ admin' = [admin EXCEPT ![x] = IdleAdmin] /\ admin[x].pc = "patch"
        /\ UNCHANGED <<payment, attempt, refund, webhookEvent, gatewayOrder,
                       orderLock, request, handler>>
    BY <1>4 DEF UpdateOrderStatusCommit
  <2>3. HandlerInv' /\ AdminInv'
    BY <1>3, <2>1, <2>2 DEF IInv, AdminInv
  <2>4. RefundMatchesPayment' /\ OnePaymentSuccessEvent'
    <3>1. CASE UNCHANGED <<orderStatus, outbox>>
      BY <2>2, <3>1, AttemptFrame, RefundFrame DEF IInv, SameAttempts
    <3>2. CASE ~UNCHANGED <<orderStatus, outbox>>
      <4> DEFINE e == OrderStatusChanged(admin[x].seenStatus, admin[x].newStatus)
      <4>1. /\ orderStatus' = [orderStatus EXCEPT ![o] = admin[x].newStatus]
            /\ CreateEvent(o, e) /\ orderStatus[o] = admin[x].seenStatus
        BY <1>4, <2>1, <3>2 DEF UpdateOrderStatusCommit, StatusIsStill
      <4>2. /\ admin[x].seenStatus \in OrderStatus /\ admin[x].newStatus \in OrderStatus
            /\ admin[x].newStatus \in allowedOrderStatusTransitions[admin[x].seenStatus]
        BY <2>2 DEF TypeOK, AdminProcess, IInv, AdminInv
      <4>3. e \in Event /\ e.eventType # "PAYMENT_SUCCESS"
        BY <4>2, EventType DEF OrderStatusChanged
      <4>4. orderStatus[o] # "CANCELLED"
        BY <4>1, <4>2, NotCancelled
      <4>5. \A o2 \in Orders \ {o} : orderStatus'[o2] = orderStatus[o2]
        BY <4>1 DEF TypeOK
      <4> HIDE DEF e
      <4> QED BY <2>2, <4>1, <4>3, <4>4, <4>5, OtherEventKeepsPaid, MoveKeepsRefunds
              DEF IInv
    <3> QED BY <3>1, <3>2
  <2> QED BY <2>2, <2>3, <2>4, AttemptFrame, RequestFrame
          DEF IInv, SameAttempts, SameCaptured, RefundInv
<1>5. CASE CancelCommit(x)
  <2>1. PICK o \in Orders : o = admin[x].order
    BY <1>5 DEF CancelCommit, IInv, AdminInv
  <2>2. /\ admin' = [admin EXCEPT ![x] = IdleAdmin] /\ admin[x].pc = "cancel"
        /\ ReleaseOrderLock(o)
        /\ UNCHANGED <<payment, attempt, webhookEvent, gatewayOrder, request, handler>>
    BY <1>5, <2>1 DEF CancelCommit, ReleaseOrderLock
  <2>3. /\ orderLock[o] = x /\ admin[x].seenPayment = payment[o]
        /\ \A f \in RefundIds : refund[f].order # o
    BY <2>1, <2>2 DEF IInv, AdminInv
  <2>4. /\ HandlerInv' /\ admin'[x].pc = "idle"
        /\ \A y \in Admins \ {x} :
              /\ admin'[y] = admin[y]
              /\ admin[y].pc = "cancel" =>
                    orderLock'[admin[y].order] = y /\ admin[y].order # o
    BY <1>3, <2>1, <2>2, <2>3
  <2>5. CASE refund' = refund /\ outbox' = outbox
    <3>1. AdminInv'
      BY <2>2, <2>4, <2>5 DEF IInv, AdminInv
    <3>2. RefundMatchesPayment'
      <4>1. \A o2 \in Orders \ {o} : orderStatus'[o2] = orderStatus[o2]
        BY <1>5, <2>1 DEF CancelCommit, TypeOK
      <4>2. \A o2 \in Orders : SuccessfulAttempts(o2)' = SuccessfulAttempts(o2)
        BY <2>2 DEF SuccessfulAttempts
      <4> QED BY <2>2, <2>3, <2>5, <4>1, <4>2 DEF IInv, RefundMatchesPayment
    <3> QED BY <2>2, <2>4, <2>5, <3>1, <3>2, AttemptFrame, RequestFrame
            DEF IInv, SameAttempts, SameCaptured, RefundInv
  <2>6. ASSUME NEW a \in SuccessfulAttempts(o), NEW f \in RefundIds,
               payment[o] = "SUCCESS", refund[f].status = "NONE",
               refund' = [refund EXCEPT ![f] = [order |-> o, status |-> "PENDING",
                   gatewayPaymentId |-> attempt[a].gatewayPaymentId]],
               CreateEvent(o, RefundRequested(f)),
               orderStatus' = [orderStatus EXCEPT ![o] = "CANCELLED"]
        PROVE  IInv'
    <3>1. /\ refund'[f].order = o /\ refund'[f].status = "PENDING"
          /\ refund'[f].gatewayPaymentId = attempt[a].gatewayPaymentId
          /\ \A f2 \in RefundIds \ {f} : refund'[f2] = refund[f2]
      BY <2>6 DEF TypeOK
    <3>2. RefundInv' /\ o # NULL
      BY <3>1, ConstantsAssumption DEF IInv, RefundInv
    <3>3. AdminInv'
      BY <2>2, <2>4, <3>1 DEF IInv, AdminInv
    <3>4. PICK n : /\ n \in DOMAIN outbox'[o] /\ outbox'[o][n] = RefundRequested(f)
                   /\ \A o2 \in Orders : \A i \in DOMAIN outbox[o2] :
                        i \in DOMAIN outbox'[o2] /\ outbox'[o2][i] = outbox[o2][i]
      BY <2>6, CreateEventAdds
    <3>5. \A o2 \in Orders : SuccessfulAttempts(o2)' = SuccessfulAttempts(o2)
      BY <2>2 DEF SuccessfulAttempts
    <3>6. RefundMatchesPayment'
      <4>1. /\ orderStatus'[o] = "CANCELLED"
            /\ \A o2 \in Orders \ {o} : orderStatus'[o2] = orderStatus[o2]
        BY <2>6 DEF TypeOK
      <4>2. a \in SuccessfulAttempts(o)'
        BY <3>5
      <4> QED BY <2>2, <2>3, <2>6, <3>1, <3>2, <3>4, <3>5, <4>1, <4>2
              DEF IInv, RefundMatchesPayment
    <3>7. OnePaymentSuccessEvent'
      <4>1. RefundRequested(f) \in Event
            /\ RefundRequested(f).eventType # "PAYMENT_SUCCESS"
        BY EventType DEF RefundRequested
      <4> QED BY <2>2, <2>6, <4>1, OtherEventKeepsPaid DEF IInv
    <3> QED BY <2>2, <2>4, <3>2, <3>3, <3>6, <3>7, AttemptFrame, RequestFrame
            DEF IInv, SameAttempts, SameCaptured
  <2> QED BY <1>5, <2>1, <2>3, <2>5, <2>6 DEF CancelCommit
<1>6. CASE AbortAdmin(x)
  <2>1. PICK o \in Orders : o = admin[x].order
    BY <1>6 DEF AbortAdmin, IInv, AdminInv
  <2>2. \/ orderLock[o] = x /\ ReleaseOrderLock(o)
        \/ orderLock' = orderLock
    BY <1>6, <2>1 DEF AbortAdmin, IInv, AdminInv, ReleaseOrderLock
  <2>3. /\ UNCHANGED <<database, gatewayOrder, request, handler>>
        /\ admin[x].pc # "idle" /\ admin' = [admin EXCEPT ![x] = IdleAdmin]
    BY <1>6 DEF AbortAdmin
  <2>4. HandlerInv' /\ AdminInv'
    BY <1>3, <2>1, <2>2, <2>3 DEF IInv, AdminInv
  <2> QED BY <2>3, <2>4, HandlerLocalIInv DEF IInv, ProcessedWebhookIsRecorded
<1> QED BY <1>1, <1>2, <1>4, <1>5, <1>6 DEF AdminNext, AdminStep

LEMMA RefundIInv ==
    ASSUME TypeOK, IInv, NEW f \in RefundIds, RefundNext(f)
    PROVE  IInv'
<1>1. /\ refund[f].status \in {"PENDING", "PROCESSING"}
      /\ UNCHANGED <<orderStatus, attempt, outbox, webhookEvent, gatewayOrder,
                     orderLock, request, handler, admin>>
  BY DEF RefundNext, ClaimRefund, SettleRefund, FailRefund, RefundMoves
<1>2. PICK o \in Orders : o = refund[f].order
  BY <1>1 DEF IInv, RefundMatchesPayment
<1>3. /\ payment[o] = "SUCCESS" /\ orderStatus[o] = "CANCELLED"
      /\ \A f2 \in RefundIds : refund[f2].order = o => f2 = f
  <2>1. payment[o] # "REFUNDED" /\ SuccessfulAttempts(o) # {}
    BY <1>1, <1>2 DEF IInv, RefundMatchesPayment
  <2> QED BY <1>1, <1>2, <2>1 DEF IInv, RefundMatchesPayment, PaymentMatchesAttempt
<1>4. PICK s \in {"PROCESSING", "SUCCESS", "FAILED"} :
        /\ refund' = [refund EXCEPT ![f].status = s]
        /\ s = "SUCCESS" => payment' = [payment EXCEPT ![o] = "REFUNDED"]
        /\ s # "SUCCESS" => payment' = payment
  <2>1. CASE ClaimRefund(f)
    BY <2>1 DEF ClaimRefund, RefundMoves
  <2>2. CASE SettleRefund(f)
    BY <1>2, <2>2 DEF SettleRefund, RefundMoves
  <2>3. CASE FailRefund(f)
    BY <2>3 DEF FailRefund, RefundMoves
  <2> QED BY <2>1, <2>2, <2>3 DEF RefundNext
<1>5. /\ refund'[f].status = s /\ refund'[f].order = o
      /\ refund'[f].gatewayPaymentId = refund[f].gatewayPaymentId
      /\ \A f2 \in RefundIds \ {f} : refund'[f2] = refund[f2]
  BY <1>2, <1>4 DEF TypeOK, Refund
<1>6. /\ payment'[o] = IF s = "SUCCESS" THEN "REFUNDED" ELSE "SUCCESS"
      /\ \A o2 \in Orders \ {o} : payment'[o2] = payment[o2]
  BY <1>3, <1>4 DEF TypeOK
<1>7. \A o2 \in Orders : SuccessfulAttempts(o2)' = SuccessfulAttempts(o2)
  BY <1>1 DEF SuccessfulAttempts
<1>8. RequestInv' /\ ProcessedWebhookIsRecorded'
  BY <1>1 DEF IInv, RequestInv, ProcessedWebhookIsRecorded
<1>9. AttemptInv'
  <2>1. \A o2 \in Orders : payment[o2] # "NONE" => payment'[o2] # "NONE"
    BY <1>6
  <2> QED BY <1>1, <2>1 DEF IInv, AttemptInv
<1>10. HandlerInv'
  <2>1. ASSUME NEW h \in Handlers, handler[h].pc = "commit"
        PROVE  attempt[handler[h].attempt].order \in Orders
    BY <2>1, ConstantsAssumption DEF IInv, HandlerInv, AttemptInv
  <2>2. \A o2 \in Orders : payment[o2] = "PENDING" => payment'[o2] = "PENDING"
    BY <1>3, <1>6
  <2> QED BY <1>1, <2>1, <2>2 DEF IInv, HandlerInv
<1>11. AdminInv'
  <2>1. ASSUME NEW x \in Admins, admin[x].pc = "cancel"
        PROVE  /\ admin[x].order \in Orders \ {o}
               /\ \A f2 \in RefundIds : refund'[f2].order # admin[x].order
    BY <1>2, <1>5, <2>1 DEF IInv, AdminInv
  <2> QED BY <1>1, <1>6, <2>1 DEF IInv, AdminInv
<1>12. RefundInv'
  BY <1>1, <1>2, <1>5, ConstantsAssumption DEF IInv, RefundInv
<1>13. PaymentMatchesAttempt'
  BY <1>3, <1>6, <1>7 DEF IInv, PaymentMatchesAttempt
<1>14. RefundMatchesPayment'
  <2>1. ASSUME NEW f2 \in RefundIds \ {f}, refund[f2].status # "NONE"
        PROVE  refund[f2].order \in Orders \ {o}
    BY <1>3, <2>1 DEF IInv, RefundMatchesPayment
  <2> QED BY <1>1, <1>2, <1>3, <1>5, <1>6, <1>7, <2>1 DEF IInv, RefundMatchesPayment
<1>15. OnePaymentSuccessEvent'
  BY <1>1, <1>3, <1>6, <1>7 DEF IInv, OnePaymentSuccessEvent
<1> QED BY <1>8, <1>9, <1>10, <1>11, <1>12, <1>13, <1>14, <1>15 DEF IInv

LEMMA CustomerIInv ==
    ASSUME TypeOK, IInv, NEW g \in Requests, CustomerPays(g)
    PROVE  IInv'
<1>1. /\ attempt[g].gatewayOrderId = g
      /\ gatewayOrder'[g] = "paid"
      /\ \A q \in Requests \ {g} : gatewayOrder'[q] = gatewayOrder[q]
      /\ UNCHANGED <<database, orderLock, request, handler, admin>>
  BY DEF CustomerPays, IInv, RequestInv, TypeOK
<1>2. AttemptInv' /\ HandlerInv'
  BY <1>1 DEF IInv, AttemptInv, HandlerInv
<1> QED BY <1>1, <1>2, AttemptFrame, RefundFrame, AdminFrame, RequestFrame
        DEF IInv, SameAttempts

LEMMA ConfirmIInv ==
    ASSUME TypeOK, IInv, NEW o \in Orders, ConfirmOrderAfterPayment(o)
    PROVE  IInv'
<1> DEFINE e == OrderStatusChanged("PENDING", "CONFIRMED")
<1>1. /\ orderStatus[o] # "CANCELLED" /\ CreateEvent(o, e)
      /\ \A o2 \in Orders \ {o} : orderStatus'[o2] = orderStatus[o2]
      /\ UNCHANGED <<payment, attempt, refund, webhookEvent, gatewayOrder,
                     orderLock, request, handler, admin>>
  BY DEF ConfirmOrderAfterPayment, StatusIsStill, TypeOK
<1>2. e \in Event /\ e.eventType # "PAYMENT_SUCCESS"
  BY EventType DEF OrderStatusChanged, OrderStatus
<1> HIDE DEF e
<1>3. OnePaymentSuccessEvent' /\ RefundMatchesPayment'
  BY <1>1, <1>2, OtherEventKeepsPaid, MoveKeepsRefunds DEF IInv
<1> QED BY <1>1, <1>3, AttemptFrame, HandlerFrame, AdminFrame, RequestFrame
        DEF IInv, SameAttempts, SameCaptured, RefundInv

-----------------------------------------------------------------------------
(* The theorems.                                                           *)

LEMMA InitIInv == Init => IInv
<1> SUFFICES ASSUME Init  PROVE IInv
  OBVIOUS
<1>1. \A a \in Requests : attempt[a].status = "NONE" /\ attempt[a].gatewayOrderId = NULL
  BY DEF Init, NoAttempt
<1>2. \A o \in Orders : SuccessfulAttempts(o) = {}
  BY <1>1 DEF SuccessfulAttempts
<1>3. RequestInv /\ AttemptInv
  BY <1>1, ConstantsAssumption DEF Init, RequestInv, AttemptInv, Creating, IdleRequest
<1>4. HandlerInv /\ AdminInv
  BY DEF Init, HandlerInv, AdminInv, IdleHandler, IdleAdmin
<1>5. RefundInv /\ RefundMatchesPayment
  BY DEF Init, RefundInv, RefundMatchesPayment, NoRefund
<1>6. PaymentMatchesAttempt /\ OnePaymentSuccessEvent /\ ProcessedWebhookIsRecorded
  BY <1>2 DEF Init, PaymentMatchesAttempt, OnePaymentSuccessEvent,
      ProcessedWebhookIsRecorded
<1> QED BY <1>3, <1>4, <1>5, <1>6 DEF IInv

LEMMA NextInvariant == TypeOK /\ IInv /\ [Next]_vars => TypeOK' /\ IInv'
<1> SUFFICES ASSUME TypeOK, IInv, [Next]_vars  PROVE TypeOK' /\ IInv'
  OBVIOUS
<1>1. ASSUME NEW r \in Requests, RequestNext(r)  PROVE TypeOK' /\ IInv'
  BY <1>1, RequestTypeOK, RequestIInv DEF IInv
<1>2. ASSUME NEW g \in Requests, CustomerPays(g)  PROVE TypeOK' /\ IInv'
  BY <1>2, OtherTypeOK, CustomerIInv
<1>3. ASSUME NEW h \in Handlers, HandlerNext(h)  PROVE TypeOK' /\ IInv'
  BY <1>3, HandlerTypeOK, HandlerIInv DEF IInv
<1>4. ASSUME NEW x \in Admins, AdminNext(x)  PROVE TypeOK' /\ IInv'
  BY <1>4, AdminTypeOK, AdminIInv DEF IInv
<1>5. ASSUME NEW o \in Orders, ConfirmOrderAfterPayment(o)  PROVE TypeOK' /\ IInv'
  BY <1>5, OtherTypeOK, ConfirmIInv
<1>6. ASSUME NEW f \in RefundIds, RefundNext(f)  PROVE TypeOK' /\ IInv'
  BY <1>6, OtherTypeOK, RefundIInv
<1>7. CASE UNCHANGED vars
  BY <1>7 DEF TypeOK, IInv, RequestInv, AttemptInv, HandlerInv, AdminInv, RefundInv,
      PaymentMatchesAttempt, RefundMatchesPayment, OnePaymentSuccessEvent,
      ProcessedWebhookIsRecorded, SuccessfulAttempts
<1> QED BY <1>1, <1>2, <1>3, <1>4, <1>5, <1>6, <1>7 DEF Next

\* The inductive invariant holds in every reachable state, for any constants.
THEOREM Invariance == Spec => [](TypeOK /\ IInv)
<1>1. Init => TypeOK /\ IInv
  BY InitTypeOK, InitIInv
<1>2. TypeOK /\ IInv /\ [Next]_vars => (TypeOK /\ IInv)'
  BY NextInvariant
<1> QED BY <1>1, <1>2, PTL DEF Spec

\* Every table and every running invocation keeps its type.
THEOREM TypeCorrect == Spec => []TypeOK
BY Invariance, PTL

\* markPaymentSuccessful records one successful attempt per paid order, however
\* many handlers, redeliveries and gateway orders there are.
THEOREM PaymentRecordedOnce == Spec => []PaymentMatchesAttempt
<1>1. IInv => PaymentMatchesAttempt
  BY DEF IInv
<1> QED BY <1>1, Invariance, PTL

\* A recorded payment is one Razorpay captured, for the attempt's own gateway order.
THEOREM RecordedIsCaptured == Spec => []RecordedPaymentIsCaptured
<1>1. IInv => RecordedPaymentIsCaptured
  BY DEF IInv, AttemptInv, RecordedPaymentIsCaptured
<1> QED BY <1>1, Invariance, PTL

\* The outbox has one PAYMENT_SUCCESS event exactly for a recorded payment.
THEOREM PaymentEventOnce == Spec => []OnePaymentSuccessEvent
<1>1. IInv => OnePaymentSuccessEvent
  BY DEF IInv
<1> QED BY <1>1, Invariance, PTL

\* cancelOrder and the refund worker keep refund, order and payment in step.
THEOREM RefundCorrect == Spec => []RefundMatchesPayment
<1>1. IInv => RefundMatchesPayment
  BY DEF IInv
<1> QED BY <1>1, Invariance, PTL

\* A webhook event that will never be handled again has had its effect.
THEOREM WebhookCorrect == Spec => []ProcessedWebhookIsRecorded
<1>1. IInv => ProcessedWebhookIsRecorded
  BY DEF IInv
<1> QED BY <1>1, Invariance, PTL

\* What a customer paid is always the gateway order of exactly one attempt.
THEOREM CapturedIsKnown == Spec => []CapturedOrderIsKnown
<1>1. IInv => CapturedOrderIsKnown
  BY ConstantsAssumption DEF IInv, AttemptInv, CapturedOrderIsKnown
<1> QED BY <1>1, Invariance, PTL

\* The lease on gateway order creation never has two claimants.
THEOREM LeaseIsPrivate == Spec => []LeaseNeverContended
<1>1. IInv => LeaseNeverContended
  BY DEF IInv, RequestInv, LeaseNeverContended
<1> QED BY <1>1, Invariance, PTL

\* Whoever cancels an order it finds paid creates its refund in the same step.
THEOREM CancelRefunds == Spec => CancelRefundsPaidOrder
<1> DEFINE Refunds(x) == LET o == admin[x].order IN
          (/\ admin[x].pc = "cancel" /\ admin'[x].pc = "idle"
           /\ orderStatus'[o] # orderStatus[o] /\ payment[o] = "SUCCESS")
          => \E f \in RefundIds : /\ refund[f].status = "NONE"
                                  /\ refund'[f].status = "PENDING"
                                  /\ refund'[f].order = o
<1>1. ASSUME TypeOK, IInv, [Next]_vars, NEW x \in Admins  PROVE Refunds(x)
  <2> SUFFICES ASSUME admin[x].pc = "cancel", admin'[x].pc = "idle",
                      orderStatus'[admin[x].order] # orderStatus[admin[x].order],
                      payment[admin[x].order] = "SUCCESS"
               PROVE  \E f \in RefundIds : /\ refund[f].status = "NONE"
                                           /\ refund'[f].status = "PENDING"
                                           /\ refund'[f].order = admin[x].order
    OBVIOUS
  <2>1. admin[x].seenPayment = "SUCCESS"
    BY <1>1 DEF IInv, AdminInv
  <2>2. CancelCommit(x)
    <3>1. ASSUME NEW y \in Admins, AdminNext(y)  PROVE y = x
      <4>1. y # x => admin'[x] = admin[x]
        BY <1>1, <3>1 DEF AdminNext, AdminStep, UpdateOrderStatusRead, CancelBegin,
            UpdateOrderStatusCommit, CancelCommit, AbortAdmin, TypeOK
      <4> QED BY <4>1
    <3>2. AdminNext(x)
      BY <1>1, <3>1 DEF Next, RequestNext, InitiateCheck, InitiateTx, ClaimLease,
          GatewayCreateOrder, ReleaseLease, Finalize, AbortRequest, CustomerPays,
          HandlerNext, HandlerStep, WebhookReceive, VerifyReceive, FindAttempt,
          MarkBegin, MarkAlreadyDone, MarkRejected, MarkCommit, MarkProcessed,
          AbortHandler, ConfirmOrderAfterPayment, RefundNext, ClaimRefund,
          SettleRefund, FailRefund
    <3> QED BY <3>2 DEF AdminNext, AdminStep, UpdateOrderStatusRead, CancelBegin,
          UpdateOrderStatusCommit, AbortAdmin
  <2>3. PICK f \in RefundIds, a \in SuccessfulAttempts(admin[x].order) :
          /\ refund[f].status = "NONE"
          /\ refund' = [refund EXCEPT ![f] = [order |-> admin[x].order,
                status |-> "PENDING",
                gatewayPaymentId |-> attempt[a].gatewayPaymentId]]
    BY <2>1, <2>2 DEF CancelCommit
  <2> QED BY <1>1, <2>3 DEF TypeOK
<1>2. TypeOK /\ IInv /\ [Next]_vars => [\A x \in Admins : Refunds(x)]_vars
  BY <1>1
<1> QED BY <1>2, Invariance, PTL DEF Spec, CancelRefundsPaidOrder
=============================================================================
