-------------------------- MODULE Lifecycle_proofs ---------------------------
(***************************************************************************)
(* OrderPayment implements OrderLifecycle, and the outbox tells the moves  *)
(* of every order, for any number of orders, requests, handlers,           *)
(* administrators and refunds.                                             *)
(***************************************************************************)
EXTENDS OrderPayment_proofs, SequenceTheorems

USE DEF database, vars

-----------------------------------------------------------------------------
(* The invariant lacks two facts: money that went back went back through a *)
(* refund, and who holds a cancellation cancels.                           *)

RefundedHasRefund ==
    \A o \in Orders : payment[o] = "REFUNDED" =>
        \E f \in RefundIds : refund[f].order = o

CancellationCancels ==
    \A x \in Admins : admin[x].pc = "cancel" => admin[x].newStatus = "CANCELLED"

\* Everything known of a reachable state.
SInv == TypeOK /\ IInv /\ RefundedHasRefund /\ CancellationCancels

\* A refund's step changes the status of that refund alone.
LEMMA RefundStep ==
    ASSUME TypeOK, NEW f \in RefundIds, RefundNext(f)
    PROVE  /\ refund[f].status # "NONE"
           /\ \A g \in RefundIds : refund'[g].order = refund[g].order
           /\ \A g \in RefundIds \ {f} : refund'[g] = refund[g]
<1>1. ASSUME NEW s, NEW t, RefundMoves(f, s, t), s # "NONE"
      PROVE  /\ refund[f].status # "NONE"
             /\ \A g \in RefundIds : refund'[g].order = refund[g].order
             /\ \A g \in RefundIds \ {f} : refund'[g] = refund[g]
  <2>1. refund[f].status = s
    BY <1>1 DEF RefundMoves
  <2>2. refund'[f] = [refund[f] EXCEPT !.status = t]
    BY <1>1 DEF RefundMoves, TypeOK
  <2>3. refund'[f].order = refund[f].order
    BY <2>2 DEF TypeOK, Refund
  <2>4. \A g \in RefundIds \ {f} : refund'[g] = refund[g]
    BY <1>1 DEF RefundMoves, TypeOK
  <2> QED BY <1>1, <2>1, <2>3, <2>4
<1> QED BY <1>1 DEF RefundNext, ClaimRefund, SettleRefund, FailRefund

\* Refunds keep their orders, and a payment becomes REFUNDED by one of them.
LEMMA RefundedNext == TypeOK /\ IInv /\ RefundedHasRefund /\ [Next]_vars => RefundedHasRefund'
<1> SUFFICES ASSUME TypeOK, IInv, RefundedHasRefund, [Next]_vars  PROVE RefundedHasRefund'
  OBVIOUS
<1>1. ASSUME \A f \in RefundIds : refund[f].order # NULL => refund'[f].order = refund[f].order,
             \A o \in Orders : payment'[o] = "REFUNDED" => payment[o] = "REFUNDED"
      PROVE  RefundedHasRefund'
  BY <1>1, ConstantsAssumption DEF RefundedHasRefund
<1>2. ASSUME UNCHANGED <<payment, refund>>  PROVE RefundedHasRefund'
  BY <1>2 DEF RefundedHasRefund
<1>3. ASSUME NEW r \in Requests, RequestNext(r)  PROVE RefundedHasRefund'
  <2>1. ASSUME InitiateTx(r)  PROVE RefundedHasRefund'
    BY <1>1, <2>1 DEF InitiateTx, TypeOK
  <2> QED BY <1>2, <1>3, <2>1 DEF RequestNext, InitiateCheck, ClaimLease, GatewayCreateOrder,
          ReleaseLease, Finalize, AbortRequest
<1>4. ASSUME NEW h \in Handlers, HandlerNext(h)  PROVE RefundedHasRefund'
  <2>1. ASSUME MarkCommit(h)  PROVE RefundedHasRefund'
    BY <1>1, <2>1 DEF MarkCommit, TypeOK
  <2> QED BY <1>2, <1>4, <2>1 DEF HandlerNext, HandlerStep, WebhookReceive, VerifyReceive,
          FindAttempt, MarkBegin, MarkAlreadyDone, MarkRejected, MarkProcessed, AbortHandler
<1>5. ASSUME NEW x \in Admins, AdminNext(x)  PROVE RefundedHasRefund'
  <2>1. ASSUME CancelCommit(x)  PROVE RefundedHasRefund'
    <3>1. \A f \in RefundIds : refund[f].order # NULL => refund'[f].order = refund[f].order
      BY <2>1 DEF CancelCommit, IInv, RefundInv, TypeOK
    <3> QED BY <1>1, <2>1, <3>1 DEF CancelCommit
  <2> QED BY <1>2, <1>5, <2>1 DEF AdminNext, AdminStep, UpdateOrderStatusRead, CancelBegin,
          UpdateOrderStatusCommit, AbortAdmin
<1>6. ASSUME NEW f \in RefundIds, RefundNext(f)  PROVE RefundedHasRefund'
  <2>1. \A g \in RefundIds : refund'[g].order = refund[g].order
    BY <1>6, RefundStep
  <2>2. \A o \in Orders : payment'[o] = "REFUNDED" => payment[o] = "REFUNDED" \/ o = refund[f].order
    BY <1>6 DEF RefundNext, ClaimRefund, SettleRefund, FailRefund, TypeOK
  <2> QED BY <2>1, <2>2 DEF RefundedHasRefund
<1>7. ASSUME NEW g \in Requests, CustomerPays(g)  PROVE RefundedHasRefund'
  BY <1>2, <1>7 DEF CustomerPays
<1>8. ASSUME NEW o \in Orders, ConfirmOrderAfterPayment(o)  PROVE RefundedHasRefund'
  BY <1>2, <1>8 DEF ConfirmOrderAfterPayment
<1> QED BY <1>2, <1>3, <1>4, <1>5, <1>6, <1>7, <1>8 DEF Next

\* A cancellation is read as one.
LEMMA CancellationNext ==
    TypeOK /\ CancellationCancels /\ [Next]_vars => CancellationCancels'
<1> SUFFICES ASSUME TypeOK, CancellationCancels, [Next]_vars  PROVE CancellationCancels'
  OBVIOUS
<1>1. ASSUME UNCHANGED admin  PROVE CancellationCancels'
  BY <1>1 DEF CancellationCancels
<1>2. ASSUME NEW x \in Admins, AdminNext(x)  PROVE CancellationCancels'
  <2>1. \A y \in Admins \ {x} : admin'[y] = admin[y]
    BY <1>2 DEF AdminNext, AdminStep, UpdateOrderStatusRead, UpdateOrderStatusCommit,
        CancelBegin, CancelCommit, AbortAdmin, TypeOK
  <2>2. admin'[x].pc = "cancel" => admin'[x].newStatus = "CANCELLED"
    <3>1. ASSUME NEW o \in Orders, CancelBegin(x, o)  PROVE admin'[x].newStatus = "CANCELLED"
      BY <3>1 DEF CancelBegin, TypeOK, IdleAdmin
    <3>2. ASSUME NEW o \in Orders, NEW s \in OrderStatus, UpdateOrderStatusRead(x, o, s)
          PROVE  admin'[x].pc = "patch"
      BY <3>2 DEF UpdateOrderStatusRead, TypeOK, IdleAdmin
    <3>3. CASE UpdateOrderStatusCommit(x) \/ CancelCommit(x) \/ AbortAdmin(x)
      <4>1. admin'[x] = IdleAdmin
        BY <3>3 DEF UpdateOrderStatusCommit, CancelCommit, AbortAdmin, TypeOK
      <4> QED BY <4>1 DEF IdleAdmin
    <3> QED BY <1>2, <3>1, <3>2, <3>3 DEF AdminNext, AdminStep
  <2> QED BY <2>1, <2>2 DEF CancellationCancels
<1> QED BY <1>1, <1>2 DEF Next, RequestNext, InitiateCheck, InitiateTx, ClaimLease,
        GatewayCreateOrder, ReleaseLease, Finalize, AbortRequest, HandlerNext, HandlerStep,
        WebhookReceive, VerifyReceive, FindAttempt, MarkBegin, MarkAlreadyDone, MarkRejected,
        MarkCommit, MarkProcessed, AbortHandler, RefundNext, ClaimRefund, SettleRefund,
        FailRefund, CustomerPays, ConfirmOrderAfterPayment

LEMMA SInvariance == Spec => []SInv
<1>1. Init => RefundedHasRefund
  BY DEF Init, RefundedHasRefund
<1>2. Init => CancellationCancels
  BY DEF Init, CancellationCancels, IdleAdmin
<1>3. Init => SInv
  BY <1>1, <1>2, InitTypeOK, InitIInv DEF SInv
<1>4. SInv /\ [Next]_vars => SInv'
  BY NextInvariant, RefundedNext, CancellationNext DEF SInv
<1> QED BY <1>3, <1>4, PTL DEF Spec

-----------------------------------------------------------------------------
(* The mapping.                                                            *)

\* An order's money is told by its payment and its refunds.
LEMMA MoneyValue ==
    ASSUME NEW o \in Orders
    PROVE  Money[o] = MoneyOf(o) /\ Money'[o] = MoneyOf(o)'
BY DEF Money

LEMMA MoneyIsFunction ==
    Money = [o \in Orders |-> Money[o]] /\ Money' = [o \in Orders |-> Money'[o]]
<1>1. Money = [o \in Orders |-> Money[o]]
  BY DEF Money
<1>2. Money' = [o \in Orders |-> Money'[o]]
  BY DEF Money
<1> QED BY <1>1, <1>2

LEMMA OneChange ==
    ASSUME NEW S, NEW m, NEW n, NEW o \in S, NEW v,
           m = [x \in S |-> m[x]], n = [x \in S |-> n[x]],
           n[o] = v, \A p \in S \ {o} : n[p] = m[p]
    PROVE  n = [m EXCEPT ![o] = v]
OBVIOUS

LEMMA MoneyChange ==
    ASSUME NEW o \in Orders, NEW v, Money'[o] = v, \A p \in Orders \ {o} : Money'[p] = Money[p]
    PROVE  Money' = [Money EXCEPT ![o] = v]
BY MoneyIsFunction, OneChange

LEMMA SameMoney ==
    ASSUME NEW o \in Orders, payment'[o] = payment[o],
           \A f \in RefundIds : refund'[f].order = o <=> refund[f].order = o,
           \A f \in RefundIds : refund[f].order = o => refund'[f].status = refund[f].status
    PROVE  Money'[o] = Money[o]
<1>1. RefundFailed(o)' <=> RefundFailed(o)
  BY DEF RefundFailed
<1>2. RefundOpen(o)' <=> RefundOpen(o)
  BY DEF RefundOpen
<1>3. MoneyOf(o)' = MoneyOf(o)
  BY <1>1, <1>2 DEF MoneyOf
<1> QED BY <1>3, MoneyValue

\* Orders stay captured or not when no gateway order is paid by the step.
LEMMA SameCapturedOrders ==
    ASSUME SameCaptured,
           \A a \in Requests : gatewayOrder[a] = "paid" => attempt'[a].order = attempt[a].order
    PROVE  CapturedOrders' = CapturedOrders
BY DEF CapturedOrders, SameCaptured

\* A step that moves nothing an order is about is a stutter.
LEMMA LifecycleStutter ==
    ASSUME UNCHANGED <<orderStatus, outbox>>,
           \A o \in Orders : Money'[o] = Money[o],
           CapturedOrders' = CapturedOrders
    PROVE  UNCHANGED Lifecycle!vars
<1>1. Money' = Money
  BY MoneyIsFunction
<1>2. Announced' = Announced
  BY DEF Announced
<1> QED BY <1>1, <1>2 DEF Lifecycle!vars

\* An event written to the outbox is announced.
LEMMA EventIsAnnounced ==
    ASSUME NEW o \in Orders, NEW e, outbox \in [Orders -> Seq(Event)], e \in Event,
           CreateEvent(o, e)
    PROVE  Lifecycle!Announce(o, News(e))
<1> DEFINE s == outbox[o]
           t == [i \in DOMAIN s |-> News(s[i])]
           T == {News(x) : x \in Event}
           u == [i \in DOMAIN Append(s, e) |-> News(Append(s, e)[i])]
<1>1. s \in Seq(Event) /\ DOMAIN s = 1..Len(s) /\ Len(s) \in Nat
  OBVIOUS
<1>2. t \in Seq(T) /\ Len(t) = Len(s)
  <2>1. \A i \in 1..Len(s) : News(s[i]) \in T
    BY <1>1
  <2>2. t \in [1..Len(s) -> T]
    BY <1>1, <2>1
  <2> HIDE DEF t, T
  <2> QED BY <1>1, <2>2
<1>3. Append(t, News(e)) = u
  <2>0. News(e) \in T
    OBVIOUS
  <2>1. DOMAIN Append(s, e) = 1..(Len(s) + 1)
    BY <1>1
  <2>2. DOMAIN Append(t, News(e)) = 1..(Len(s) + 1)
    <3> HIDE DEF t, T
    <3> QED BY <1>1, <1>2, <2>0
  <2>3. ASSUME NEW i \in 1..(Len(s) + 1)  PROVE Append(t, News(e))[i] = u[i]
    <3>1. Append(t, News(e))[i] = IF i = Len(s) + 1 THEN News(e) ELSE t[i]
      <4> HIDE DEF t, T
      <4> QED BY <1>1, <1>2, <2>0, <2>3
    <3>2. Append(s, e)[i] = IF i = Len(s) + 1 THEN e ELSE s[i]
      BY <1>1, <2>3
    <3>3. u[i] = News(Append(s, e)[i])
      BY <2>1, <2>3
    <3>4. i # Len(s) + 1 => t[i] = News(s[i])
      BY <1>1, <2>3
    <3> QED BY <3>1, <3>2, <3>3, <3>4
  <2>4. Append(t, News(e)) = [i \in 1..(Len(s) + 1) |-> Append(t, News(e))[i]]
    <3> HIDE DEF t, T
    <3>1. Append(t, News(e)) \in Seq(T) /\ Len(Append(t, News(e))) = Len(s) + 1
      BY <1>1, <1>2, <2>0, AppendProperties
    <3>2. ASSUME NEW w \in Seq(T)  PROVE w = [i \in 1..Len(w) |-> w[i]]
      OBVIOUS
    <3> QED BY <3>1, <3>2
  <2> QED BY <2>1, <2>3, <2>4
<1>4. outbox' = [outbox EXCEPT ![o] = Append(s, e)]
  BY DEF CreateEvent
<1>5. Announced'[o] = Append(Announced[o], News(e))
  BY <1>3, <1>4 DEF Announced
<1>6. \A p \in Orders \ {o} : Announced'[p] = Announced[p]
  BY <1>4 DEF Announced
<1> QED BY <1>5, <1>6 DEF Lifecycle!Announce, Announced

LEMMA EventNews ==
    /\ \A a \in Requests : News(PaymentSuccess(a)) = Lifecycle!Paid
    /\ \A f \in RefundIds : News(RefundRequested(f)) = Lifecycle!RefundAsked
    /\ \A s, t \in OrderStatus : News(OrderStatusChanged(s, t)) = Lifecycle!Moved(s, t)
<1>1. \A a \in Requests : News(PaymentSuccess(a)) = Lifecycle!Paid
  BY DEF News, PaymentSuccess, Lifecycle!Paid
<1>2. \A f \in RefundIds : News(RefundRequested(f)) = Lifecycle!RefundAsked
  BY DEF News, RefundRequested, Lifecycle!RefundAsked
<1>3. \A s, t \in OrderStatus : News(OrderStatusChanged(s, t)) = Lifecycle!Moved(s, t)
  BY DEF News, OrderStatusChanged, Lifecycle!Moved
<1> QED BY <1>1, <1>2, <1>3

\* The two tables of transitions are one.
LEMMA SameTransitions ==
    \A s \in OrderStatus : \A t \in allowedOrderStatusTransitions[s] :
        <<s, t>> \in Lifecycle!Transitions
BY DEF OrderStatus, allowedOrderStatusTransitions, Lifecycle!Transitions

-----------------------------------------------------------------------------
(* Steps.                                                                  *)

\* Preparing a payment moves nothing.
LEMMA RequestStutters ==
    ASSUME SInv, NEW r \in Requests, RequestNext(r)
    PROVE  UNCHANGED Lifecycle!vars
<1>0. UNCHANGED <<orderStatus, outbox, refund>>
  BY DEF RequestNext, InitiateCheck, InitiateTx, ClaimLease, GatewayCreateOrder,
      ReleaseLease, Finalize, AbortRequest
<1>1. \A o \in Orders : Money'[o] = Money[o]
  <2>1. CASE InitiateTx(r)
    <3> SUFFICES ASSUME NEW o \in Orders  PROVE Money'[o] = Money[o]
      OBVIOUS
    <3>1. payment'[o] = payment[o] \/ (payment[o] = "NONE" /\ payment'[o] = "PENDING")
      BY <2>1 DEF InitiateTx, SInv, TypeOK
    <3>2. CASE payment'[o] = payment[o]
      BY <1>0, <3>2, SameMoney
    <3>3. CASE payment[o] = "NONE" /\ payment'[o] = "PENDING"
      BY <3>3, MoneyValue DEF MoneyOf
    <3> QED BY <3>1, <3>2, <3>3
  <2>2. CASE UNCHANGED payment
    BY <1>0, <2>2, SameMoney
  <2> QED BY <2>1, <2>2 DEF RequestNext, InitiateCheck, ClaimLease, GatewayCreateOrder,
          ReleaseLease, Finalize, AbortRequest
<1>2. SameCaptured
  <2>1. CASE GatewayCreateOrder(r)
    <3>1. gatewayOrder[r] # "paid"
      BY <2>1, ConstantsAssumption
         DEF GatewayCreateOrder, SInv, IInv, RequestInv, AttemptInv, Creating
    <3> QED BY <2>1, <3>1 DEF GatewayCreateOrder, SameCaptured, SInv, TypeOK
  <2>2. CASE UNCHANGED gatewayOrder
    BY <2>2 DEF SameCaptured
  <2> QED BY <2>1, <2>2 DEF RequestNext, InitiateCheck, InitiateTx, ClaimLease,
          ReleaseLease, Finalize, AbortRequest
<1>3. \A a \in Requests : gatewayOrder[a] = "paid" => attempt'[a].order = attempt[a].order
  <2>1. CASE InitiateTx(r)
    <3>1. gatewayOrder[r] # "paid"
      BY <2>1, ConstantsAssumption DEF InitiateTx, SInv, IInv, RequestInv, AttemptInv
    <3> QED BY <2>1, <3>1 DEF InitiateTx, SInv, TypeOK
  <2>2. CASE ClaimLease(r) \/ ReleaseLease(r) \/ Finalize(r)
    <3>1. request[r].attempt \in Requests
      BY <2>2, ConstantsAssumption
         DEF ClaimLease, ReleaseLease, Finalize, SInv, IInv, RequestInv, Creating
    <3>2. PICK b \in Requests :
             \/ UNCHANGED attempt
             \/ attempt' = [attempt EXCEPT ![b].creationToken = r]
             \/ attempt' = [attempt EXCEPT ![b].creationToken = NULL]
             \/ attempt' = [attempt EXCEPT ![b].gatewayOrderId = r, ![b].creationToken = NULL]
      BY <2>2, <3>1 DEF ClaimLease, ReleaseLease, Finalize
    <3>3. \A a \in Requests : attempt[a] \in Attempt
      BY DEF SInv, TypeOK
    <3>4. CASE attempt' = [attempt EXCEPT ![b].creationToken = r]
      BY <3>3, <3>4 DEF SInv, TypeOK, Attempt
    <3>5. CASE attempt' = [attempt EXCEPT ![b].creationToken = NULL]
      BY <3>3, <3>5 DEF SInv, TypeOK, Attempt
    <3>6. CASE attempt' = [attempt EXCEPT ![b].gatewayOrderId = r, ![b].creationToken = NULL]
      BY <3>3, <3>6 DEF SInv, TypeOK, Attempt
    <3> QED BY <3>2, <3>4, <3>5, <3>6
  <2>3. CASE UNCHANGED attempt
    BY <2>3
  <2> QED BY <2>1, <2>2, <2>3 DEF RequestNext, InitiateCheck, GatewayCreateOrder, AbortRequest
<1> QED BY <1>0, <1>1, <1>2, <1>3, SameCapturedOrders, LifecycleStutter

\* The customer's payment is the capture of its attempt's order.
LEMMA PayIsCapture ==
    ASSUME SInv, NEW g \in Requests, CustomerPays(g)
    PROVE  \E o \in Orders : Lifecycle!Capture(o)
<1> DEFINE o == attempt[g].order
<1>1. attempt[g].gatewayOrderId = g
  <2>1. PICK r \in Requests : request[r].pc = "returned" /\ request[r].gatewayOrderId = g
    BY DEF CustomerPays
  <2> QED BY <2>1 DEF SInv, IInv, RequestInv
<1>2. o \in Orders
  BY <1>1, ConstantsAssumption DEF SInv, IInv, AttemptInv, TypeOK, Attempt
<1>3. gatewayOrder' = [gatewayOrder EXCEPT ![g] = "paid"]
      /\ UNCHANGED <<orderStatus, payment, attempt, refund, outbox>>
  BY DEF CustomerPays
<1>4. CapturedOrders' = CapturedOrders \cup {o}
  BY <1>2, <1>3 DEF CapturedOrders, SInv, TypeOK
<1>5. Money' = Money /\ Announced' = Announced
  BY <1>3 DEF Money, MoneyOf, RefundFailed, RefundOpen, Announced
<1> QED BY <1>2, <1>3, <1>4, <1>5 DEF Lifecycle!Capture

\* markPaymentSuccessful records what was captured, for an order whose money is due.
LEMMA MarkIsPay ==
    ASSUME SInv, NEW h \in Handlers, MarkCommit(h)
    PROVE  \E o \in Orders : Lifecycle!Pay(o)
<1>0. PICK a : a = handler[h].attempt
  OBVIOUS
<1>1. a \in Requests /\ gatewayOrder[a] = "paid" /\ attempt[a].status = "CREATED"
  <2>1. /\ handler[h].pc = "commit" /\ handler[h].seenAttempt = "CREATED"
    BY DEF MarkCommit
  <2>2. /\ handler[h].gatewayOrder \in Requests
        /\ gatewayOrder[handler[h].gatewayOrder] = "paid"
        /\ handler[h].attempt = handler[h].gatewayOrder
        /\ handler[h].seenAttempt = attempt[handler[h].attempt].status
    BY <2>1 DEF SInv, IInv, HandlerInv
  <2> QED BY <1>0, <2>1, <2>2
<1>2. PICK o \in Orders : o = attempt[a].order /\ payment[o] = "PENDING"
  BY <1>0, <1>1 DEF MarkCommit, SInv, IInv, HandlerInv, AttemptInv
<1>3. /\ payment' = [payment EXCEPT ![o] = "SUCCESS"]
      /\ CreateEvent(o, PaymentSuccess(a))
      /\ UNCHANGED <<orderStatus, refund, gatewayOrder>>
      /\ \A b \in Requests : attempt'[b].order = attempt[b].order
  <2>1. /\ payment' = [payment EXCEPT ![o] = "SUCCESS"]
        /\ CreateEvent(o, PaymentSuccess(a))
        /\ UNCHANGED <<orderStatus, refund, gatewayOrder>>
        /\ attempt' = [attempt EXCEPT
                            ![a].status = "SUCCESS",
                            ![a].gatewayPaymentId = IF @ = NULL
                                THEN handler[h].gatewayOrder ELSE @]
    BY <1>0, <1>1, <1>2 DEF MarkCommit
  <2>2. \A b \in Requests : attempt'[b].order = attempt[b].order
    BY <2>1, <1>1 DEF SInv, TypeOK, Attempt
  <2> QED BY <2>1, <2>2
<1>4. \A f \in RefundIds : refund[f].order # o
  <2> SUFFICES ASSUME NEW f \in RefundIds, refund[f].order = o  PROVE FALSE
    OBVIOUS
  <2>1. refund[f].status # "NONE"
    BY <1>2, ConstantsAssumption DEF SInv, IInv, RefundInv
  <2>2. SuccessfulAttempts(o) # {}
    BY <2>1 DEF SInv, IInv, RefundMatchesPayment
  <2> QED BY <1>2, <2>2 DEF SInv, IInv, PaymentMatchesAttempt
<1>5. Money[o] = "due" /\ Money' = [Money EXCEPT ![o] = "paid"]
  <2>1. Money[o] = "due"
    BY <1>2, MoneyValue DEF MoneyOf
  <2>2. Money'[o] = "paid"
    <3>1. ~RefundFailed(o)' /\ ~RefundOpen(o)'
      BY <1>3, <1>4 DEF RefundFailed, RefundOpen
    <3>2. payment'[o] = "SUCCESS"
      BY <1>2, <1>3 DEF SInv, TypeOK
    <3> QED BY <1>2, <3>1, <3>2, MoneyValue DEF MoneyOf
  <2>3. \A p \in Orders \ {o} : Money'[p] = Money[p]
    BY <1>3, SameMoney DEF SInv, TypeOK
  <2> QED BY <1>2, <2>1, <2>2, <2>3, MoneyChange
<1>6. o \in CapturedOrders /\ CapturedOrders' = CapturedOrders
  BY <1>1, <1>2, <1>3 DEF CapturedOrders
<1>7. Lifecycle!Announce(o, Lifecycle!Paid)
  BY <1>1, <1>2, <1>3, EventIsAnnounced, EventNews, EventType DEF SInv, TypeOK
<1> QED BY <1>2, <1>3, <1>5, <1>6, <1>7 DEF Lifecycle!Pay

\* Everything else a handler does moves nothing.
LEMMA HandlerSteps ==
    ASSUME SInv, NEW h \in Handlers, HandlerNext(h)
    PROVE  MarkCommit(h) \/ UNCHANGED Lifecycle!vars
<1>1. MarkCommit(h) \/ UNCHANGED <<orderStatus, payment, attempt, refund, outbox, gatewayOrder>>
  BY DEF HandlerNext, HandlerStep, WebhookReceive, VerifyReceive, FindAttempt, MarkBegin,
      MarkAlreadyDone, MarkRejected, MarkProcessed, AbortHandler
<1>2. UNCHANGED <<orderStatus, payment, attempt, refund, outbox, gatewayOrder>>
        => UNCHANGED Lifecycle!vars
  BY DEF Lifecycle!vars, Money, MoneyOf, RefundFailed, RefundOpen, CapturedOrders, Announced
<1> QED BY <1>1, <1>2

\* A status written with its event is a move.
LEMMA StatusMoves ==
    ASSUME SInv, NEW o \in Orders, NEW s \in allowedOrderStatusTransitions[orderStatus[o]],
           orderStatus' = [orderStatus EXCEPT ![o] = s],
           CreateEvent(o, OrderStatusChanged(orderStatus[o], s)),
           UNCHANGED <<payment, attempt, refund, gatewayOrder>>
    PROVE  Lifecycle!Next
<1>1. orderStatus[o] \in OrderStatus /\ s \in OrderStatus
  BY TransitionsType DEF SInv, TypeOK
<1>2. <<orderStatus[o], s>> \in Lifecycle!Transitions
  BY <1>1, SameTransitions
<1>3. Lifecycle!Announce(o, Lifecycle!Moved(orderStatus[o], s))
  BY <1>1, EventType, EventIsAnnounced, EventNews DEF SInv, TypeOK
<1>4. Money' = Money /\ CapturedOrders' = CapturedOrders
  BY DEF Money, MoneyOf, RefundFailed, RefundOpen, CapturedOrders
<1>5. Lifecycle!Move(o, s)
  BY <1>2, <1>3, <1>4 DEF Lifecycle!Move
<1>6. <<orderStatus[o], s>>[2] = s
  OBVIOUS
<1> QED BY <1>2, <1>5, <1>6 DEF Lifecycle!Next

\* cancelOrder cancels, and asks for the money back exactly when it was paid.
LEMMA CancelIsCancel ==
    ASSUME SInv, NEW x \in Admins, CancelCommit(x)
    PROVE  (\E o \in Orders : Lifecycle!Cancel(o)) \/ UNCHANGED Lifecycle!vars
<1>0. PICK o : o = admin[x].order
  OBVIOUS
<1>1. /\ o \in Orders
      /\ "CANCELLED" \in allowedOrderStatusTransitions[admin[x].seenStatus]
      /\ admin[x].seenPayment = payment[o]
      /\ \A f \in RefundIds : refund[f].order # o
  BY <1>0 DEF CancelCommit, SInv, IInv, AdminInv, CancellationCancels
<1>2. UNCHANGED <<payment, attempt, gatewayOrder>>
  BY <1>0 DEF CancelCommit
<1>3. CapturedOrders' = CapturedOrders
  BY <1>2 DEF CapturedOrders
<1>4. CASE ~StatusIsStill(o, admin[x].seenStatus)
  <2>1. UNCHANGED <<orderStatus, payment, attempt, refund, outbox, gatewayOrder>>
    BY <1>0, <1>2, <1>4 DEF CancelCommit
  <2> QED BY <2>1 DEF Lifecycle!vars, Money, MoneyOf, RefundFailed, RefundOpen, CapturedOrders, Announced
<1>5. CASE StatusIsStill(o, admin[x].seenStatus)
  <2>1. orderStatus' = [orderStatus EXCEPT ![o] = "CANCELLED"]
    BY <1>0, <1>5 DEF CancelCommit
  <2>2. <<orderStatus[o], "CANCELLED">> \in Lifecycle!Transitions
    <3>1. orderStatus[o] \in OrderStatus /\ "CANCELLED" \in allowedOrderStatusTransitions[orderStatus[o]]
      BY <1>0, <1>1, <1>5 DEF CancelCommit, StatusIsStill, SInv, TypeOK
    <3> QED BY <3>1, SameTransitions
  <2>3. CASE admin[x].seenPayment # "SUCCESS"
    <3>1. UNCHANGED <<refund, outbox>>
      BY <1>0, <1>5, <2>3 DEF CancelCommit
    <3>2. payment[o] # "REFUNDED"
      BY <1>1 DEF SInv, RefundedHasRefund
    <3>3. payment[o] \in {"NONE", "PENDING"}
      BY <1>1, <2>3, <3>2 DEF SInv, TypeOK, PaymentStatus
    <3>4. Money[o] = "due"
      BY <1>1, <3>3, MoneyValue DEF MoneyOf
    <3>5. Money' = Money /\ Announced' = Announced
      BY <1>2, <3>1 DEF Money, MoneyOf, RefundFailed, RefundOpen, Announced
    <3> QED BY <1>1, <1>3, <2>1, <2>2, <3>4, <3>5 DEF Lifecycle!Cancel
  <2>4. CASE admin[x].seenPayment = "SUCCESS"
    <3>1. PICK f \in RefundIds, a \in SuccessfulAttempts(o) :
             /\ refund[f].status = "NONE"
             /\ refund' = [refund EXCEPT ![f] = [order |-> o, status |-> "PENDING",
                              gatewayPaymentId |-> attempt[a].gatewayPaymentId]]
             /\ CreateEvent(o, RefundRequested(f))
      BY <1>0, <1>5, <2>4 DEF CancelCommit
    <3>2. Lifecycle!Announce(o, Lifecycle!RefundAsked)
      BY <1>1, <3>1, EventIsAnnounced, EventNews, EventType DEF SInv, TypeOK
    <3>3. Money[o] = "paid"
      BY <1>1, <2>4, MoneyValue, ZenonT(40) DEF MoneyOf, RefundFailed, RefundOpen
    <3>4. refund'[f].order = o /\ refund'[f].status = "PENDING"
          /\ \A g \in RefundIds \ {f} : refund'[g] = refund[g]
      BY <3>1 DEF SInv, TypeOK
    <3>5. Money'[o] = "refund due"
      <4>1. RefundOpen(o)'
        BY <3>4 DEF RefundOpen
      <4>2. ~RefundFailed(o)'
        <5> SUFFICES ASSUME NEW g \in RefundIds, refund'[g].order = o  PROVE refund'[g].status # "FAILED"
          BY DEF RefundFailed
        <5>1. g = f
          BY <1>1, <3>4
        <5> QED BY <3>4, <5>1
      <4>3. payment'[o] = "SUCCESS"
        BY <1>1, <1>2, <2>4
      <4> QED BY <1>1, <4>1, <4>2, <4>3, MoneyValue DEF MoneyOf
    <3>6. \A p \in Orders \ {o} : Money'[p] = Money[p]
      <4> SUFFICES ASSUME NEW p \in Orders \ {o}  PROVE Money'[p] = Money[p]
        OBVIOUS
      <4>1. refund[f].order # p
        BY <3>1, ConstantsAssumption DEF SInv, IInv, RefundInv
      <4> QED BY <1>2, <3>4, <4>1, SameMoney
    <3>7. Money' = [Money EXCEPT ![o] = "refund due"]
      BY <1>1, <3>5, <3>6, MoneyChange
    <3> QED BY <1>1, <1>3, <2>1, <2>2, <3>2, <3>3, <3>7 DEF Lifecycle!Cancel
  <2> QED BY <2>3, <2>4
<1> QED BY <1>4, <1>5

LEMMA AdminSteps ==
    ASSUME SInv, NEW x \in Admins, AdminNext(x)
    PROVE  Lifecycle!Next \/ UNCHANGED Lifecycle!vars
<1> DEFINE o == admin[x].order
<1>1. CASE UpdateOrderStatusCommit(x) /\ StatusIsStill(o, admin[x].seenStatus)
  <2>1. /\ o \in Orders
        /\ admin[x].newStatus \in allowedOrderStatusTransitions[admin[x].seenStatus]
        /\ admin[x].seenStatus = orderStatus[o]
    BY <1>1 DEF UpdateOrderStatusCommit, StatusIsStill, SInv, IInv, AdminInv
  <2>2. /\ orderStatus' = [orderStatus EXCEPT ![o] = admin[x].newStatus]
        /\ CreateEvent(o, OrderStatusChanged(orderStatus[o], admin[x].newStatus))
        /\ UNCHANGED <<payment, attempt, refund, gatewayOrder>>
    BY <1>1, <2>1 DEF UpdateOrderStatusCommit
  <2> QED BY <2>1, <2>2, StatusMoves
<1>2. CASE CancelCommit(x)
  BY <1>2, CancelIsCancel DEF Lifecycle!Next
<1>3. CASE UNCHANGED <<orderStatus, payment, attempt, refund, outbox, gatewayOrder>>
  BY <1>3 DEF Lifecycle!vars, Money, MoneyOf, RefundFailed, RefundOpen, CapturedOrders, Announced
<1> QED BY <1>1, <1>2, <1>3 DEF AdminNext, AdminStep, UpdateOrderStatusRead, CancelBegin,
        UpdateOrderStatusCommit, AbortAdmin

LEMMA ConfirmMoves ==
    ASSUME SInv, NEW o \in Orders, ConfirmOrderAfterPayment(o)
    PROVE  Lifecycle!Next
<1>1. orderStatus[o] = "PENDING" /\ "CONFIRMED" \in allowedOrderStatusTransitions["PENDING"]
  BY DEF ConfirmOrderAfterPayment, StatusIsStill, allowedOrderStatusTransitions, OrderStatus
<1> QED BY <1>1, StatusMoves DEF ConfirmOrderAfterPayment

\* The end of a refund settles the order's money, its claim does not show.
LEMMA RefundSettles ==
    ASSUME SInv, NEW f \in RefundIds, RefundNext(f)
    PROVE  (\E o \in Orders : Lifecycle!Settle(o)) \/ UNCHANGED Lifecycle!vars
<1> PICK o : o = refund[f].order
  OBVIOUS
<1>0. /\ UNCHANGED <<orderStatus, attempt, outbox, gatewayOrder>>
      /\ refund[f].status # "NONE"
      /\ \A g \in RefundIds : refund'[g].order = refund[g].order
      /\ \A g \in RefundIds \ {f} : refund'[g] = refund[g]
  <2>1. UNCHANGED <<orderStatus, attempt, outbox, gatewayOrder>>
    BY DEF RefundNext, ClaimRefund, SettleRefund, FailRefund
  <2> QED BY <2>1, RefundStep DEF SInv
<1>1. /\ o \in Orders /\ orderStatus[o] = "CANCELLED"
      /\ \A g \in RefundIds : refund[g].order = o => g = f
      /\ payment[o] \in {"SUCCESS", "REFUNDED"}
      /\ refund[f].status = "SUCCESS" <=> payment[o] = "REFUNDED"
  <2>1. o \in Orders /\ SuccessfulAttempts(o) # {}
    BY <1>0 DEF SInv, IInv, RefundMatchesPayment
  <2>2. payment[o] \in {"SUCCESS", "REFUNDED"}
    BY <2>1 DEF SInv, IInv, PaymentMatchesAttempt
  <2> QED BY <1>0, <2>1, <2>2 DEF SInv, IInv, RefundMatchesPayment
<1>2. CapturedOrders' = CapturedOrders /\ Announced' = Announced
  BY <1>0 DEF CapturedOrders, Announced
<1>3. ASSUME NEW p \in Orders \ {o}, payment'[p] = payment[p]  PROVE Money'[p] = Money[p]
  BY <1>0, <1>3, SameMoney
<1>4. /\ RefundFailed(o) <=> refund[f].status = "FAILED"
      /\ RefundOpen(o) <=> refund[f].status \in {"PENDING", "PROCESSING"}
  BY <1>1 DEF RefundFailed, RefundOpen
<1>5. /\ RefundFailed(o)' <=> refund'[f].status = "FAILED"
      /\ RefundOpen(o)' <=> refund'[f].status \in {"PENDING", "PROCESSING"}
  BY <1>0, <1>1 DEF RefundFailed, RefundOpen
<1>6. CASE ClaimRefund(f)
  <2>1. refund[f].status = "PENDING" /\ refund'[f].status = "PROCESSING" /\ UNCHANGED payment
    BY <1>6 DEF ClaimRefund, RefundMoves, SInv, TypeOK, Refund
  <2>2. MoneyOf(o)' = MoneyOf(o)
    BY <1>1, <1>4, <1>5, <2>1 DEF MoneyOf
  <2>3. \A p \in Orders : Money'[p] = Money[p]
    BY <1>3, <2>1, <2>2, MoneyValue
  <2> QED BY <1>0, <1>2, <2>3, LifecycleStutter
<1>7. CASE SettleRefund(f)
  <2>1. /\ refund[f].status = "PROCESSING" /\ payment[o] = "SUCCESS"
        /\ payment' = [payment EXCEPT ![o] = "REFUNDED"]
    BY <1>1, <1>7 DEF SettleRefund, RefundMoves
  <2>2. Money[o] = "refund due"
    BY <1>1, <1>4, <2>1, MoneyValue DEF MoneyOf
  <2>3. payment'[o] = "REFUNDED"
    BY <1>1, <2>1 DEF SInv, TypeOK
  <2>4. Money'[o] = "refunded"
    BY <1>1, <2>3, MoneyValue DEF MoneyOf
  <2>5. \A p \in Orders \ {o} : Money'[p] = Money[p]
    BY <1>3, <2>1 DEF SInv, TypeOK
  <2>6. Money' = [Money EXCEPT ![o] = "refunded"]
    BY <1>1, <2>4, <2>5, MoneyChange
  <2> QED BY <1>0, <1>1, <1>2, <2>2, <2>6 DEF Lifecycle!Settle
<1>8. CASE FailRefund(f)
  <2>1. refund[f].status = "PROCESSING" /\ refund'[f].status = "FAILED" /\ UNCHANGED payment
    BY <1>8 DEF FailRefund, RefundMoves, SInv, TypeOK, Refund
  <2>2. payment[o] = "SUCCESS"
    BY <1>1, <2>1
  <2>3. Money[o] = "refund due"
    BY <1>1, <1>4, <2>1, <2>2, MoneyValue DEF MoneyOf
  <2>4. Money'[o] = "refund failed"
    BY <1>1, <1>5, <2>1, <2>2, MoneyValue DEF MoneyOf
  <2>5. \A p \in Orders \ {o} : Money'[p] = Money[p]
    BY <1>3, <2>1
  <2>6. Money' = [Money EXCEPT ![o] = "refund failed"]
    BY <1>1, <2>4, <2>5, MoneyChange
  <2> QED BY <1>0, <1>1, <1>2, <2>3, <2>6 DEF Lifecycle!Settle
<1> QED BY <1>6, <1>7, <1>8 DEF RefundNext

-----------------------------------------------------------------------------
LEMMA LifecycleInit == Init => Lifecycle!Init
<1> SUFFICES ASSUME Init  PROVE Lifecycle!Init
  OBVIOUS
<1>1. Money = [o \in Orders |-> "due"]
  BY DEF Init, Money, MoneyOf
<1>2. CapturedOrders = {}
  BY DEF Init, CapturedOrders
<1>3. Announced = [o \in Orders |-> << >>]
  BY DEF Init, Announced
<1> QED BY <1>1, <1>2, <1>3 DEF Init, Lifecycle!Init

LEMMA LifecycleNext == SInv /\ [Next]_vars => [Lifecycle!Next]_(Lifecycle!vars)
<1> SUFFICES ASSUME SInv, [Next]_vars  PROVE Lifecycle!Next \/ UNCHANGED Lifecycle!vars
  OBVIOUS
<1>1. ASSUME NEW r \in Requests, RequestNext(r)  PROVE UNCHANGED Lifecycle!vars
  BY <1>1, RequestStutters
<1>2. ASSUME NEW g \in Requests, CustomerPays(g)  PROVE Lifecycle!Next
  BY <1>2, PayIsCapture DEF Lifecycle!Next
<1>3. ASSUME NEW h \in Handlers, HandlerNext(h)  PROVE Lifecycle!Next \/ UNCHANGED Lifecycle!vars
  BY <1>3, HandlerSteps, MarkIsPay DEF Lifecycle!Next
<1>4. ASSUME NEW f \in RefundIds, RefundNext(f)
      PROVE  Lifecycle!Next \/ UNCHANGED Lifecycle!vars
  BY <1>4, RefundSettles DEF Lifecycle!Next
<1>5. CASE UNCHANGED vars
  BY <1>5 DEF Lifecycle!vars, Money, MoneyOf, RefundFailed, RefundOpen, CapturedOrders, Announced
<1> QED BY <1>1, <1>2, <1>3, <1>4, <1>5, AdminSteps, ConfirmMoves DEF Next

\* Whatever runs at once, dies or comes twice, an order goes through its lifecycle:
\* its status moves along the table, its money is recorded once and only when it was
\* captured, it is given back once and only after a cancellation, and every such step
\* commits together with its event.
THEOREM OrderFollowsLifecycle == Spec => FollowsLifecycle
<1>1. Init => Lifecycle!Init
  BY LifecycleInit
<1>2. SInv /\ [Next]_vars => [Lifecycle!Next]_(Lifecycle!vars)
  BY LifecycleNext
<1> QED BY <1>1, <1>2, SInvariance, PTL DEF Spec, FollowsLifecycle, Lifecycle!Spec

-----------------------------------------------------------------------------
(* The history the outbox tells.  It needs no more than SInv: an order is  *)
(* moved only from the status the mover read, which is not CANCELLED, and  *)
(* only a cancellation writes no event.                                    *)

\* What a new event does to what the first events tell.
LEMMA TellsAppend ==
    ASSUME TypeOK, NEW o \in Orders, NEW e \in Event, CreateEvent(o, e),
           NEW n, n = Len(outbox[o])
    PROVE  /\ DOMAIN outbox'[o] = 1..n \cup {n + 1} /\ Len(outbox'[o]) = n + 1
           /\ outbox'[o][n + 1] = e
           /\ \A i \in 1..n : outbox'[o][i] = outbox[o][i]
           /\ \A o2 \in Orders \ {o} : outbox'[o2] = outbox[o2]
           /\ \A k, s : k \in 0..n => (TellsStatus(o, k, s)' <=> TellsStatus(o, k, s))
           /\ e.eventType # "ORDER_STATUS_CHANGED" =>
                 \A s : TellsStatus(o, n, s) => TellsStatus(o, n + 1, s)'
           /\ e.eventType = "ORDER_STATUS_CHANGED" =>
                 \A s : s = e.newStatus => TellsStatus(o, n + 1, s)'
<1>1. PICK seq : seq = outbox[o]
  OBVIOUS
<1>2. seq \in Seq(Event) /\ outbox' = [outbox EXCEPT ![o] = Append(seq, e)]
  BY <1>1 DEF TypeOK, CreateEvent
<1>3. n = Len(seq)
  BY <1>1
<1>4. n \in Nat /\ DOMAIN seq = 1..n
  BY <1>2, <1>3
<1>5. PICK next : next = Append(seq, e)
  OBVIOUS
<1>6. /\ Len(next) = n + 1 /\ DOMAIN next = 1..(n + 1) /\ next[n + 1] = e
      /\ \A i \in 1..n : next[i] = seq[i]
  BY <1>2, <1>3, <1>4, <1>5
<1>7. outbox'[o] = next /\ \A o2 \in Orders \ {o} : outbox'[o2] = outbox[o2]
  BY <1>2, <1>5 DEF TypeOK
<1>8. DOMAIN next = DOMAIN seq \cup {n + 1}
  BY <1>4, <1>6
<1>9. ASSUME NEW k \in 0..n, NEW s
      PROVE  TellsStatus(o, k, s)' <=> TellsStatus(o, k, s)
  <2>1. \A i \in 1..k : i \in 1..n
    BY <1>4
  <2>2. {i \in 1..k : next[i].eventType = "ORDER_STATUS_CHANGED"} =
        {i \in 1..k : seq[i].eventType = "ORDER_STATUS_CHANGED"}
    BY <1>6, <2>1
  <2>. QED BY <1>1, <1>6, <1>7, <2>1, <2>2 DEF TellsStatus
<1>10. ASSUME e.eventType # "ORDER_STATUS_CHANGED", NEW s, TellsStatus(o, n, s)
       PROVE  TellsStatus(o, n + 1, s)'
  <2>1. {i \in 1..(n + 1) : next[i].eventType = "ORDER_STATUS_CHANGED"} =
        {i \in 1..n : seq[i].eventType = "ORDER_STATUS_CHANGED"}
    BY <1>4, <1>6, <1>10
  <2>. QED BY <1>1, <1>6, <1>7, <1>10, <2>1 DEF TellsStatus
<1>11. ASSUME e.eventType = "ORDER_STATUS_CHANGED", NEW s, s = e.newStatus
       PROVE  TellsStatus(o, n + 1, s)'
  <2>1. /\ n + 1 \in {i \in 1..(n + 1) : next[i].eventType = "ORDER_STATUS_CHANGED"}
        /\ \A j \in 1..(n + 1) : j <= n + 1
    BY <1>4, <1>6, <1>11
  <2>. QED BY <1>6, <1>7, <1>11, <2>1 DEF TellsStatus
<1>. QED BY <1>1, <1>3, <1>4, <1>6, <1>7, <1>8, <1>9, <1>10, <1>11

\* The two halves of StatusHistoryPublished, for one order.
Chained(o) ==
    \A i \in DOMAIN outbox[o] :
        outbox[o][i].eventType = "ORDER_STATUS_CHANGED" =>
            /\ TellsStatus(o, i - 1, outbox[o][i].previousStatus)
            /\ outbox[o][i].newStatus \in allowedOrderStatusTransitions[outbox[o][i].previousStatus]

Told(o) ==
    \E s \in OrderStatus :
        /\ TellsStatus(o, Len(outbox[o]), s)
        /\ \/ orderStatus[o] = s
           \/ orderStatus[o] = "CANCELLED" /\ "CANCELLED" \in allowedOrderStatusTransitions[s]

\* The property is both halves, for every order.
LEMMA HistoryHalves == StatusHistoryPublished <=> \A o \in Orders : Chained(o) /\ Told(o)
BY DEF StatusHistoryPublished, Chained, Told

\* An order whose events and status stay keeps its history.
LEMMA HistoryStays ==
    ASSUME NEW o \in Orders, outbox'[o] = outbox[o], Chained(o), Told(o),
           \/ orderStatus'[o] = orderStatus[o]
           \/ /\ orderStatus'[o] = "CANCELLED"
              /\ "CANCELLED" \in allowedOrderStatusTransitions[orderStatus[o]]
              /\ orderStatus[o] # "CANCELLED"
    PROVE  Chained(o)' /\ Told(o)'
<1>1. \A k, s : TellsStatus(o, k, s)' <=> TellsStatus(o, k, s)
  BY DEF TellsStatus
<1>2. Chained(o)'
  BY <1>1 DEF Chained
<1>3. Told(o)'
  BY <1>1 DEF Told
<1>. QED BY <1>2, <1>3

\* Another event tells nothing new.
LEMMA HistoryOther ==
    ASSUME TypeOK, NEW o \in Orders, NEW e \in Event, CreateEvent(o, e),
           e.eventType # "ORDER_STATUS_CHANGED", Chained(o), Told(o),
           \/ orderStatus'[o] = orderStatus[o]
           \/ /\ orderStatus'[o] = "CANCELLED"
              /\ "CANCELLED" \in allowedOrderStatusTransitions[orderStatus[o]]
              /\ orderStatus[o] # "CANCELLED"
    PROVE  Chained(o)' /\ Told(o)'
<1>1. outbox[o] \in Seq(Event)
  BY DEF TypeOK
<1>2. PICK n : n = Len(outbox[o]) /\ n \in Nat /\ DOMAIN outbox[o] = 1..n
  BY <1>1
<1>3. /\ DOMAIN outbox'[o] = 1..n \cup {n + 1} /\ outbox'[o][n + 1] = e /\ Len(outbox'[o]) = n + 1
      /\ \A i \in 1..n : outbox'[o][i] = outbox[o][i]
      /\ \A k, s : k \in 0..n => (TellsStatus(o, k, s)' <=> TellsStatus(o, k, s))
  BY <1>2, TellsAppend
<1>a. ASSUME NEW s, TellsStatus(o, n, s)  PROVE TellsStatus(o, n + 1, s)'
  BY <1>2, <1>a, TellsAppend
<1>4. ASSUME NEW i \in DOMAIN outbox'[o], outbox'[o][i].eventType = "ORDER_STATUS_CHANGED"
      PROVE  /\ TellsStatus(o, i - 1, outbox[o][i].previousStatus)'
             /\ outbox'[o][i].newStatus \in
                    allowedOrderStatusTransitions[outbox'[o][i].previousStatus]
  <2>1. i \in 1..n /\ i - 1 \in 0..n /\ outbox'[o][i] = outbox[o][i]
    BY <1>2, <1>3, <1>4, SMTT(30)
  <2>2. PICK p : p = outbox[o][i].previousStatus
    OBVIOUS
  <2>3. TellsStatus(o, i - 1, p) /\ outbox[o][i].newStatus \in allowedOrderStatusTransitions[p]
    BY <1>2, <1>4, <2>1, <2>2 DEF Chained
  <2>4. TellsStatus(o, i - 1, p)'
    BY <1>3, <2>1, <2>3
  <2>. QED BY <2>1, <2>2, <2>3, <2>4
<1>5. Chained(o)'
  BY <1>4 DEF Chained
<1>6. Told(o)'
  BY <1>2, <1>3, <1>a DEF Told
<1>. QED BY <1>5, <1>6

\* A move and its event extend the chain.
LEMMA HistoryMoves ==
    ASSUME TypeOK, NEW o \in Orders, NEW t \in allowedOrderStatusTransitions[orderStatus[o]],
           CreateEvent(o, OrderStatusChanged(orderStatus[o], t)), Chained(o), Told(o),
           orderStatus[o] # "CANCELLED", orderStatus'[o] = t
    PROVE  Chained(o)' /\ Told(o)'
<1>0. orderStatus[o] \in OrderStatus /\ t \in OrderStatus
  BY TransitionsType DEF TypeOK
<1>a. PICK from : from = orderStatus[o]
  OBVIOUS
<1>b. PICK e : e = OrderStatusChanged(from, t)
  OBVIOUS
<1>c. /\ e \in Event /\ e.eventType = "ORDER_STATUS_CHANGED"
      /\ e.previousStatus = from /\ e.newStatus = t
  BY <1>0, <1>a, <1>b, EventType DEF OrderStatusChanged
<1>1. outbox[o] \in Seq(Event)
  BY DEF TypeOK
<1>2. PICK n : n = Len(outbox[o]) /\ n \in Nat /\ DOMAIN outbox[o] = 1..n
  BY <1>1
<1>3. /\ DOMAIN outbox'[o] = 1..n \cup {n + 1} /\ outbox'[o][n + 1] = e /\ Len(outbox'[o]) = n + 1
      /\ \A i \in 1..n : outbox'[o][i] = outbox[o][i]
      /\ \A k, s : k \in 0..n => (TellsStatus(o, k, s)' <=> TellsStatus(o, k, s))
      /\ TellsStatus(o, n + 1, t)'
  BY <1>2, <1>a, <1>b, <1>c, TellsAppend
<1>4. TellsStatus(o, n, from)
  BY <1>2, <1>a DEF Told
<1>5. ASSUME NEW i \in DOMAIN outbox'[o], outbox'[o][i].eventType = "ORDER_STATUS_CHANGED"
      PROVE  /\ TellsStatus(o, i - 1, outbox[o][i].previousStatus)'
             /\ outbox'[o][i].newStatus \in
                    allowedOrderStatusTransitions[outbox'[o][i].previousStatus]
  <2>1. CASE i \in 1..n
    <3>1. i - 1 \in 0..n /\ outbox'[o][i] = outbox[o][i]
      BY <1>2, <1>3, <2>1
    <3>2. PICK p : p = outbox[o][i].previousStatus
      OBVIOUS
    <3>3. TellsStatus(o, i - 1, p) /\ outbox[o][i].newStatus \in allowedOrderStatusTransitions[p]
      BY <1>2, <1>5, <2>1, <3>1, <3>2 DEF Chained
    <3>4. TellsStatus(o, i - 1, p)'
      BY <1>3, <3>1, <3>3
    <3>. QED BY <3>1, <3>2, <3>3, <3>4
  <2>2. CASE i = n + 1
    <3>1. outbox'[o][i] = e /\ i - 1 = n
      BY <1>2, <1>3, <2>2
    <3>2. TellsStatus(o, n, from)'
      BY <1>2, <1>3, <1>4
    <3>3. TellsStatus(o, i - 1, from)'
      BY <3>1, <3>2
    <3>. QED BY <1>a, <1>c, <3>1, <3>3
  <2>. QED BY <1>3, <2>1, <2>2
<1>6. Chained(o)'
  BY <1>5 DEF Chained
<1>7. Told(o)'
  BY <1>0, <1>3 DEF Told
<1>. QED BY <1>6, <1>7

\* What is published of an order stays when neither its events nor its status change.
LEMMA HistoryKept ==
    ASSUME StatusHistoryPublished, UNCHANGED <<orderStatus, outbox>>
    PROVE  StatusHistoryPublished'
BY DEF StatusHistoryPublished, TellsStatus

\* A step that concerns one order is looked at for that order alone.
LEMMA HistoryOfOne ==
    ASSUME StatusHistoryPublished, NEW o \in Orders,
           \A o2 \in Orders \ {o} : outbox'[o2] = outbox[o2] /\ orderStatus'[o2] = orderStatus[o2],
           Chained(o) /\ Told(o) => Chained(o)' /\ Told(o)'
    PROVE  StatusHistoryPublished'
<1>1. \A o2 \in Orders : Chained(o2) /\ Told(o2)
  BY HistoryHalves
<1>2. \A o2 \in Orders : Chained(o2)' /\ Told(o2)'
  BY <1>1, HistoryStays
<1>. QED BY <1>2 DEF StatusHistoryPublished, Chained, Told

\* A move under its compare-and-set publishes itself.
LEMMA HistoryMove ==
    ASSUME TypeOK, StatusHistoryPublished, NEW o \in Orders,
           NEW t \in allowedOrderStatusTransitions[orderStatus[o]],
           orderStatus' = [orderStatus EXCEPT ![o] = t],
           CreateEvent(o, OrderStatusChanged(orderStatus[o], t))
    PROVE  StatusHistoryPublished'
<1>1. orderStatus[o] # "CANCELLED"
  BY DEF allowedOrderStatusTransitions, OrderStatus
<1>2. /\ orderStatus'[o] = t
      /\ \A o2 \in Orders \ {o} : outbox'[o2] = outbox[o2] /\ orderStatus'[o2] = orderStatus[o2]
  BY DEF TypeOK, CreateEvent
<1>3. Chained(o) /\ Told(o) => Chained(o)' /\ Told(o)'
  BY <1>1, <1>2, HistoryMoves
<1>. QED BY <1>2, <1>3, HistoryOfOne

\* A cancellation is the one move that publishes nothing, or a refund.
LEMMA HistoryCancel ==
    ASSUME SInv, StatusHistoryPublished, NEW x \in Admins, CancelCommit(x)
    PROVE  StatusHistoryPublished'
<1>0. PICK o : o = admin[x].order
  OBVIOUS
<1>1. o \in Orders /\ "CANCELLED" \in allowedOrderStatusTransitions[admin[x].seenStatus]
  BY <1>0 DEF CancelCommit, SInv, IInv, AdminInv, CancellationCancels
<1>2. CASE ~StatusIsStill(o, admin[x].seenStatus)
  BY <1>0, <1>2, HistoryKept DEF CancelCommit
<1>3. CASE StatusIsStill(o, admin[x].seenStatus)
  <2>1. /\ orderStatus' = [orderStatus EXCEPT ![o] = "CANCELLED"]
        /\ "CANCELLED" \in allowedOrderStatusTransitions[orderStatus[o]]
    BY <1>0, <1>1, <1>3 DEF CancelCommit, StatusIsStill
  <2>2. /\ orderStatus'[o] = "CANCELLED" /\ orderStatus[o] # "CANCELLED"
        /\ \A o2 \in Orders \ {o} : orderStatus'[o2] = orderStatus[o2]
    BY <1>1, <2>1 DEF SInv, TypeOK, allowedOrderStatusTransitions, OrderStatus
  <2>3. CASE UNCHANGED outbox
    BY <1>1, <2>1, <2>2, <2>3, HistoryStays, HistoryOfOne
  <2>4. ASSUME NEW f \in RefundIds, CreateEvent(o, RefundRequested(f))
        PROVE  StatusHistoryPublished'
    <3>1. RefundRequested(f) \in Event /\ RefundRequested(f).eventType # "ORDER_STATUS_CHANGED"
      BY EventType DEF RefundRequested
    <3>2. \A o2 \in Orders \ {o} : outbox'[o2] = outbox[o2]
      BY <1>1, <2>4 DEF SInv, TypeOK, CreateEvent
    <3>3. Chained(o) /\ Told(o) => Chained(o)' /\ Told(o)'
      BY <1>1, <2>1, <2>2, <2>4, <3>1, HistoryOther DEF SInv
    <3>. QED BY <1>1, <2>2, <3>2, <3>3, HistoryOfOne
  <2>. QED BY <1>0, <1>3, <2>3, <2>4 DEF CancelCommit
<1>. QED BY <1>2, <1>3

\* No step unpublishes the history.
LEMMA HistoryNext == SInv /\ StatusHistoryPublished /\ [Next]_vars => StatusHistoryPublished'
<1> SUFFICES ASSUME SInv, StatusHistoryPublished, [Next]_vars  PROVE StatusHistoryPublished'
  OBVIOUS
<1>1. ASSUME NEW r \in Requests, RequestNext(r) \/ CustomerPays(r)
      PROVE  StatusHistoryPublished'
  BY <1>1, HistoryKept DEF RequestNext, InitiateCheck, InitiateTx, ClaimLease,
      GatewayCreateOrder, ReleaseLease, Finalize, AbortRequest, CustomerPays
<1>2. ASSUME NEW h \in Handlers, HandlerNext(h)  PROVE StatusHistoryPublished'
  <2>1. ASSUME MarkCommit(h)  PROVE StatusHistoryPublished'
    <3>1. PICK a, o : a = handler[h].attempt /\ o = attempt[a].order
      OBVIOUS
    <3>2. a \in Requests /\ o \in Orders
      BY <2>1, <3>1 DEF MarkCommit, SInv, IInv, HandlerInv, AttemptInv
    <3>3. UNCHANGED orderStatus /\ (UNCHANGED outbox \/ CreateEvent(o, PaymentSuccess(a)))
      BY <2>1, <3>1 DEF MarkCommit
    <3>4. ASSUME CreateEvent(o, PaymentSuccess(a))  PROVE StatusHistoryPublished'
      <4>1. PaymentSuccess(a) \in Event /\ PaymentSuccess(a).eventType # "ORDER_STATUS_CHANGED"
        BY <3>2, EventType DEF PaymentSuccess
      <4>2. \A o2 \in Orders \ {o} : outbox'[o2] = outbox[o2]
        BY <3>2, <3>4 DEF SInv, TypeOK, CreateEvent
      <4>3. Chained(o) /\ Told(o) => Chained(o)' /\ Told(o)'
        BY <3>2, <3>3, <3>4, <4>1, HistoryOther DEF SInv
      <4>. QED BY <3>2, <3>3, <4>2, <4>3, HistoryOfOne
    <3>. QED BY <3>3, <3>4, HistoryKept
  <2>. QED BY <1>2, <2>1, HistoryKept DEF HandlerNext, HandlerStep, WebhookReceive,
           VerifyReceive, FindAttempt, MarkBegin, MarkAlreadyDone, MarkRejected,
           MarkProcessed, AbortHandler
<1>3. ASSUME NEW x \in Admins, AdminNext(x)  PROVE StatusHistoryPublished'
  <2>1. ASSUME UpdateOrderStatusCommit(x)  PROVE StatusHistoryPublished'
    <3>1. PICK o : o = admin[x].order
      OBVIOUS
    <3>2. CASE ~StatusIsStill(o, admin[x].seenStatus)
      BY <2>1, <3>1, <3>2, HistoryKept DEF UpdateOrderStatusCommit
    <3>3. CASE StatusIsStill(o, admin[x].seenStatus)
      <4>1. /\ o \in Orders /\ admin[x].seenStatus = orderStatus[o]
            /\ admin[x].newStatus \in allowedOrderStatusTransitions[admin[x].seenStatus]
        BY <2>1, <3>1, <3>3 DEF UpdateOrderStatusCommit, StatusIsStill, SInv, IInv, AdminInv
      <4>2. /\ orderStatus' = [orderStatus EXCEPT ![o] = admin[x].newStatus]
            /\ CreateEvent(o, OrderStatusChanged(orderStatus[o], admin[x].newStatus))
        BY <2>1, <3>1, <3>3, <4>1 DEF UpdateOrderStatusCommit
      <4>. QED BY <4>1, <4>2, HistoryMove DEF SInv
    <3>. QED BY <3>2, <3>3
  <2>2. ASSUME CancelCommit(x)  PROVE StatusHistoryPublished'
    BY <2>2, HistoryCancel
  <2>. QED BY <1>3, <2>1, <2>2, HistoryKept DEF AdminNext, AdminStep, UpdateOrderStatusRead,
           CancelBegin, AbortAdmin
<1>4. ASSUME NEW o \in Orders, ConfirmOrderAfterPayment(o)  PROVE StatusHistoryPublished'
  <2>1. orderStatus[o] = "PENDING" /\ "CONFIRMED" \in allowedOrderStatusTransitions["PENDING"]
    BY <1>4 DEF ConfirmOrderAfterPayment, StatusIsStill, allowedOrderStatusTransitions, OrderStatus
  <2>. QED BY <1>4, <2>1, HistoryMove DEF ConfirmOrderAfterPayment, SInv
<1>5. ASSUME NEW f \in RefundIds, RefundNext(f)  PROVE StatusHistoryPublished'
  BY <1>5, HistoryKept DEF RefundNext, ClaimRefund, SettleRefund, FailRefund
<1>6. CASE UNCHANGED vars
  BY <1>6, HistoryKept
<1>. QED BY <1>1, <1>2, <1>3, <1>4, <1>5, <1>6 DEF Next

\* An order's ORDER_STATUS_CHANGED events, in the order they were written, are a chain
\* of allowed moves from PENDING to its status, however the moves of administrators,
\* cancellations and confirmations race: who reads the events knows the status, short
\* of a cancellation.
THEOREM HistoryIsPublished == Spec => []StatusHistoryPublished
<1>1. Init => StatusHistoryPublished
  <2>. SUFFICES ASSUME Init, NEW o \in Orders  PROVE Chained(o) /\ Told(o)
    BY HistoryHalves
  <2>1. outbox[o] = << >> /\ orderStatus[o] = "PENDING"
    BY DEF Init
  <2>2. DOMAIN outbox[o] = {} /\ Len(outbox[o]) = 0
    BY <2>1
  <2>3. TellsStatus(o, Len(outbox[o]), "PENDING")
    BY <2>2 DEF TellsStatus
  <2>. QED BY <2>1, <2>2, <2>3 DEF Chained, Told, OrderStatus
<1>2. SInv /\ StatusHistoryPublished /\ [Next]_vars => StatusHistoryPublished'
  BY HistoryNext
<1>. QED BY <1>1, <1>2, SInvariance, PTL DEF Spec
=============================================================================
