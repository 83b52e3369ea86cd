\* One order, two payment requests, two concurrent handlers of captured
\* payments, two concurrent administrators.
SPECIFICATION Spec
CONSTANTS
    NULL = NULL
    Orders = {o1}
    Requests = {r1, r2}
    Handlers = {h1, h2}
    Admins = {x1, x2}
    RefundIds = {f1, f2}
SYMMETRY Symmetry
INVARIANTS
    TypeOK
    PaymentMatchesAttempt
    RecordedPaymentIsCaptured
    OnePaymentSuccessEvent
    RefundMatchesPayment
    StatusHistoryPublished
    ProcessedWebhookIsRecorded
    CapturedOrderIsKnown
PROPERTIES
    CancelRefundsPaidOrder
    FollowsLifecycle
\* Every request is made once and every order ends: the system may stop.
CHECK_DEADLOCK FALSE
