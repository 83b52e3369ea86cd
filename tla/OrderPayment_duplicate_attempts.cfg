\* Two initiatePayment calls for one order.
SPECIFICATION Spec
CONSTANTS
    NULL = NULL
    Orders = {o1}
    Requests = {r1, r2}
    Handlers = {h1}
    Admins = {x1}
    RefundIds = {f1}
INVARIANTS
    NoDuplicateAttempts
CHECK_DEADLOCK FALSE
