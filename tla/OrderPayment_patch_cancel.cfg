\* A paid order moved to CANCELLED by the status endpoint.
SPECIFICATION Spec
CONSTANTS
    NULL = NULL
    Orders = {o1}
    Requests = {r1, r2}
    Handlers = {h1}
    Admins = {x1}
    RefundIds = {f1}
PROPERTIES
    EveryPaidCancellationRefunds
CHECK_DEADLOCK FALSE
