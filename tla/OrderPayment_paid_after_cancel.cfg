\* A cancellation against a gateway order that is still open.
SPECIFICATION Spec
CONSTANTS
    NULL = NULL
    Orders = {o1}
    Requests = {r1, r2}
    Handlers = {h1}
    Admins = {x1}
    RefundIds = {f1}
INVARIANTS
    UnrefundedCancellationIsComplete
CHECK_DEADLOCK FALSE
