\* One order with two gateway orders, one handler, one administrator, no symmetry.
SPECIFICATION FairSpec
CONSTANTS
    NULL = NULL
    Orders = {o1}
    Requests = {r1, r2}
    Handlers = {h1}
    Admins = {x1}
    RefundIds = {f1}
PROPERTIES
    CapturedPaymentRecorded
\* Every request is made once and every order ends: the system may stop.
CHECK_DEADLOCK FALSE
