\* Two events of the outbox, two workers that take one at a time, two attempts;
\* one refund, two overlapping calls of one retry, one fault, and the
\* reconciliation worker; connections that close and cannot be made, and a
\* channel that closes alone.
CONSTANTS
    Parts = {"outbox", "refund", "connection"}
    NULL = NULL
    NumEvents = 2
    Workers = {w1, w2}
    MAX_OUTBOX_ATTEMPTS = 2
    BATCH_SIZE = 1
    Refunds = {r1}
    Keys = {r1}
    Calls = {c1, c2}
    MaxRetries = 1
    MaxFaults = 1
    PaymentSuccess = {}
    Statuses = {}
    Invalid = {}
    Absent = {}
    Handlers = {}
    Prefetch = 1
    MaxPublications = 0
    MaxCloses = 0
    MaxConnectionCloses = 2
    MaxConnectFailures = 1
    MaxChannelCloses = 1
    None = None
\* The bounds end some behaviours.
CHECK_DEADLOCK FALSE
SPECIFICATION EventsFairSpec
PROPERTIES
    EveryEventSettles
    SettledOrUnidentified
    ConsumersComeBack
