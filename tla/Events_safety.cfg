\* Two events of the outbox in one batch, two workers, three attempts; a refund
\* event and a status event, two callbacks, one close or crash; one refund that two overlapping calls may process, with two faults
\* and a second key for a mistake to use; two connections that close at any
\* time, two that cannot be made, and a channel that closes alone.
CONSTANTS
    Parts = {"outbox", "delivery", "refund", "connection"}
    NULL = NULL
    NumEvents = 2
    Workers = {c1, c2}
    MAX_OUTBOX_ATTEMPTS = 3
    BATCH_SIZE = 2
    Refunds = {r1}
    Keys = {r1, k1}
    Calls = {c1, c2}
    MaxRetries = 2
    MaxFaults = 2
    PaymentSuccess = {}
    Statuses = {s1}
    Invalid = {}
    Absent = {}
    Handlers = {c1, c2}
    Prefetch = 2
    MaxPublications = 1
    MaxCloses = 1
    MaxConnectionCloses = 2
    MaxConnectFailures = 2
    MaxChannelCloses = 1
    None = None
\* The bounds end some behaviours.
CHECK_DEADLOCK FALSE
SPECIFICATION EventsSpec
SYMMETRY Symmetry
INVARIANTS
    EventTypesAreOK
    PendingIsClaimable
    ClaimsAreExclusive
    NoEarlyBurial
    OneGatewayRefund
    SettledTruthfully
    AcknowledgedIsReconcilable
    VariablesAreLive
    NobodyForgotten
PROPERTIES
    KeepsPromise
    DeliversAtLeastOnce
