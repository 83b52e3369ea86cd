\* A refund event that is published twice and whose row is missing, so that
\* errors of both kinds meet it; two callbacks of which the prefetch lets one
\* run; one crash or close, foreseen or not.
CONSTANTS
    PaymentSuccess = {}
    RefundRequested = {r1}
    StatusChanged = {s1}
    Invalid = {}
    Missing = {r1}
    Handlers = {h1, h2}
    Prefetch = 1
    MaxPublications = 1
    MaxCloses = 1
\* The bounds end some behaviours.
CHECK_DEADLOCK FALSE
SPECIFICATION FairSpec
PROPERTY
    EveryMessageSettles
