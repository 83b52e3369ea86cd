\* One refund, one call at a time, the code's three retries, nothing lost but
\* what a call itself fails to get.
CONSTANTS
    Refunds = {r1}
    Keys = {r1}
    Calls = {c1}
    MaxRetries = 3
    MaxFaults = 0
    None = None
SPECIFICATION FairSpec
PROPERTY
    ReconciledWithGateway
