\* Three sign-ins in two browsers with three callback requests; one session in
\* two tabs of a browser, three requests of which any answer may be lost; four
\* overlapping requests about three addresses.
CONSTANTS
    Flows = {x1, x2, x3}
    Browsers = {y1, y2}
    Callbacks = {z1, z2, z3}
    Sessions = {s1}
    Devices = {"browser"}
    Tabs = {y1, y2}
    Lifetime = 2
    MaxTime = 2
    MaxRequests = 3
    Ids = {x1, x2, x3}
    Requests = {z1, z2, z3, z4}
    None = None
\* The bounds end some behaviours, and requests are made once.
CHECK_DEADLOCK FALSE
SPECIFICATION AccountsSpec
SYMMETRY Symmetry
INVARIANTS
    TypesAreOK
    OneSessionPerFlow
    ReturnsWhereItStarted
    ExchangedIsDead
    OneDefault
PROPERTIES
    RevokedForGood
    ChosenIsDefault
