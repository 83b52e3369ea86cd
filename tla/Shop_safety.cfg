\* Two administrators' requests that overlap, on every small menu; three
\* overlapping requests of a customer about two menu items, in quantities to 2;
\* the page of a customer with three overlapping calls of the cart and two
\* orders.
CONSTANTS
    MenuItems = {i1, i2}
    Requests = {q1, q2, q3}
    MaxQuantity = 2
    MaxRows = 3
    Categories = {c1, c2}
    Names = {n1, n2}
    Editors = {e1, e2}
    Calls = {q1, q2, q3}
    MaxOrders = 2
    None = None
\* The bounds end some behaviours, and requests are made once.
CHECK_DEADLOCK FALSE
SPECIFICATION ShopSpec
SYMMETRY Symmetry
INVARIANTS
    TypesAreOK
    OrderedOnce
    NothingOrderedTwice
    ScreenIsTrue
    MenuIsConsistent
PROPERTY
    ClearedWasOrdered
