\* A process that may fork before it has communications, and clients that leave
\* what is over alone.
SPECIFICATION Spec
CONSTANTS
    p = p
    q = q
    x = x
    y = y
    EmptyPayload = EmptyPayload
    NoPayload = NoPayload
    Actors = {p, q}
    InitialActors = {p}
    Addresses = {1, 2}
    Payloads = {x, y}
    MaxTransfers = 3
    Careful = TRUE
    SharingForks = FALSE
SYMMETRY PayloadSymmetry
INVARIANTS
    TypeOK
    StoreMatchesHandles
    NamesAreStable
    ReceivedData
    AssertionsHold
CHECK_DEADLOCK FALSE
