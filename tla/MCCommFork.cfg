\* A process that forks while it has communications.
SPECIFICATION Spec
CONSTANTS
    p = p
    q = q
    x = x
    y = y
    EmptyPayload = EmptyPayload
    NoPayload = NoPayload
    Actors = {p, q}
    InitialActors = {p}
    Addresses = {1, 2}
    Payloads = {x, y}
    MaxTransfers = 3
    Careful = TRUE
    SharingForks = TRUE
INVARIANT
    StoreConsistent
CHECK_DEADLOCK FALSE
