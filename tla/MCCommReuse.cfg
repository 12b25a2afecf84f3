\* One process that may wait for a communication again once it is over.
SPECIFICATION Spec
CONSTANTS
    p = p
    q = q
    x = x
    y = y
    EmptyPayload = EmptyPayload
    NoPayload = NoPayload
    Actors = {p}
    InitialActors = {p}
    Addresses = {1, 2}
    Payloads = {x, y}
    MaxTransfers = 3
    Careful = FALSE
    SharingForks = FALSE
INVARIANT
    WaitAckHasData
CHECK_DEADLOCK FALSE
