\* Three actors; two mutexes, one of which an actor may hold while it locks the
\* other; one condition variable.
SPECIFICATION FairSpec
CONSTANTS
    a1 = a1
    a2 = a2
    a3 = a3
    NoActor = NoActor
    Actors = {a1, a2, a3}
    Mutexes = {1, 2}
    Conditions = {3}
INVARIANTS
    TypeOK
    HeldIsOwned
    NobodyForgotten
    CallsSucceed
PROPERTIES
    StatusTellsNotification
    LockSucceeds
\* Every actor may be waiting for a notification nobody is left to send.
CHECK_DEADLOCK FALSE
