\* Two actors, one mutex: enough for a call of try_lock.
SPECIFICATION Spec
CONSTANTS
    a1 = a1
    a2 = a2
    a3 = a3
    NoActor = NoActor
    Actors = {a1, a2}
    Mutexes = {1}
    Conditions = {3}
INVARIANT
    TryLockReturns
CHECK_DEADLOCK FALSE
