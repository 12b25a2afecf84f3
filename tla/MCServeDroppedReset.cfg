\* A command client that dies before it has read its answer.
SPECIFICATION Spec
CONSTANTS
    adder = adder
    adder2 = adder2
    starter = starter
    killer = killer
    watcher = watcher
    actor1 = actor1
    actor2 = actor2
    NoSocket = NoSocket
    Sockets = {adder, watcher}
    CommandsOf <- CastCommands
    Unreliable = {adder}
    Misconfigured = {}
    SignalAllowed = FALSE
    MaxPid = 3
INVARIANT
    EndedAreUnwatched
CHECK_DEADLOCK FALSE
