\* An actor process that dies before its CONNECT is answered.
SPECIFICATION Spec
CONSTANTS
    adder = adder
    adder2 = adder2
    starter = starter
    killer = killer
    watcher = watcher
    actor1 = actor1
    actor2 = actor2
    NoSocket = NoSocket
    Sockets = {adder, starter, actor1}
    CommandsOf <- CastCommands
    Unreliable = {actor1}
    Misconfigured = {}
    SignalAllowed = FALSE
    MaxPid = 2
INVARIANT
    FaultyActorReturnsOne
CHECK_DEADLOCK FALSE
