\* Client processes that die, wrong actor ids, wrong hosts and foreign bytes.
\* The server process ends: no deadlock check.
SPECIFICATION Spec
CONSTANTS
    adder = adder
    adder2 = adder2
    starter = starter
    killer = killer
    watcher = watcher
    actor1 = actor1
    actor2 = actor2
    NoSocket = NoSocket
    Sockets = {adder, starter, actor1, actor2}
    CommandsOf <- CastCommands
    Unreliable = {adder, actor1}
    Misconfigured = {adder, actor1}
    SignalAllowed = FALSE
    MaxPid = 3
INVARIANTS
    StartsComplete
    BookkeepingHolds
    ReturnCodeTellsFailures
PROPERTY
    ImplementsSession
CHECK_DEADLOCK FALSE
