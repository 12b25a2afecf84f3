\* Well-behaved clients under fair scheduling of the threads and the clients.
\* The server process ends: no deadlock check.
SPECIFICATION FairSpec
CONSTANTS
    adder = adder
    adder2 = adder2
    starter = starter
    killer = killer
    watcher = watcher
    actor1 = actor1
    actor2 = actor2
    NoSocket = NoSocket
    Sockets = {adder, starter, watcher, actor1}
    CommandsOf <- CastCommands
    Unreliable = {}
    Misconfigured = {}
    SignalAllowed = FALSE
    MaxPid = 2
PROPERTIES
    CommandsAnswered
    ServerEnds
CHECK_DEADLOCK FALSE
