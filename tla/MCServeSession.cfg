\* A session of well-behaved clients: one initial actor, which creates another one,
\* and a KILL that may arrive at any time.  The server process ends: no deadlock check.
SPECIFICATION Spec
CONSTANTS
    adder = adder
    adder2 = adder2
    starter = starter
    killer = killer
    watcher = watcher
    actor1 = actor1
    actor2 = actor2
    NoSocket = NoSocket
    Sockets = {adder, starter, killer, actor1, actor2}
    CommandsOf <- CastCommands
    Unreliable = {}
    Misconfigured = {}
    SignalAllowed = TRUE
    MaxPid = 3
INVARIANTS
    TypeOK
    ConnectedCount
    AbortsOnlyOnMisuse
    OneOwner
    WatchedAreKept
    HandedAreRegistered
PROPERTIES
    LaunchedOnce
    KilledIsFinal
    ImplementsSession
CHECK_DEADLOCK FALSE
