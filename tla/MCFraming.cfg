\* Two connections, two messages each: the first is read by the command thread.
SPECIFICATION FairSpec
CONSTANTS
    s1 = s1
    s2 = s2
    NoStream = NoStream
    Streams = {s1, s2}
    Messages <- SizesThatMatter
    Base = 2
    HeaderSize = 2
    Weight <- BitWeights
    MaxContentSize = 3
    MaxMessages = 2
INVARIANTS
    TypeOK
    RefusedOnlyAtLimit
    BlocksOnlyInsideCommand
    OneHalfRead
PROPERTIES
    ImplementsChannel
    AllDelivered
    EndNoticed
\* Clients may have nothing more to send.
CHECK_DEADLOCK FALSE
